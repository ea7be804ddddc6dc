---------------------------- MODULE CodecProofs -----------------------------
(***************************************************************************)
(* The codec and the read loop over it, for every size of octet and word,  *)
(* every cap and every script of a peer: no octet read is lost however the *)
(* reads are cut; what was encoded decodes to itself, and a malformation   *)
(* to what it is named for; what decodes is encoded and decoded to itself; *)
(* and what does not decode is answered once, with its own number, except  *)
(* a malformed response of a known command, which is dropped.              *)
(***************************************************************************)
EXTENDS Codec, SequenceTheorems, FiniteSetTheorems, WellFoundedInduction, TLAPS

OctetStrings == Seq(Octet)

LEMMA ConfigFacts ==
  /\ Base \in Nat /\ Base \in Nat \ {0} /\ Base >= 2 /\ Word \in Nat /\ Word >= 2 /\ MaxPDULen \in Nat
  /\ HeaderLen \in Nat /\ HeaderLen = 4 * Word
  BY CodecConfig DEF HeaderLen

\* Among natural numbers there is a least one.
LEMMA LeastNatural ==
  ASSUME NEW T, T \subseteq Nat, T # {}
  PROVE  \E k \in T : \A j \in T : k <= j
<1>1. PICK k \in T : \A j \in T : ~(<<j, k>> \in OpToRel(<, Nat))
  BY NatLessThanWellFounded, WFMin
<1>2. \A j \in T : ~(j < k)
  BY <1>1 DEF OpToRel
<1> QED BY <1>2
-----------------------------------------------------------------------------
(***************************************************************************)
(* Loops. What the model computes round by round is a function defined by  *)
(* recursion on the round: there is one, and what it has after one more    *)
(* round is that round applied to what it had.                             *)
(***************************************************************************)
FlattenLoop(s) == [kind |-> "flatten", of |-> s]
ValuesLoop == [kind |-> "values"]
NumberLoop(octets) == [kind |-> "number", of |-> octets]
TLVLoop(f, r) == [kind |-> "tlvs", of |-> f, from |-> r]
FieldLoop(f, r, kinds) == [kind |-> "fields", of |-> f, from |-> r, kinds |-> kinds]

Start(l) ==
  CASE l.kind = "flatten" -> l.of[1]
    [] l.kind = "values" -> 1
    [] l.kind = "number" -> 0
    [] l.kind = "tlvs" -> [l.from EXCEPT !.out = <<>>]
    [] l.kind = "fields" -> l.from
Round(l, v, i) ==
  CASE l.kind = "flatten" -> v \o l.of[i]
    [] l.kind = "values" -> Base * v
    [] l.kind = "number" -> v * Base + l.of[i]
    [] l.kind = "tlvs" -> ReadTLV(l.of, v)
    [] l.kind = "fields" -> ReadField(l.of, v, l.kinds[i])

IsLoop(after, l, lo, n) ==
  after = [i \in lo..n |-> IF i = lo THEN Start(l) ELSE Round(l, after[i - 1], i)]

\* What a loop has after its first round, and after each other.
LEMMA LoopRounds ==
  ASSUME NEW a, NEW l, NEW lo \in Nat, NEW n \in Nat, IsLoop(a, l, lo, n), lo <= n
  PROVE  a[lo] = Start(l) /\ \A i \in (lo + 1)..n : a[i] = Round(l, a[i - 1], i)
<1>1. a = [i \in lo..n |-> IF i = lo THEN Start(l) ELSE Round(l, a[i - 1], i)]
  BY DEF IsLoop
<1>2. ASSUME NEW i \in (lo + 1)..n PROVE i \in lo..n /\ i # lo
  OBVIOUS
<1>3. lo \in lo..n
  OBVIOUS
<1> QED BY <1>1, <1>2, <1>3

\* A loop runs for any number of rounds.
LEMMA LoopExists ==
  ASSUME NEW l, NEW lo \in Nat, NEW n \in Nat, lo <= n
  PROVE  \E a : IsLoop(a, l, lo, n)
<1> DEFINE T == {m \in Nat : lo <= m /\ ~\E a : IsLoop(a, l, lo, m)}
<1> SUFFICES ASSUME T # {} PROVE FALSE
  OBVIOUS
<1>1. PICK m \in T : \A j \in T : m <= j
  BY LeastNatural
<1>2. m \in Nat /\ lo <= m /\ ~\E a : IsLoop(a, l, lo, m)
  OBVIOUS
<1>3. CASE m = lo
  <2> DEFINE g == [i \in lo..lo |-> Start(l)]
  <2>1. IsLoop(g, l, lo, lo)
    BY DEF IsLoop
  <2> QED BY <2>1, <1>2, <1>3
<1>4. CASE m # lo
  <2>1. m - 1 \in Nat /\ lo <= m - 1 /\ m - 1 \notin T
    BY <1>1, <1>2, <1>4
  <2>2. PICK h : IsLoop(h, l, lo, m - 1)
    BY <2>1
  <2>22. h[lo] = Start(l) /\ \A i \in (lo + 1)..(m - 1) : h[i] = Round(l, h[i - 1], i)
    <3> DEFINE k == m - 1
    <3>1. k \in Nat /\ lo <= k /\ IsLoop(h, l, lo, k)
      BY <2>1, <2>2
    <3> HIDE DEF k, T
    <3>2. h[lo] = Start(l) /\ \A i \in (lo + 1)..k : h[i] = Round(l, h[i - 1], i)
      BY <3>1, LoopRounds
    <3> QED BY <3>2 DEF k
  <2> DEFINE g == [i \in lo..m |-> IF i = m THEN Round(l, h[m - 1], m) ELSE h[i]]
  <2>3. \A i \in lo..(m - 1) : g[i] = h[i]
    BY <1>2, <2>1
  <2>4. ASSUME NEW i \in lo..m
        PROVE  g[i] = IF i = lo THEN Start(l) ELSE Round(l, g[i - 1], i)
    <3>1. CASE i = m
      <4>1. i # lo /\ i - 1 \in lo..(m - 1) BY <3>1, <1>2, <1>4
      <4>2. g[i - 1] = h[m - 1] BY <4>1, <3>1, <2>3
      <4>3. g[i] = Round(l, h[m - 1], m) BY <3>1
      <4> QED BY <4>1, <4>2, <4>3, <3>1
    <3>2. CASE i # m
      <4>1. i \in lo..(m - 1) /\ g[i] = h[i] BY <3>2, <1>2, <2>3
      <4>2. CASE i = lo
        <5>1. h[i] = Start(l) BY <4>2, <2>22
        <5> QED BY <5>1, <4>1, <4>2
      <4>3. CASE i # lo
        <5>1. i - 1 \in lo..(m - 1) /\ i \in (lo + 1)..(m - 1) BY <4>1, <4>3, <1>2
        <5>2. g[i - 1] = h[i - 1] BY <5>1, <2>3
        <5>3. h[i] = Round(l, h[i - 1], i) BY <5>1, <2>22
        <5> QED BY <5>2, <5>3, <4>1, <4>3
      <4> QED BY <4>2, <4>3
    <3> QED BY <3>1, <3>2
  <2>5. IsLoop(g, l, lo, m)
    <3> DEFINE rhs == [i \in lo..m |-> IF i = lo THEN Start(l) ELSE Round(l, g[i - 1], i)]
    <3>1. DOMAIN g = lo..m /\ g = [i \in lo..m |-> g[i]] OBVIOUS
    <3> HIDE DEF g
    <3>2. g = rhs BY <3>1, <2>4
    <3> QED BY <3>2 DEF IsLoop
  <2> QED BY <2>5, <1>2
<1> QED BY <1>3, <1>4

\* Loops that begin alike and go on alike have the same after as many rounds.
LEMMA LoopsAgree ==
  ASSUME NEW a, NEW l, NEW b, NEW k, NEW lo \in Nat, NEW n \in Nat, NEW p \in Nat,
         lo <= p, p <= n, IsLoop(a, l, lo, n), IsLoop(b, k, lo, p), Start(l) = Start(k),
         \A v : \A i \in (lo + 1)..p : Round(l, v, i) = Round(k, v, i)
  PROVE  \A i \in lo..p : a[i] = b[i]
<1> DEFINE T == {i \in lo..p : a[i] # b[i]}
<1> SUFFICES ASSUME T # {} PROVE FALSE
  OBVIOUS
<1>1. T \subseteq Nat
  OBVIOUS
<1>2. PICK m \in T : \A j \in T : m <= j
  BY <1>1, LeastNatural
<1>3. m \in lo..p /\ a[m] # b[m]
  OBVIOUS
<1>0. lo <= n
  OBVIOUS
<1>40. a[lo] = Start(l) /\ \A i \in (lo + 1)..n : a[i] = Round(l, a[i - 1], i)
  BY <1>0, LoopRounds
<1>41. b[lo] = Start(k) /\ \A i \in (lo + 1)..p : b[i] = Round(k, b[i - 1], i)
  BY LoopRounds
<1>5. m # lo /\ m \in (lo + 1)..p /\ m \in (lo + 1)..n /\ m - 1 \in lo..p /\ m - 1 \notin T
  BY <1>2, <1>3, <1>40, <1>41
<1>6. a[m] = Round(l, a[m - 1], m) /\ b[m] = Round(k, b[m - 1], m)
  BY <1>5, <1>40, <1>41
<1>7. a[m - 1] = b[m - 1]
  BY <1>5
<1> QED BY <1>3, <1>5, <1>6, <1>7

\* One more round.
LEMMA LoopGoesOn ==
  ASSUME NEW a, NEW l, NEW b, NEW k, NEW lo \in Nat, NEW p \in Nat,
         lo <= p, IsLoop(a, l, lo, p + 1), IsLoop(b, k, lo, p), Start(l) = Start(k),
         \A v : \A i \in (lo + 1)..p : Round(l, v, i) = Round(k, v, i)
  PROVE  a[p + 1] = Round(l, b[p], p + 1)
<1>1. \A i \in lo..p : a[i] = b[i]
  BY LoopsAgree
<1>2. p + 1 \in (lo + 1)..(p + 1) /\ (p + 1) - 1 = p /\ p + 1 \in Nat /\ lo <= p + 1
  OBVIOUS
<1>3. a[p + 1] = Round(l, a[(p + 1) - 1], p + 1)
  BY <1>2, LoopRounds
<1> QED BY <1>1, <1>2, <1>3

LEMMA SameLoopGoesOn ==
  ASSUME NEW a, NEW l, NEW b, NEW p \in Nat, IsLoop(a, l, 0, p + 1), IsLoop(b, l, 0, p)
  PROVE  a[p + 1] = Round(l, b[p], p + 1)
<1>1. Start(l) = Start(l)
  OBVIOUS
<1>2. \A v : \A i \in (0 + 1)..p : Round(l, v, i) = Round(l, v, i)
  OBVIOUS
<1>3. 0 \in Nat /\ 0 <= p
  OBVIOUS
<1> QED BY <1>1, <1>2, <1>3, LoopGoesOn

\* FlattenSeq is a loop.
LEMMA FlattenLoops ==
  ASSUME NEW s, Len(s) \in Nat \ {0}
  PROVE  \E a : IsLoop(a, FlattenLoop(s), 1, Len(s)) /\ FlattenSeq(s) = a[Len(s)]
<1> DEFINE n == Len(s)
           Flattens(g) == g = [i \in 1..n |-> IF i = 1 THEN s[i] ELSE g[i - 1] \o s[i]]
<1>1. ASSUME NEW g PROVE Flattens(g) <=> IsLoop(g, FlattenLoop(s), 1, n)
  <2>1. \A i \in 1..n : (IF i = 1 THEN Start(FlattenLoop(s)) ELSE Round(FlattenLoop(s), g[i - 1], i))
                        = (IF i = 1 THEN s[i] ELSE g[i - 1] \o s[i])
    BY DEF FlattenLoop, Start, Round
  <2> HIDE DEF n
  <2> QED BY <2>1 DEF IsLoop
<1>2. \E g : Flattens(g)
  <2>1. 1 \in Nat /\ n \in Nat /\ 1 <= n
    OBVIOUS
  <2> HIDE DEF n, Flattens
  <2>2. PICK h : IsLoop(h, FlattenLoop(s), 1, n)
    BY <2>1, LoopExists
  <2> QED BY <2>2, <1>1
<1> DEFINE F == CHOOSE g : Flattens(g)
<1>3. FlattenSeq(s) = F[n]
  BY DEF FlattenSeq
<1>4. Flattens(F)
  <2> HIDE DEF Flattens, n
  <2> QED BY <1>2
<1>5. IsLoop(F, FlattenLoop(s), 1, n)
  <2> HIDE DEF Flattens, F, n
  <2> QED BY <1>4, <1>1
<1> QED BY <1>3, <1>5

\* Nothing in, nothing out.
LEMMA FlattenNothing ==
  ASSUME NEW s, Len(s) = 0, NEW S, s \in Seq(S)
  PROVE  FlattenSeq(s) = <<>>
<1>1. FlattenSeq(s) = s
  BY DEF FlattenSeq
<1> QED BY <1>1

\* One sequence more is appended to what there was.
LEMMA FlattenMore ==
  ASSUME NEW S, NEW s \in Seq(Seq(S)), NEW x \in Seq(S)
  PROVE  FlattenSeq(Append(s, x)) = FlattenSeq(s) \o x
<1> DEFINE n == Len(s)
           t == Append(s, x)
           SS == Seq(S)
<1>1. n \in Nat /\ Len(t) = n + 1 /\ t \in Seq(SS) /\ t[n + 1] = x /\ \A i \in 1..n : t[i] = s[i]
  <2> HIDE DEF SS
  <2>1. s \in Seq(SS) /\ x \in SS
    BY DEF SS
  <2> QED BY <2>1
<1> HIDE DEF t
<1>2. PICK a : IsLoop(a, FlattenLoop(t), 1, Len(t)) /\ FlattenSeq(t) = a[Len(t)]
  <2>1. Len(t) \in Nat \ {0}
    BY <1>1
  <2> QED BY <2>1, FlattenLoops
<1>3. CASE n = 0
  <2>1. FlattenSeq(s) = <<>>
    BY <1>3, FlattenNothing
  <2>2. a[1] = Start(FlattenLoop(t)) /\ Len(t) = 1
    BY <1>1, <1>2, <1>3, LoopRounds
  <2>3. FlattenSeq(t) = x
    BY <1>1, <1>2, <1>3, <2>2 DEF Start, FlattenLoop
  <2>4. <<>> \o x = x
    OBVIOUS
  <2> QED BY <2>1, <2>3, <2>4 DEF t
<1>4. CASE n # 0
  <2>0. n \in Nat \ {0}
    BY <1>1, <1>4
  <2>1. PICK b : IsLoop(b, FlattenLoop(s), 1, n) /\ FlattenSeq(s) = b[n]
    BY <2>0, FlattenLoops
  <2> DEFINE l == FlattenLoop(t)
             k == FlattenLoop(s)
  <2>2. Start(l) = Start(k)
    <3>1. Start(l) = t[1] /\ Start(k) = s[1]
      BY DEF Start, FlattenLoop
    <3>2. 1 \in 1..n
      BY <2>0
    <3> QED BY <1>1, <3>1, <3>2
  <2>3. ASSUME NEW v, NEW i \in (1 + 1)..n PROVE Round(l, v, i) = Round(k, v, i)
    <3>1. Round(l, v, i) = v \o t[i] /\ Round(k, v, i) = v \o s[i]
      BY DEF Round, FlattenLoop
    <3>2. i \in 1..n
      BY <2>0
    <3> QED BY <1>1, <3>1, <3>2
  <2>4. Round(l, b[n], n + 1) = b[n] \o x
    BY <1>1 DEF Round, FlattenLoop
  <2>5. IsLoop(a, l, 1, n + 1) /\ IsLoop(b, k, 1, n) /\ 1 <= n /\ 1 \in Nat
    BY <1>1, <1>2, <2>0, <2>1
  <2> HIDE DEF l, k, n
  <2>6. a[n + 1] = Round(l, b[n], n + 1)
    BY <2>0, <2>2, <2>3, <2>5, LoopGoesOn
  <2> QED BY <1>1, <1>2, <2>1, <2>4, <2>6 DEF t
<1> QED BY <1>3, <1>4

\* Values: the octets of a number.
LEMMA ValuesLoops ==
  ASSUME NEW n \in Nat
  PROVE  \E a : IsLoop(a, ValuesLoop, 0, n) /\ Values(n) = a[n]
<1> DEFINE Counts(g) == g = [i \in 0..n |-> IF i = 0 THEN 1 ELSE Base * g[i - 1]]
<1>1. ASSUME NEW g PROVE Counts(g) <=> IsLoop(g, ValuesLoop, 0, n)
  <2>1. \A i \in 0..n : (IF i = 0 THEN Start(ValuesLoop) ELSE Round(ValuesLoop, g[i - 1], i))
                        = (IF i = 0 THEN 1 ELSE Base * g[i - 1])
    BY DEF ValuesLoop, Start, Round
  <2> QED BY <2>1 DEF IsLoop
<1>2. \E g : Counts(g)
  <2>1. 0 \in Nat /\ 0 <= n
    OBVIOUS
  <2> HIDE DEF Counts
  <2>2. PICK h : IsLoop(h, ValuesLoop, 0, n)
    BY <2>1, LoopExists
  <2> QED BY <2>2, <1>1
<1> DEFINE F == CHOOSE g : Counts(g)
<1>3. Values(n) = F[n]
  BY DEF Values
<1>4. Counts(F)
  <2> HIDE DEF Counts
  <2> QED BY <1>2
<1>5. IsLoop(F, ValuesLoop, 0, n)
  <2> HIDE DEF Counts, F
  <2> QED BY <1>4, <1>1
<1> QED BY <1>3, <1>5

LEMMA ValuesNext ==
  /\ Values(0) = 1
  /\ \A n \in Nat : Values(n + 1) = Base * Values(n)
<1>1. Values(0) = 1
  <2>1. PICK a : IsLoop(a, ValuesLoop, 0, 0) /\ Values(0) = a[0]
    BY ValuesLoops
  <2>2. a[0] = Start(ValuesLoop)
    BY <2>1, LoopRounds
  <2> QED BY <2>1, <2>2 DEF Start, ValuesLoop
<1>2. ASSUME NEW n \in Nat PROVE Values(n + 1) = Base * Values(n)
  <2>1. PICK b : IsLoop(b, ValuesLoop, 0, n) /\ Values(n) = b[n]
    BY ValuesLoops
  <2>2. PICK a : IsLoop(a, ValuesLoop, 0, n + 1) /\ Values(n + 1) = a[n + 1]
    BY ValuesLoops
  <2>3. a[n + 1] = Round(ValuesLoop, b[n], n + 1)
    BY <2>1, <2>2, LoopGoesOn
  <2> QED BY <2>1, <2>2, <2>3 DEF Round, ValuesLoop
<1> QED BY <1>1, <1>2

LEMMA NumberLoops ==
  ASSUME NEW s, Len(s) \in Nat
  PROVE  \E a : IsLoop(a, NumberLoop(s), 0, Len(s)) /\ Number(s) = a[Len(s)]
<1> DEFINE n == Len(s)
           Counts(g) == g = [i \in 0..n |-> IF i = 0 THEN 0 ELSE g[i - 1] * Base + s[i]]
<1>1. ASSUME NEW g PROVE Counts(g) <=> IsLoop(g, NumberLoop(s), 0, n)
  <2>1. \A i \in 0..n : (IF i = 0 THEN Start(NumberLoop(s)) ELSE Round(NumberLoop(s), g[i - 1], i))
                        = (IF i = 0 THEN 0 ELSE g[i - 1] * Base + s[i])
    BY DEF NumberLoop, Start, Round
  <2> HIDE DEF n
  <2> QED BY <2>1 DEF IsLoop
<1>2. \E g : Counts(g)
  <2>1. 0 \in Nat /\ n \in Nat /\ 0 <= n
    OBVIOUS
  <2> HIDE DEF n, Counts
  <2>2. PICK h : IsLoop(h, NumberLoop(s), 0, n)
    BY <2>1, LoopExists
  <2> QED BY <2>2, <1>1
<1> DEFINE F == CHOOSE g : Counts(g)
<1>3. Number(s) = F[n]
  BY DEF Number
<1>4. Counts(F)
  <2> HIDE DEF Counts, n
  <2> QED BY <1>2
<1>5. IsLoop(F, NumberLoop(s), 0, n)
  <2> HIDE DEF Counts, F, n
  <2> QED BY <1>4, <1>1
<1> QED BY <1>3, <1>5

LEMMA TurnsLoop ==
  ASSUME NEW f, NEW r, NEW n \in Nat
  PROVE  \E a : IsLoop(a, TLVLoop(f, r), 0, n) /\ TLVTurns(f, r, n) = a[n]
<1> DEFINE Turns(g) == g = [i \in 0..n |-> IF i = 0 THEN [r EXCEPT !.out = <<>>] ELSE ReadTLV(f, g[i - 1])]
<1>1. ASSUME NEW g PROVE Turns(g) <=> IsLoop(g, TLVLoop(f, r), 0, n)
  <2>1. \A i \in 0..n : (IF i = 0 THEN Start(TLVLoop(f, r)) ELSE Round(TLVLoop(f, r), g[i - 1], i))
                        = (IF i = 0 THEN [r EXCEPT !.out = <<>>] ELSE ReadTLV(f, g[i - 1]))
    BY DEF TLVLoop, Start, Round
  <2> QED BY <2>1 DEF IsLoop
<1>2. \E g : Turns(g)
  <2>1. 0 \in Nat /\ 0 <= n
    OBVIOUS
  <2> HIDE DEF Turns
  <2>2. PICK h : IsLoop(h, TLVLoop(f, r), 0, n)
    BY <2>1, LoopExists
  <2> QED BY <2>2, <1>1
<1> DEFINE F == CHOOSE g : Turns(g)
<1>3. TLVTurns(f, r, n) = F[n]
  BY DEF TLVTurns
<1>4. Turns(F)
  <2> HIDE DEF Turns
  <2> QED BY <1>2
<1>5. IsLoop(F, TLVLoop(f, r), 0, n)
  <2> HIDE DEF Turns, F
  <2> QED BY <1>4, <1>1
<1> QED BY <1>3, <1>5

LEMMA FieldsLoop ==
  ASSUME NEW f, NEW r, NEW kinds, NEW n \in Nat
  PROVE  \E a : IsLoop(a, FieldLoop(f, r, kinds), 0, n) /\ ReadFields(f, r, kinds, n) = a[n]
<1> DEFINE Reads(g) == g = [i \in 0..n |-> IF i = 0 THEN r ELSE ReadField(f, g[i - 1], kinds[i])]
           l == FieldLoop(f, r, kinds)
<1>1. ASSUME NEW g PROVE Reads(g) <=> IsLoop(g, l, 0, n)
  <2>1. \A i \in 0..n : (IF i = 0 THEN Start(l) ELSE Round(l, g[i - 1], i))
                        = (IF i = 0 THEN r ELSE ReadField(f, g[i - 1], kinds[i]))
    BY DEF FieldLoop, Start, Round
  <2> QED BY <2>1 DEF IsLoop
<1>2. \E g : Reads(g)
  <2>1. 0 \in Nat /\ 0 <= n
    OBVIOUS
  <2> HIDE DEF Reads, l
  <2>2. PICK h : IsLoop(h, l, 0, n)
    BY <2>1, LoopExists
  <2> QED BY <2>2, <1>1
<1> DEFINE F == CHOOSE g : Reads(g)
<1>3. ReadFields(f, r, kinds, n) = F[n]
  BY DEF ReadFields
<1>4. Reads(F)
  <2> HIDE DEF Reads
  <2> QED BY <1>2
<1>5. IsLoop(F, l, 0, n)
  <2> HIDE DEF Reads, F, l
  <2> QED BY <1>4, <1>1
<1> QED BY <1>3, <1>5

\* One parameter more, one field more.
LEMMA NoTurn ==
  ASSUME NEW f, NEW r
  PROVE  TLVTurns(f, r, 0) = [r EXCEPT !.out = <<>>]
<1> DEFINE l == TLVLoop(f, r)
<1>1. Start(l) = [r EXCEPT !.out = <<>>]
  BY DEF Start, TLVLoop
<1> HIDE DEF l
<1>2. PICK a : IsLoop(a, l, 0, 0) /\ TLVTurns(f, r, 0) = a[0]
  BY TurnsLoop DEF l
<1>3. a[0] = Start(l)
  <2>1. 0 \in Nat /\ 0 <= 0
    OBVIOUS
  <2> QED BY <1>2, <2>1, LoopRounds
<1> QED BY <1>1, <1>2, <1>3

LEMMA NextTurn ==
  ASSUME NEW f, NEW r, NEW n \in Nat
  PROVE  TLVTurns(f, r, n + 1) = ReadTLV(f, TLVTurns(f, r, n))
<1> DEFINE l == TLVLoop(f, r)
<1>1. \A v, i : Round(l, v, i) = ReadTLV(f, v)
  BY DEF Round, TLVLoop
<1> HIDE DEF l
<1>2. PICK b : IsLoop(b, l, 0, n) /\ TLVTurns(f, r, n) = b[n]
  BY TurnsLoop DEF l
<1>3. PICK a : IsLoop(a, l, 0, n + 1) /\ TLVTurns(f, r, n + 1) = a[n + 1]
  BY TurnsLoop DEF l
<1>4. a[n + 1] = Round(l, b[n], n + 1)
  BY <1>2, <1>3, SameLoopGoesOn
<1> QED BY <1>1, <1>2, <1>3, <1>4

LEMMA FieldsNext ==
  ASSUME NEW f, NEW r, NEW kinds
  PROVE  /\ ReadFields(f, r, kinds, 0) = r
         /\ \A n \in Nat : ReadFields(f, r, kinds, n + 1) = ReadField(f, ReadFields(f, r, kinds, n), kinds[n + 1])
<1> DEFINE l == FieldLoop(f, r, kinds)
<1>0. Start(l) = r /\ \A v, i : Round(l, v, i) = ReadField(f, v, kinds[i])
  BY DEF Start, Round, FieldLoop
<1> HIDE DEF l
<1>1. ReadFields(f, r, kinds, 0) = r
  <2>1. PICK a : IsLoop(a, l, 0, 0) /\ ReadFields(f, r, kinds, 0) = a[0]
    BY FieldsLoop DEF l
  <2>2. a[0] = Start(l)
    <3>1. 0 \in Nat /\ 0 <= 0
      OBVIOUS
    <3> QED BY <2>1, <3>1, LoopRounds
  <2> QED BY <1>0, <2>1, <2>2
<1>2. ASSUME NEW n \in Nat
      PROVE  ReadFields(f, r, kinds, n + 1) = ReadField(f, ReadFields(f, r, kinds, n), kinds[n + 1])
  <2>1. PICK b : IsLoop(b, l, 0, n) /\ ReadFields(f, r, kinds, n) = b[n]
    BY FieldsLoop DEF l
  <2>2. PICK a : IsLoop(a, l, 0, n + 1) /\ ReadFields(f, r, kinds, n + 1) = a[n + 1]
    BY FieldsLoop DEF l
  <2>3. a[n + 1] = Round(l, b[n], n + 1)
    BY <2>1, <2>2, SameLoopGoesOn
  <2> QED BY <1>0, <2>1, <2>2, <2>3
<1> QED BY <1>1, <1>2

\* One digit more.
LEMMA NumberMore ==
  ASSUME NEW S, NEW s \in Seq(S), NEW o \in S
  PROVE  Number(Append(s, o)) = Number(s) * Base + o
<1> DEFINE n == Len(s)
           t == Append(s, o)
           l == NumberLoop(t)
           k == NumberLoop(s)
<1>1. n \in Nat /\ Len(t) = n + 1 /\ t[n + 1] = o /\ \A i \in 1..n : t[i] = s[i]
  OBVIOUS
<1> HIDE DEF t
<1>2. PICK b : IsLoop(b, k, 0, n) /\ Number(s) = b[n]
  BY <1>1, NumberLoops
<1>3. PICK a : IsLoop(a, l, 0, n + 1) /\ Number(t) = a[n + 1]
  <2>1. Len(t) \in Nat
    BY <1>1
  <2> QED BY <1>1, <2>1, NumberLoops
<1>4. Start(l) = 0 /\ Start(k) = 0 /\ \A v, i : Round(l, v, i) = v * Base + t[i] /\ Round(k, v, i) = v * Base + s[i]
  BY DEF Start, Round, NumberLoop
<1>5. ASSUME NEW v, NEW i \in (0 + 1)..n PROVE Round(l, v, i) = Round(k, v, i)
  <2>1. i \in 1..n /\ t[i] = s[i]
    BY <1>1
  <2> QED BY <1>4, <2>1
<1> HIDE DEF l, k, n
<1>6. a[n + 1] = Round(l, b[n], n + 1)
  BY <1>1, <1>2, <1>3, <1>4, <1>5, LoopGoesOn
<1> QED BY <1>1, <1>2, <1>3, <1>4, <1>6 DEF t

LEMMA NumberOfNothing == Number(<<>>) = 0
<1>1. Len(<<>>) = 0
  OBVIOUS
<1>2. PICK a : IsLoop(a, NumberLoop(<<>>), 0, 0) /\ Number(<<>>) = a[0]
  BY <1>1, NumberLoops
<1>3. a[0] = Start(NumberLoop(<<>>))
  BY <1>2, LoopRounds
<1> QED BY <1>2, <1>3 DEF Start, NumberLoop
-----------------------------------------------------------------------------
(***************************************************************************)
(* Sequences.                                                              *)
(***************************************************************************)
\* A sequence that is not empty has a last element.
LEMMA EndsWith ==
  ASSUME NEW S, NEW s \in Seq(S), Len(s) # 0
  PROVE  \E f \in Seq(S), e \in S : s = Append(f, e) /\ Len(s) = Len(f) + 1
<1>1. s # <<>>
  OBVIOUS
<1>2. PICK f \in Seq(S), e \in S : s = Append(f, e)
  BY <1>1, SequenceEmptyOrAppend
<1>3. Len(Append(f, e)) = Len(f) + 1
  OBVIOUS
<1> QED BY <1>2, <1>3

\* FlattenSeq of sequences is a sequence.
LEMMA FlattenIsSeq ==
  ASSUME NEW S, NEW s \in Seq(Seq(S))
  PROVE  FlattenSeq(s) \in Seq(S)
<1> DEFINE T == {n \in Nat : \E t \in Seq(Seq(S)) : Len(t) = n /\ FlattenSeq(t) \notin Seq(S)}
<1>0. Len(s) \in Nat
  OBVIOUS
<1> SUFFICES ASSUME T # {} PROVE FALSE
  BY <1>0
<1>1. PICK m \in T : \A j \in T : m <= j
  BY LeastNatural
<1>2. PICK t \in Seq(Seq(S)) : Len(t) = m /\ FlattenSeq(t) \notin Seq(S)
  OBVIOUS
<1>3. m # 0
  <2> SUFFICES ASSUME m = 0 PROVE FALSE
    OBVIOUS
  <2>1. FlattenSeq(t) = <<>>
    BY <1>2, FlattenNothing
  <2> QED BY <1>2, <2>1
<1> DEFINE SS == Seq(S)
<1>4. PICK f \in Seq(SS), x \in SS : t = Append(f, x) /\ Len(t) = Len(f) + 1
  <2> HIDE DEF SS
  <2>1. t \in Seq(SS)
    BY <1>2 DEF SS
  <2> QED BY <1>2, <1>3, <2>1, EndsWith
<1>5. Len(f) \in Nat /\ Len(f) < m /\ Len(f) \notin T
  BY <1>1, <1>2, <1>4
<1>6. FlattenSeq(f) \in Seq(S)
  BY <1>4, <1>5
<1>7. FlattenSeq(t) = FlattenSeq(f) \o x
  BY <1>4, FlattenMore
<1> QED BY <1>2, <1>4, <1>6, <1>7
-----------------------------------------------------------------------------
(***************************************************************************)
(* Numbers. What is written in n octets is read back from them.            *)
(***************************************************************************)
\* A quotient and a remainder are all there is to a division.
LEMMA Division ==
  ASSUME NEW x \in Nat, NEW d \in Nat \ {0}
  PROVE  x \div d \in Nat /\ x % d \in 0..(d - 1) /\ x = (x \div d) * d + (x % d)
  OBVIOUS

LEMMA Quotient ==
  ASSUME NEW x \in Nat, NEW d \in Nat \ {0}, NEW q \in Nat, NEW r \in 0..(d - 1), x = q * d + r
  PROVE  x \div d = q /\ x % d = r
  OBVIOUS

\* Shifting twice.
LEMMA DivideTwice ==
  ASSUME NEW x \in Nat, NEW b \in Nat \ {0}, NEW p \in Nat \ {0}
  PROVE  x \div (b * p) = (x \div b) \div p
<1> DEFINE y == x \div b
           r == x % b
           q == y \div p
           s == y % p
<1>1. y \in Nat /\ r \in 0..(b - 1) /\ x = y * b + r
  BY Division
<1> HIDE DEF y, r
<1>2. q \in Nat /\ s \in 0..(p - 1) /\ y = q * p + s
  BY <1>1, Division
<1> HIDE DEF q, s
<1> DEFINE d == b * p
           t == s * b + r
<1>3. d \in Nat \ {0} /\ t \in Nat
  BY <1>1, <1>2
<1>4. x = q * d + t
  <2>1. y * b = (q * p) * b + s * b
    BY <1>1, <1>2
  <2>2. (q * p) * b = q * d
    BY <1>1, <1>2
  <2> QED BY <1>1, <1>2, <1>3, <2>1, <2>2
<1>5. t <= d - 1
  <2>1. s * b <= (p - 1) * b
    BY <1>2
  <2>2. (p - 1) * b = d - b
    OBVIOUS
  <2> QED BY <1>1, <1>2, <2>1, <2>2
<1>6. t \in 0..(d - 1)
  BY <1>3, <1>5
<1> HIDE DEF d, t
<1>7. x \div d = q
  BY <1>2, <1>3, <1>4, <1>6, Quotient
<1> QED BY <1>7 DEF d, q, y

LEMMA ValuesPositive == \A n \in Nat : Values(n) \in Nat \ {0}
<1> DEFINE T == {n \in Nat : Values(n) \notin Nat \ {0}}
<1> SUFFICES ASSUME T # {} PROVE FALSE
  OBVIOUS
<1>1. PICK m \in T : \A j \in T : m <= j
  BY LeastNatural
<1>2. m # 0
  BY ValuesNext
<1>3. m - 1 \in Nat /\ m - 1 \notin T /\ (m - 1) + 1 = m
  BY <1>1, <1>2
<1>4. Values(m) = Base * Values(m - 1) /\ Values(m - 1) \in Nat \ {0}
  BY <1>3, ValuesNext
<1>5. Base * Values(m - 1) \in Nat \ {0}
  BY <1>4, ConfigFacts
<1> QED BY <1>4, <1>5

\* A number of n octets is below what they can hold.
LEMMA NumberFits ==
  ASSUME NEW s \in OctetStrings
  PROVE  Number(s) \in 0..(Values(Len(s)) - 1)
<1> DEFINE T == {n \in Nat : \E t \in OctetStrings : Len(t) = n /\ Number(t) \notin 0..(Values(n) - 1)}
<1>0. Len(s) \in Nat
  BY DEF OctetStrings
<1> SUFFICES ASSUME T # {} PROVE FALSE
  BY <1>0
<1>1. PICK m \in T : \A j \in T : m <= j
  BY LeastNatural
<1>2. PICK t \in OctetStrings : Len(t) = m /\ Number(t) \notin 0..(Values(m) - 1)
  OBVIOUS
<1>3. m # 0
  <2> SUFFICES ASSUME m = 0 PROVE FALSE
    OBVIOUS
  <2>1. t = <<>>
    BY <1>2 DEF OctetStrings
  <2> QED BY <1>2, <2>1, NumberOfNothing, ValuesNext
<1>4. PICK f \in OctetStrings, o \in Octet : t = Append(f, o) /\ Len(t) = Len(f) + 1
  BY <1>2, <1>3, EndsWith DEF OctetStrings
<1>5. Len(f) \in Nat /\ Len(f) = m - 1 /\ Len(f) \notin T /\ m = Len(f) + 1
  BY <1>1, <1>2, <1>4 DEF OctetStrings
<1>6. Number(f) \in 0..(Values(Len(f)) - 1)
  BY <1>5
<1>7. Number(t) = Number(f) * Base + o
  BY <1>4, NumberMore DEF OctetStrings
<1> DEFINE v == Values(Len(f))
           x == Number(f)
<1>8. Values(m) = Base * v /\ v \in Nat \ {0}
  BY <1>5, ValuesNext, ValuesPositive
<1> HIDE DEF v, x
<1>9. x \in 0..(v - 1) /\ o \in 0..(Base - 1)
  BY <1>4, <1>6 DEF v, x, Octet
<1>10. x * Base + o \in 0..(Base * v - 1)
  <2>1. x * Base <= (v - 1) * Base
    BY <1>8, <1>9, ConfigFacts
  <2>2. (v - 1) * Base = Base * v - Base
    BY <1>8, ConfigFacts
  <2>3. x * Base \in Nat /\ Base * v \in Nat
    BY <1>8, <1>9, ConfigFacts
  <2> QED BY <1>9, <2>1, <2>2, <2>3, ConfigFacts
<1> QED BY <1>2, <1>7, <1>8, <1>10 DEF x

LEMMA BigEndianOctets ==
  ASSUME NEW x \in Nat, NEW n \in Nat
  PROVE  BigEndian(x, n) \in OctetStrings /\ Len(BigEndian(x, n)) = n
<1>1. ASSUME NEW i \in 1..n PROVE (x \div Values(n - i)) % Base \in Octet
  <2> DEFINE v == Values(n - i)
  <2>1. v \in Nat \ {0}
    BY ValuesPositive
  <2> HIDE DEF v
  <2>2. x \div v \in Nat
    BY <2>1, Division
  <2> DEFINE y == x \div v
  <2> HIDE DEF y
  <2>3. y % Base \in 0..(Base - 1)
    BY <2>2, Division, ConfigFacts DEF y
  <2> QED BY <2>3 DEF y, v, Octet
<1> QED BY <1>1 DEF BigEndian, OctetStrings

\* The last octet, and those before it.
LEMMA BigEndianNext ==
  ASSUME NEW x \in Nat, NEW n \in Nat
  PROVE  BigEndian(x, n + 1) = Append(BigEndian(x \div Base, n), x % Base)
<1> DEFINE y == x \div Base
           o == x % Base
           s == BigEndian(x, n + 1)
           f == BigEndian(y, n)
           t == Append(f, o)
<1>1. y \in Nat /\ o \in Octet
  BY Division, ConfigFacts DEF Octet
<1>2. f \in OctetStrings /\ Len(f) = n /\ s \in OctetStrings /\ Len(s) = n + 1
  <2> HIDE DEF y
  <2> QED BY <1>1, BigEndianOctets
<1>3. \A i \in 1..n : f[i] = (y \div Values(n - i)) % Base
  BY DEF BigEndian
<1>4. \A i \in 1..(n + 1) : s[i] = (x \div Values((n + 1) - i)) % Base
  BY DEF BigEndian
<1> HIDE DEF o, f, s
<1>5. t \in OctetStrings /\ Len(t) = n + 1 /\ t[n + 1] = o /\ \A i \in 1..n : t[i] = f[i]
  BY <1>1, <1>2, AppendProperties DEF OctetStrings
<1>6. ASSUME NEW i \in 1..(n + 1) PROVE s[i] = t[i]
  <2>1. CASE i = n + 1
    <3>1. (n + 1) - i = 0 /\ Values(0) = 1 /\ x \div 1 = x
      BY <2>1, ValuesNext
    <3> QED BY <1>4, <1>5, <2>1, <3>1 DEF o
  <2>2. CASE i # n + 1
    <3> DEFINE p == Values(n - i)
    <3>1. i \in 1..n /\ n - i \in Nat /\ (n + 1) - i = (n - i) + 1
      BY <2>2
    <3>2. Values((n + 1) - i) = Base * p /\ p \in Nat \ {0}
      BY <3>1, ValuesNext, ValuesPositive
    <3> HIDE DEF p
    <3>3. x \div (Base * p) = y \div p
      BY <3>2, DivideTwice, ConfigFacts DEF y
    <3> HIDE DEF y
    <3>4. s[i] = (x \div (Base * p)) % Base /\ f[i] = (y \div p) % Base
      BY <1>3, <1>4, <3>1, <3>2 DEF p
    <3> QED BY <1>5, <3>1, <3>3, <3>4
  <2> QED BY <2>1, <2>2
<1> HIDE DEF t
<1>7. s = t
  BY <1>2, <1>5, <1>6, SeqEqual DEF OctetStrings
<1> QED BY <1>7 DEF s, t, f, y, o

\* binary.BigEndian: what is put is what is taken, if it fits.
LEMMA NumberOfBigEndian ==
  ASSUME NEW n \in Nat, NEW x \in 0..(Values(n) - 1)
  PROVE  Number(BigEndian(x, n)) = x
<1> DEFINE T == {k \in Nat : \E y \in 0..(Values(k) - 1) : Number(BigEndian(y, k)) # y}
<1> SUFFICES ASSUME T # {} PROVE FALSE
  OBVIOUS
<1>1. PICK m \in T : \A j \in T : m <= j
  BY LeastNatural
<1>2. PICK y \in 0..(Values(m) - 1) : Number(BigEndian(y, m)) # y
  OBVIOUS
<1>20. y \in Nat /\ m \in Nat /\ Values(m) \in Nat
  BY <1>2, ValuesPositive
<1>3. m # 0
  <2> SUFFICES ASSUME m = 0 PROVE FALSE
    OBVIOUS
  <2>1. y = 0
    BY <1>2, ValuesNext
  <2>2. BigEndian(y, 0) = <<>>
    <3>1. BigEndian(y, 0) \in OctetStrings /\ Len(BigEndian(y, 0)) = 0
      BY <1>20, BigEndianOctets
    <3> QED BY <3>1 DEF OctetStrings
  <2> QED BY <1>2, <2>1, <2>2, NumberOfNothing
<1> DEFINE k == m - 1
           z == y \div Base
           o == y % Base
<1>4. k \in Nat /\ k \notin T /\ m = k + 1
  BY <1>1, <1>3
<1>5. z \in Nat /\ o \in Octet /\ y = z * Base + o
  BY <1>20, Division, ConfigFacts DEF Octet
<1> HIDE DEF k
<1>6. BigEndian(y, m) = Append(BigEndian(z, k), o)
  BY <1>4, <1>20, BigEndianNext
<1> HIDE DEF z, o
<1>7. BigEndian(z, k) \in OctetStrings
  BY <1>4, <1>5, BigEndianOctets
<1>8. Number(BigEndian(y, m)) = Number(BigEndian(z, k)) * Base + o
  BY <1>5, <1>6, <1>7, NumberMore DEF OctetStrings
<1>9. z \in 0..(Values(k) - 1)
  <2> DEFINE v == Values(k)
  <2>1. Values(m) = Base * v /\ v \in Nat \ {0}
    BY <1>4, ValuesNext, ValuesPositive
  <2> HIDE DEF v
  <2>2. z * Base <= Base * v - 1
    BY <1>2, <1>5, <1>20, <2>1, ConfigFacts DEF Octet
  <2>3. ~(z >= v)
    <3> SUFFICES ASSUME z >= v PROVE FALSE
      OBVIOUS
    <3>1. z * Base >= v * Base
      BY <1>5, <2>1, ConfigFacts
    <3> QED BY <1>5, <2>1, <2>2, <3>1, ConfigFacts
  <2> QED BY <1>5, <2>1, <2>3 DEF v
<1>10. Number(BigEndian(z, k)) = z
  BY <1>4, <1>9
<1> QED BY <1>2, <1>5, <1>8, <1>10
-----------------------------------------------------------------------------
(***************************************************************************)
(* Places. A frame is what was appended, and each part is found where it   *)
(* was put.                                                                *)
(***************************************************************************)
\* m is in f after its first p octets.
At(f, p, m) == p + Len(m) <= Len(f) /\ \A i \in 1..Len(m) : f[p + i] = m[i]

LEMMA AtIsSubSeq ==
  ASSUME NEW S, NEW f \in Seq(S), NEW m \in Seq(S), NEW p \in Nat, At(f, p, m)
  PROVE  SubSeq(f, p + 1, p + Len(m)) = m
<1> DEFINE t == SubSeq(f, p + 1, p + Len(m))
<1>1. Len(m) \in Nat /\ Len(f) \in Nat /\ p + Len(m) <= Len(f) /\ \A i \in 1..Len(m) : f[p + i] = m[i]
  BY DEF At
<1>2. \A i \in (p + 1)..(p + Len(m)) : f[i] \in S
  BY <1>1
<1>3. /\ t \in Seq(S) /\ Len(t) = IF p + 1 <= p + Len(m) THEN (p + Len(m)) - (p + 1) + 1 ELSE 0
      /\ \A i \in 1..((p + Len(m)) - (p + 1) + 1) : t[i] = f[(p + 1) + i - 1]
  <2>1. p + 1 \in Int /\ p + Len(m) \in Int
    BY <1>1
  <2> QED BY <1>2, <2>1, SubSeqProperties
<1> HIDE DEF t
<1>4. Len(t) = Len(m)
  BY <1>1, <1>3
<1>5. \A i \in 1..Len(t) : t[i] = m[i]
  <2> SUFFICES ASSUME NEW i \in 1..Len(t) PROVE t[i] = m[i]
    OBVIOUS
  <2>1. i \in 1..((p + Len(m)) - (p + 1) + 1) /\ (p + 1) + i - 1 = p + i /\ i \in 1..Len(m)
    BY <1>1, <1>4
  <2> QED BY <1>1, <1>3, <2>1
<1>6. t = m
  BY <1>3, <1>4, <1>5, SeqEqual
<1> QED BY <1>6 DEF t

LEMMA AtConcat ==
  ASSUME NEW S, NEW a \in Seq(S), NEW m \in Seq(S), NEW b \in Seq(S)
  PROVE  At((a \o m) \o b, Len(a), m)
<1>1. a \o m \in Seq(S) /\ Len(a \o m) = Len(a) + Len(m) /\ Len(a) \in Nat /\ Len(m) \in Nat /\ Len(b) \in Nat
      /\ \A i \in 1..(Len(a) + Len(m)) : (a \o m)[i] = IF i <= Len(a) THEN a[i] ELSE m[i - Len(a)]
  BY ConcatProperties
<1> DEFINE c == a \o m
<1> HIDE DEF c
<1>2. Len(c \o b) = Len(c) + Len(b)
      /\ \A i \in 1..(Len(c) + Len(b)) : (c \o b)[i] = IF i <= Len(c) THEN c[i] ELSE b[i - Len(c)]
  BY <1>1, ConcatProperties DEF c
<1>3. ASSUME NEW i \in 1..Len(m) PROVE (c \o b)[Len(a) + i] = m[i]
  <2>1. Len(a) + i \in 1..(Len(a) + Len(m)) /\ Len(a) + i \in 1..(Len(c) + Len(b)) /\ Len(a) + i <= Len(c)
        /\ ~(Len(a) + i <= Len(a)) /\ (Len(a) + i) - Len(a) = i
    BY <1>1 DEF c
  <2> QED BY <1>1, <1>2, <2>1 DEF c
<1>4. Len(a) + Len(m) <= Len(c \o b)
  BY <1>1, <1>2 DEF c
<1> QED BY <1>3, <1>4 DEF At, c

\* A part of what is at a place.
LEMMA AtParts ==
  ASSUME NEW S, NEW f, Len(f) \in Nat, NEW a \in Seq(S), NEW b \in Seq(S), NEW p \in Nat, At(f, p, a \o b)
  PROVE  At(f, p, a) /\ At(f, p + Len(a), b)
<1> DEFINE m == a \o b
<1>1. Len(m) = Len(a) + Len(b) /\ Len(a) \in Nat /\ Len(b) \in Nat
      /\ \A i \in 1..(Len(a) + Len(b)) : m[i] = IF i <= Len(a) THEN a[i] ELSE b[i - Len(a)]
  BY ConcatProperties
<1>2. p + Len(m) <= Len(f) /\ \A i \in 1..Len(m) : f[p + i] = m[i]
  BY DEF At
<1> HIDE DEF m
<1>3. ASSUME NEW i \in 1..Len(a) PROVE f[p + i] = a[i]
  <2>1. i \in 1..Len(m) /\ i <= Len(a)
    BY <1>1
  <2> QED BY <1>1, <1>2, <2>1
<1>4. ASSUME NEW i \in 1..Len(b) PROVE f[(p + Len(a)) + i] = b[i]
  <2>1. Len(a) + i \in 1..Len(m) /\ ~(Len(a) + i <= Len(a)) /\ (Len(a) + i) - Len(a) = i
        /\ (p + Len(a)) + i = p + (Len(a) + i)
    BY <1>1
  <2>2. f[p + (Len(a) + i)] = m[Len(a) + i]
    BY <1>2, <2>1
  <2>3. m[Len(a) + i] = b[i]
    BY <1>1, <2>1
  <2> QED BY <2>1, <2>2, <2>3
<1> QED BY <1>1, <1>2, <1>3, <1>4 DEF At

\* Appending to the end of a concatenation.
LEMMA ConcatAppend ==
  ASSUME NEW V, NEW s \in Seq(V), NEW f \in Seq(V), NEW x \in V
  PROVE  s \o Append(f, x) = Append(s \o f, x) /\ s \o f \in Seq(V)
  OBVIOUS

LEMMA ConcatThree ==
  ASSUME NEW S, NEW p \in Seq(S), NEW q \in Seq(S), NEW x \in Seq(S)
  PROVE  (p \o q) \o x = p \o (q \o x)
  BY ConcatAssociative

\* FlattenSeq of a sequence cut in two.
LEMMA FlattenConcat ==
  ASSUME NEW S, NEW s \in Seq(Seq(S)), NEW t \in Seq(Seq(S))
  PROVE  FlattenSeq(s \o t) = FlattenSeq(s) \o FlattenSeq(t)
<1> DEFINE SS == Seq(S)
           T == {n \in Nat : \E u \in Seq(SS) : Len(u) = n /\ FlattenSeq(s \o u) # FlattenSeq(s) \o FlattenSeq(u)}
<1>0. Len(t) \in Nat /\ s \in Seq(SS) /\ t \in Seq(SS) /\ FlattenSeq(s) \in Seq(S)
  BY FlattenIsSeq
<1> SUFFICES ASSUME T # {} PROVE FALSE
  BY <1>0
<1>1. PICK m \in T : \A j \in T : m <= j
  BY LeastNatural
<1>2. PICK u \in Seq(SS) : Len(u) = m /\ FlattenSeq(s \o u) # FlattenSeq(s) \o FlattenSeq(u)
  OBVIOUS
<1>3. m # 0
  <2> SUFFICES ASSUME m = 0 PROVE FALSE
    OBVIOUS
  <2>1. u = <<>> /\ s \o <<>> = s
    <3> HIDE DEF SS
    <3> QED BY <1>0, <1>2, ConcatEmptySeq
  <2>2. FlattenSeq(<<>>) = <<>>
    <3>1. Len(<<>>) = 0 /\ <<>> \in Seq({})
      OBVIOUS
    <3> QED BY <3>1, FlattenNothing
  <2>3. FlattenSeq(s) \o <<>> = FlattenSeq(s)
    BY <1>0, ConcatEmptySeq
  <2> QED BY <1>2, <2>1, <2>2, <2>3
<1>4. PICK f \in Seq(SS), x \in SS : u = Append(f, x) /\ Len(u) = Len(f) + 1
  <2> HIDE DEF SS
  <2> QED BY <1>2, <1>3, EndsWith
<1>5. Len(f) \in Nat /\ Len(f) < m /\ Len(f) \notin T
  <2> HIDE DEF T, SS
  <2>1. Len(f) \in Nat
    BY <1>4
  <2> QED BY <1>1, <1>2, <1>4, <2>1
<1>6. FlattenSeq(s \o f) = FlattenSeq(s) \o FlattenSeq(f)
  BY <1>4, <1>5
<1>7. s \o u = Append(s \o f, x) /\ s \o f \in Seq(SS)
  <2> HIDE DEF SS, T
  <2> QED BY <1>0, <1>4, ConcatAppend
<1>8. FlattenSeq(s \o u) = FlattenSeq(s \o f) \o x
  BY <1>4, <1>7, FlattenMore
<1>9. FlattenSeq(u) = FlattenSeq(f) \o x /\ FlattenSeq(f) \in Seq(S)
  BY <1>4, FlattenMore, FlattenIsSeq
<1>10. (FlattenSeq(s) \o FlattenSeq(f)) \o x = FlattenSeq(s) \o (FlattenSeq(f) \o x)
  <2>1. x \in Seq(S)
    BY <1>4
  <2> DEFINE p == FlattenSeq(s)
             q == FlattenSeq(f)
  <2>2. p \in Seq(S) /\ q \in Seq(S)
    BY <1>0, <1>9
  <2> HIDE DEF p, q, T, SS
  <2>3. (p \o q) \o x = p \o (q \o x)
    BY <2>1, <2>2, ConcatThree, SMTT(30)
  <2> QED BY <2>3 DEF p, q
<1> QED BY <1>2, <1>6, <1>8, <1>9, <1>10

\* The first n of a sequence of sequences, flattened, and the next after them.
LEMMA FlattenParts ==
  ASSUME NEW S, NEW s \in Seq(Seq(S)), NEW n \in 0..(Len(s) - 1)
  PROVE  /\ FlattenSeq(SubSeq(s, 1, n)) \in Seq(S) /\ SubSeq(s, 1, n + 1) \in Seq(Seq(S))
         /\ FlattenSeq(SubSeq(s, 1, n + 1)) = FlattenSeq(SubSeq(s, 1, n)) \o s[n + 1]
         /\ At(FlattenSeq(s), Len(FlattenSeq(SubSeq(s, 1, n))), s[n + 1])
<1> DEFINE SS == Seq(S)
           a == SubSeq(s, 1, n)
           b == SubSeq(s, n + 2, Len(s))
<1> HIDE DEF SS
<1>1. s \in Seq(SS) /\ Len(s) \in Nat /\ n + 1 \in 1..Len(s) /\ s[n + 1] \in SS /\ (n + 1) + 1 = n + 2 /\ (n + 1) - 1 = n
  BY DEF SS
<1>2. a \in Seq(SS) /\ b \in Seq(SS) /\ SubSeq(s, 1, n + 1) \in Seq(SS)
  <2>1. \A i \in 1..Len(s) : s[i] \in SS
    BY <1>1
  <2> QED BY <1>1, <2>1
<1>3. SubSeq(s, 1, n + 1) = a \o <<s[n + 1]>>
  BY <1>1, SubSeqRecursiveSecond
<1>4. a \o <<s[n + 1]>> = Append(a, s[n + 1])
  <2> HIDE DEF a
  <2> QED BY <1>1, <1>2, AppendIsConcat
<1>5. s = SubSeq(s, 1, n + 1) \o b
  <2>1. 1 \in 1..(Len(s) + 1) /\ n + 1 \in (1 - 1)..Len(s) /\ Len(s) \in (n + 1)..Len(s)
    BY <1>1
  <2>2. SubSeq(s, 1, n + 1) \o SubSeq(s, (n + 1) + 1, Len(s)) = SubSeq(s, 1, Len(s))
    BY <1>1, <2>1, ConcatAdjacentSubSeq
  <2> QED BY <1>1, <2>2, SubSeqFull
<1> HIDE DEF a, b
<1>6. FlattenSeq(SubSeq(s, 1, n + 1)) = FlattenSeq(a) \o s[n + 1]
  BY <1>1, <1>2, <1>3, <1>4, FlattenMore DEF SS
<1>7. FlattenSeq(s) = (FlattenSeq(a) \o s[n + 1]) \o FlattenSeq(b)
  <2>1. FlattenSeq(SubSeq(s, 1, n + 1) \o b) = FlattenSeq(SubSeq(s, 1, n + 1)) \o FlattenSeq(b)
    BY <1>2, FlattenConcat DEF SS
  <2> QED BY <1>5, <1>6, <2>1
<1>8. FlattenSeq(a) \in Seq(S) /\ FlattenSeq(b) \in Seq(S) /\ s[n + 1] \in Seq(S)
  BY <1>1, <1>2, FlattenIsSeq DEF SS
<1>9. At(FlattenSeq(s), Len(FlattenSeq(a)), s[n + 1])
  BY <1>7, <1>8, AtConcat
<1> QED BY <1>2, <1>6, <1>8, <1>9 DEF SS, a

\* The least of a set of numbers.
LEMMA MinIs ==
  ASSUME NEW S, S \subseteq Int, NEW m \in S, \A y \in S : m <= y
  PROVE  Min(S) = m
<1>1. Min(S) \in S /\ \A y \in S : Min(S) <= y
  BY DEF Min
<1>2. Min(S) \in Int /\ m \in Int /\ Min(S) <= m /\ m <= Min(S)
  BY <1>1
<1> HIDE DEF Min
<1> QED BY <1>2

LEMMA MinOfTwo ==
  ASSUME NEW a \in Int, NEW b \in Int
  PROVE  Min({a, b}) = IF a <= b THEN a ELSE b
<1>1. CASE a <= b
  BY <1>1, MinIs
<1>2. CASE ~(a <= b)
  BY <1>2, MinIs
<1> QED BY <1>1, <1>2
-----------------------------------------------------------------------------
(***************************************************************************)
(* Fields. A field that fits is read back from where it was written.       *)
(***************************************************************************)
Half == Word \div 2

\* A reader that has met no error.
Reader(p, out) == [pos |-> p, err |-> "none", out |-> out]

LEMMA ReaderTakes ==
  ASSUME NEW p, NEW out, NEW n, NEW v
  PROVE  /\ Takes(Reader(p, out), n, v) = Reader(p + n, Append(out, v))
         /\ Reader(p, out).pos = p /\ Reader(p, out).err = "none" /\ Reader(p, out).out = out
<1> DEFINE r == [pos |-> p, err |-> "none", out |-> out]
<1>1. r.pos = p /\ r.err = "none" /\ r.out = out
  OBVIOUS
<1>2. ASSUME NEW x, NEW y PROVE [r EXCEPT !.pos = x, !.out = y] = [pos |-> x, err |-> "none", out |-> y]
  <2> DEFINE s == [pos |-> x, err |-> "none", out |-> out]
  <2>1. [r EXCEPT !.pos = x, !.out = y] = [[r EXCEPT !.pos = x] EXCEPT !.out = y]
    OBVIOUS
  <2>2. [r EXCEPT !.pos = x] = s
    OBVIOUS
  <2>3. [s EXCEPT !.out = y] = [pos |-> x, err |-> "none", out |-> y]
    OBVIOUS
  <2> HIDE DEF r, s
  <2> QED BY <2>1, <2>2, <2>3
<1>3. Takes(r, n, v) = [pos |-> p + n, err |-> "none", out |-> Append(out, v)]
  BY <1>1, <1>2 DEF Takes
<1> QED BY <1>1, <1>3 DEF Reader

LEMMA ReaderResets ==
  ASSUME NEW p, NEW out, NEW v
  PROVE  [Reader(p, out) EXCEPT !.out = v] = Reader(p, v)
  BY DEF Reader

\* cOctetString: the first null is the terminator.
LEMMA StringReadBack ==
  ASSUME NEW f \in OctetStrings, NEW p \in Nat, NEW out, NEW v, Fits("string", v), At(f, p, Marshal("string", v))
  PROVE  /\ Marshal("string", v) \in OctetStrings /\ Len(Marshal("string", v)) = Len(v) + 1
         /\ ReadCOctetString(f, Reader(p, out)) = Reader(p + Len(Marshal("string", v)), Append(out, v))
<1> DEFINE m == v \o <<0>>
           r == Reader(p, out)
<1>1. Marshal("string", v) = m
  BY DEF Marshal
<1>2. v \in Seq(1..(Base - 1)) /\ Len(v) < maxCOctetLen /\ Len(v) \in Nat /\ \A i \in 1..Len(v) : v[i] # 0 /\ v[i] \in Octet
  BY ConfigFacts DEF Fits, Octet
<1>3. v \in OctetStrings /\ <<0>> \in OctetStrings
  <2>1. 0 \in Octet
    BY ConfigFacts DEF Octet
  <2>2. 1..(Base - 1) \subseteq Octet
    BY ConfigFacts DEF Octet
  <2> QED BY <1>2, <2>1, <2>2, SeqMonotonic DEF OctetStrings
<1>4. m \in OctetStrings /\ Len(m) = Len(v) + 1 /\ m[Len(v) + 1] = 0 /\ \A i \in 1..Len(v) : m[i] = v[i]
  BY <1>3 DEF OctetStrings
<1> HIDE DEF m
<1>5. p + (Len(v) + 1) <= Len(f) /\ Len(f) \in Nat /\ \A i \in 1..(Len(v) + 1) : f[p + i] = m[i]
  BY <1>1, <1>4 DEF At, OctetStrings
<1> DEFINE top == Min({Len(f), p + maxCOctetLen})
           ends == {i \in (p + 1)..top : f[i] = 0}
           e == p + (Len(v) + 1)
<1>6. top \in Int /\ e <= top /\ e \in Nat
  <2>1. maxCOctetLen \in Nat /\ p + maxCOctetLen \in Int
    BY CodecConfig
  <2>2. top = IF Len(f) <= p + maxCOctetLen THEN Len(f) ELSE p + maxCOctetLen
    BY <1>5, <2>1, MinOfTwo
  <2> QED BY <1>2, <1>5, <2>1, <2>2
<1> HIDE DEF top
<1>7. e \in ends
  <2>1. e \in (p + 1)..top
    BY <1>2, <1>6
  <2>2. f[e] = 0
    BY <1>2, <1>4, <1>5
  <2> QED BY <2>1, <2>2
<1>8. ASSUME NEW y \in ends PROVE e <= y
  <2> SUFFICES ASSUME y < e PROVE FALSE
    BY <1>6
  <2>1. y - p \in 1..Len(v) /\ p + (y - p) = y /\ y - p \in 1..(Len(v) + 1)
    BY <1>2, <1>6
  <2>2. f[y] = v[y - p]
    BY <1>4, <1>5, <2>1
  <2> QED BY <1>2, <2>1, <2>2
<1>9. ends \subseteq Int
  BY <1>6
<1>10. Min(ends) = e
  <2> HIDE DEF ends, e
  <2> QED BY <1>7, <1>8, <1>9, MinIs
<1>11. ends # {} /\ e - p = Len(m) /\ e - 1 = p + Len(v)
  BY <1>2, <1>4, <1>7
<1>12. SubSeq(f, p + 1, p + Len(v)) = v
  <2>1. At(f, p, v)
    BY <1>2, <1>4, <1>5 DEF At
  <2> QED BY <1>3, <2>1, AtIsSubSeq DEF OctetStrings
<1>13. ReadCOctetString(f, r) = Takes(r, Min(ends) - p, SubSeq(f, p + 1, Min(ends) - 1))
  <2>1. r.pos = p
    BY ReaderTakes
  <2> QED BY <1>11, <2>1 DEF ReadCOctetString, top
<1>14. Takes(r, Min(ends) - p, SubSeq(f, p + 1, Min(ends) - 1)) = Takes(r, Len(m), v)
  BY <1>10, <1>11, <1>12
<1> QED BY <1>1, <1>4, <1>13, <1>14, ReaderTakes

\* reader.byte
LEMMA ByteReadBack ==
  ASSUME NEW f \in OctetStrings, NEW p \in Nat, NEW out, NEW v, Fits("octet", v), At(f, p, Marshal("octet", v))
  PROVE  /\ Marshal("octet", v) \in OctetStrings /\ Len(Marshal("octet", v)) = 1
         /\ ReadByte(f, Reader(p, out)) = Reader(p + Len(Marshal("octet", v)), Append(out, v))
<1>1. Marshal("octet", v) = <<v>> /\ v \in Octet
  BY DEF Marshal, Fits
<1>2. <<v>> \in OctetStrings /\ Len(<<v>>) = 1 /\ <<v>>[1] = v
  BY <1>1 DEF OctetStrings
<1>3. Len(f) - p >= 1 /\ f[p + 1] = v
  BY <1>1, <1>2 DEF At, OctetStrings
<1>4. ReadByte(f, Reader(p, out)) = Takes(Reader(p, out), 1, v)
  <2>1. Len(f) \in Nat
    BY DEF OctetStrings
  <2> QED BY <1>3, <2>1, ReaderTakes DEF ReadByte, Rest
<1>5. Takes(Reader(p, out), 1, v) = Reader(p + 1, Append(out, v))
  BY ReaderTakes
<1>6. Marshal("octet", v) \in OctetStrings /\ Len(Marshal("octet", v)) = 1
  BY <1>1, <1>2
<1> QED BY <1>4, <1>5, <1>6

\* sm_length and short_message
LEMMA MessageReadBack ==
  ASSUME NEW f \in OctetStrings, NEW p \in Nat, NEW out, NEW v, Fits("message", v), At(f, p, Marshal("message", v))
  PROVE  /\ Marshal("message", v) \in OctetStrings /\ Len(Marshal("message", v)) = Len(v) + 1
         /\ ReadShortMessage(f, Reader(p, out)) = Reader(p + Len(Marshal("message", v)), Append(out, v))
<1> DEFINE h == <<Len(v)>>
           m == h \o v
<1>1. v \in OctetStrings /\ Len(v) \in Nat /\ Len(v) <= maxShortMessageLen /\ maxShortMessageLen = Base - 2
  BY DEF Fits, OctetStrings, maxShortMessageLen
<1>2. Marshal("message", v) = m
  <2>1. Min({Len(v), maxShortMessageLen}) = Len(v)
    BY <1>1, MinOfTwo, ConfigFacts
  <2>2. SubSeq(v, 1, Len(v)) = v
    BY <1>1, SubSeqFull DEF OctetStrings
  <2> QED BY <2>1, <2>2 DEF Marshal
<1>3. h \in OctetStrings /\ Len(h) = 1 /\ h[1] = Len(v)
  <2>1. Len(v) \in Octet
    BY <1>1, ConfigFacts DEF Octet
  <2> QED BY <2>1 DEF OctetStrings
<1> HIDE DEF h
<1>4. m \in OctetStrings /\ Len(m) = Len(v) + 1
  <2>1. h \o v \in OctetStrings /\ Len(h \o v) = Len(h) + Len(v)
    BY <1>1, <1>3, ConcatProperties DEF OctetStrings
  <2>2. Len(h) + Len(v) = Len(v) + 1
    BY <1>1, <1>3
  <2> QED BY <2>1, <2>2
<1>5. At(f, p, h) /\ At(f, p + Len(h), v)
  <2>1. At(f, p, h \o v)
    BY <1>2
  <2>2. Len(f) \in Nat
    BY DEF OctetStrings
  <2> QED BY <1>1, <1>3, <2>1, <2>2, AtParts DEF OctetStrings
<1>6. f[p + 1] = Len(v) /\ p + 1 + Len(v) <= Len(f) /\ Len(f) \in Nat
  BY <1>1, <1>3, <1>5 DEF At, OctetStrings
<1>7. SubSeq(f, p + 2, p + 1 + Len(v)) = v
  <2>1. (p + 1) + 1 = p + 2 /\ (p + 1) + Len(v) = p + 1 + Len(v) /\ p + 1 \in Nat
    BY <1>1
  <2>2. SubSeq(f, (p + 1) + 1, (p + 1) + Len(v)) = v
    BY <1>1, <1>3, <1>5, <2>1, AtIsSubSeq DEF OctetStrings
  <2> QED BY <2>1, <2>2
<1>8. ReadShortMessage(f, Reader(p, out)) = Takes(Reader(p, out), 1 + Len(v), v)
  <2>1. ~(Len(f) - p < 1) /\ ~(Len(v) > maxShortMessageLen) /\ ~(Len(f) - p < 1 + Len(v))
    BY <1>1, <1>6, ConfigFacts
  <2> QED BY <1>6, <1>7, <2>1, ReaderTakes DEF ReadShortMessage, Rest
<1>9. 1 + Len(v) = Len(m)
  BY <1>1, <1>4
<1>10. Takes(Reader(p, out), 1 + Len(v), v) = Reader(p + (1 + Len(v)), Append(out, v))
  BY ReaderTakes
<1> HIDE DEF m
<1>11. p + (1 + Len(v)) = p + Len(m)
  BY <1>9
<1> QED BY <1>2, <1>4, <1>8, <1>10, <1>11

\* The optional parameters.
Parameters == {x \in [tag : 0..(Values(Half) - 1), value : OctetStrings] : Len(x.value) < Values(Half)}
MarshalTLV(x) == BigEndian(x.tag, Half) \o BigEndian(Len(x.value), Half) \o x.value
MarshalTLVs(v) == [i \in DOMAIN v |-> MarshalTLV(v[i])]

LEMMA HalfWord == Half \in Nat /\ Word = Half + Half /\ Half >= 1 /\ Values(Half) \in Nat \ {0}
<1>1. Half \in Nat /\ Word = Half + Half
  BY CodecConfig DEF Half
<1> QED BY <1>1, ConfigFacts, ValuesPositive

LEMMA ParameterFacts ==
  ASSUME NEW x \in Parameters
  PROVE  /\ x.tag \in 0..(Values(Half) - 1) /\ x.value \in OctetStrings /\ x = [tag |-> x.tag, value |-> x.value]
         /\ Len(x.value) \in 0..(Values(Half) - 1) /\ x.tag \in Nat /\ Len(x.value) \in Nat
         /\ MarshalTLV(x) \in OctetStrings /\ Len(MarshalTLV(x)) = Word + Len(x.value)
<1>1. x.tag \in 0..(Values(Half) - 1) /\ x.value \in OctetStrings /\ x = [tag |-> x.tag, value |-> x.value]
      /\ Len(x.value) < Values(Half)
  BY DEF Parameters
<1>2. Len(x.value) \in Nat
  BY <1>1 DEF OctetStrings
<1>3. Len(x.value) \in 0..(Values(Half) - 1) /\ x.tag \in Nat
  BY <1>1, <1>2, HalfWord
<1> DEFINE a == BigEndian(x.tag, Half)
           b == BigEndian(Len(x.value), Half)
           c == x.value
<1>4. a \in OctetStrings /\ Len(a) = Half /\ b \in OctetStrings /\ Len(b) = Half
  BY <1>2, <1>3, HalfWord, BigEndianOctets
<1>5. MarshalTLV(x) = (a \o b) \o c
  BY DEF MarshalTLV
<1> HIDE DEF a, b, c
<1>6. c \in OctetStrings /\ Len(c) \in Nat /\ c = x.value
  BY <1>1, <1>2 DEF c
<1>7. (a \o b) \o c \in OctetStrings /\ Len((a \o b) \o c) = (Len(a) + Len(b)) + Len(c)
  <2> DEFINE d == a \o b
  <2>1. d \in OctetStrings /\ Len(d) = Len(a) + Len(b)
    BY <1>4 DEF OctetStrings
  <2> HIDE DEF d
  <2>2. d \o c \in OctetStrings /\ Len(d \o c) = Len(d) + Len(c)
    BY <1>6, <2>1, ConcatProperties DEF OctetStrings
  <2> QED BY <2>1, <2>2 DEF d
<1>8. Len(MarshalTLV(x)) = Word + Len(x.value)
  BY <1>4, <1>5, <1>6, <1>7, HalfWord
<1> QED BY <1>1, <1>2, <1>3, <1>5, <1>7, <1>8

LEMMA FitsParameters ==
  ASSUME NEW v
  PROVE  Fits("tlvs", v) <=> v \in Seq(Parameters) /\ Len(v) <= maxTLVs
<1> DEFINE R == [tag : 0..(Values(Half) - 1), value : Seq(Octet)]
<1>1. Fits("tlvs", v) <=> /\ v \in Seq(R) /\ Len(v) <= maxTLVs
                          /\ \A i \in DOMAIN v : Len(v[i].value) < Values(Half)
  BY DEF Fits, Half
<1>2. \A x : x \in Parameters <=> x \in R /\ Len(x.value) < Values(Half)
  BY DEF Parameters, OctetStrings
<1> HIDE DEF R
<1>3. ASSUME v \in Seq(R), \A i \in DOMAIN v : Len(v[i].value) < Values(Half) PROVE v \in Seq(Parameters)
  <2>1. Len(v) \in Nat /\ DOMAIN v = 1..Len(v) /\ v \in [1..Len(v) -> R]
    BY <1>3
  <2>2. \A i \in 1..Len(v) : v[i] \in Parameters
    BY <1>2, <1>3, <2>1
  <2>3. v \in [1..Len(v) -> Parameters]
    BY <2>1, <2>2
  <2> QED BY <2>1, <2>3
<1>4. ASSUME v \in Seq(Parameters) PROVE v \in Seq(R) /\ \A i \in DOMAIN v : Len(v[i].value) < Values(Half)
  <2>1. Parameters \subseteq R
    BY <1>2
  <2>2. v \in Seq(R)
    BY <1>4, <2>1, SeqMonotonic
  <2>3. DOMAIN v = 1..Len(v) /\ \A i \in 1..Len(v) : v[i] \in Parameters
    BY <1>4
  <2> QED BY <1>2, <2>2, <2>3
<1> QED BY <1>1, <1>3, <1>4

LEMMA MarshalTLVsAre ==
  ASSUME NEW v \in Seq(Parameters)
  PROVE  /\ Marshal("tlvs", v) = FlattenSeq(MarshalTLVs(v))
         /\ MarshalTLVs(v) \in Seq(OctetStrings) /\ Len(MarshalTLVs(v)) = Len(v) /\ Len(v) \in Nat
         /\ \A i \in 1..Len(v) : MarshalTLVs(v)[i] = MarshalTLV(v[i]) /\ v[i] \in Parameters
         /\ FlattenSeq(MarshalTLVs(v)) \in OctetStrings
<1>1. Marshal("tlvs", v) = FlattenSeq(MarshalTLVs(v))
  BY DEF Marshal, MarshalTLVs, MarshalTLV, Half
<1>2. DOMAIN v = 1..Len(v) /\ Len(v) \in Nat /\ \A i \in 1..Len(v) : v[i] \in Parameters
  OBVIOUS
<1>3. MarshalTLVs(v) = [i \in 1..Len(v) |-> MarshalTLV(v[i])]
  BY <1>2 DEF MarshalTLVs
<1>4. \A i \in 1..Len(v) : MarshalTLV(v[i]) \in OctetStrings
  BY <1>2, ParameterFacts
<1>5. MarshalTLVs(v) \in Seq(OctetStrings) /\ Len(MarshalTLVs(v)) = Len(v)
  BY <1>2, <1>3, <1>4
<1>6. FlattenSeq(MarshalTLVs(v)) \in OctetStrings
  BY <1>5, FlattenIsSeq DEF OctetStrings
<1> QED BY <1>1, <1>2, <1>3, <1>5, <1>6

\* At a place within a place.
LEMMA AtWithin ==
  ASSUME NEW f, Len(f) \in Nat, NEW p \in Nat, NEW m, Len(m) \in Nat, NEW q \in Nat, NEW x, Len(x) \in Nat,
         At(f, p, m), At(m, q, x)
  PROVE  At(f, p + q, x)
<1>1. (p + q) + Len(x) <= Len(f)
  BY DEF At
<1>2. ASSUME NEW i \in 1..Len(x) PROVE f[(p + q) + i] = x[i]
  <2>1. q + i \in 1..Len(m) /\ (p + q) + i = p + (q + i)
    BY DEF At
  <2>2. f[p + (q + i)] = m[q + i] /\ m[q + i] = x[i]
    BY <2>1 DEF At
  <2> QED BY <2>1, <2>2
<1> QED BY <1>1, <1>2 DEF At

\* One turn of reader.tlvs reads one parameter.
LEMMA TLVReadBack ==
  ASSUME NEW f \in OctetStrings, NEW p \in Nat, NEW out, NEW x \in Parameters, At(f, p, MarshalTLV(x)),
         Len(out) # maxTLVs
  PROVE  ReadTLV(f, Reader(p, out)) = Reader(p + Len(MarshalTLV(x)), Append(out, x))
<1> DEFINE a == BigEndian(x.tag, Half)
           b == BigEndian(Len(x.value), Half)
           c == x.value
           n == Len(x.value)
           r == Reader(p, out)
<1>1. /\ x.tag \in 0..(Values(Half) - 1) /\ c \in OctetStrings /\ x = [tag |-> x.tag, value |-> c]
      /\ n \in 0..(Values(Half) - 1) /\ x.tag \in Nat /\ n \in Nat /\ Len(MarshalTLV(x)) = Word + n
  BY ParameterFacts
<1>2. a \in OctetStrings /\ Len(a) = Half /\ b \in OctetStrings /\ Len(b) = Half
  BY <1>1, HalfWord, BigEndianOctets
<1>3. Number(a) = x.tag /\ Number(b) = n
  BY <1>1, HalfWord, NumberOfBigEndian
<1>4. MarshalTLV(x) = (a \o b) \o c /\ Len(c) = n
  BY DEF MarshalTLV
<1>40. Len(f) \in Nat
  BY DEF OctetStrings
<1> HIDE DEF a, b, c, n
<1>5. a \o b \in OctetStrings /\ Len(a \o b) = Half + Half
  BY <1>2 DEF OctetStrings
<1>6. At(f, p, a \o b) /\ At(f, p + Word, c)
  <2>1. At(f, p, (a \o b) \o c)
    BY <1>4
  <2>2. At(f, p, a \o b) /\ At(f, p + Len(a \o b), c)
    BY <1>1, <1>5, <1>40, <2>1, AtParts DEF OctetStrings
  <2> QED BY <1>5, <2>2, HalfWord
<1>7. At(f, p, a) /\ At(f, p + Half, b)
  <2>1. At(f, p, a) /\ At(f, p + Len(a), b)
    BY <1>2, <1>6, <1>40, AtParts DEF OctetStrings
  <2> QED BY <1>2, <2>1
<1>8. SubSeq(f, p + 1, p + Half) = a
  BY <1>2, <1>7, AtIsSubSeq DEF OctetStrings
<1>9. SubSeq(f, p + Half + 1, p + Word) = b
  <2>1. p + Half \in Nat /\ (p + Half) + Half = p + Word
    BY HalfWord
  <2>2. SubSeq(f, (p + Half) + 1, (p + Half) + Len(b)) = b
    BY <1>2, <1>7, <2>1, AtIsSubSeq DEF OctetStrings
  <2> QED BY <1>2, <2>1, <2>2
<1>10. SubSeq(f, p + Word + 1, p + Word + n) = c
  <2>1. p + Word \in Nat
    BY HalfWord
  <2>2. SubSeq(f, (p + Word) + 1, (p + Word) + Len(c)) = c
    BY <1>1, <1>6, <2>1, AtIsSubSeq DEF OctetStrings
  <2> QED BY <1>4, <2>2
<1>11. Len(f) - p >= Word + n
  BY <1>1, <1>4, <1>6, <1>40, HalfWord DEF At
<1>12. ~(Len(f) - p = 0) /\ ~(Len(f) - p < Word) /\ ~(Len(f) - p < Word + n)
  BY <1>1, <1>11, <1>40, HalfWord
<1>13. r.pos = p /\ r.err = "none" /\ r.out = out
  BY ReaderTakes
<1> HIDE DEF r
<1>14. Octets(f, r, Half) = a /\ Rest(f, r) = Len(f) - p
  BY <1>8, <1>13 DEF Octets, Rest
<1>15. ReadTLV(f, r) = Takes(r, Word + n, [tag |-> x.tag, value |-> c])
  <2>1. Number(SubSeq(f, r.pos + Half + 1, r.pos + Word)) = n
    BY <1>3, <1>9, <1>13
  <2>2. [tag |-> Number(Octets(f, r, Half)), value |-> SubSeq(f, r.pos + Word + 1, r.pos + Word + n)]
        = [tag |-> x.tag, value |-> c]
    BY <1>3, <1>10, <1>13, <1>14
  <2>3. ReadTLV(f, r) = Takes(r, Word + n, [tag |-> Number(Octets(f, r, Half)),
                                            value |-> SubSeq(f, r.pos + Word + 1, r.pos + Word + n)])
    BY <1>12, <1>13, <1>14, <2>1 DEF ReadTLV, Half
  <2> QED BY <2>2, <2>3
<1>16. Takes(r, Word + n, x) = Reader(p + (Word + n), Append(out, x))
  BY ReaderTakes DEF r
<1> QED BY <1>1, <1>15, <1>16 DEF r

\* After k turns the first k parameters are read.
LEMMA TurnsReadBack ==
  ASSUME NEW f \in OctetStrings, NEW p \in Nat, NEW out, NEW v \in Seq(Parameters), Len(v) <= maxTLVs,
         At(f, p, Marshal("tlvs", v)), NEW n \in 0..Len(v)
  PROVE  TLVTurns(f, Reader(p, out), n)
           = Reader(p + Len(FlattenSeq(SubSeq(MarshalTLVs(v), 1, n))), SubSeq(v, 1, n))
<1> DEFINE ms == MarshalTLVs(v)
           m == FlattenSeq(ms)
           Upto(k) == Len(FlattenSeq(SubSeq(ms, 1, k)))
           r == Reader(p, out)
           T == {k \in 0..Len(v) : TLVTurns(f, r, k) # Reader(p + Upto(k), SubSeq(v, 1, k))}
<1>0. /\ Marshal("tlvs", v) = m /\ ms \in Seq(OctetStrings) /\ Len(ms) = Len(v) /\ Len(v) \in Nat /\ m \in OctetStrings
      /\ \A i \in 1..Len(v) : ms[i] = MarshalTLV(v[i]) /\ v[i] \in Parameters
  BY MarshalTLVsAre
<1>00. Len(f) \in Nat /\ Len(m) \in Nat /\ maxTLVs \in Nat /\ At(f, p, m)
  BY <1>0, CodecConfig DEF OctetStrings
<1> HIDE DEF ms, m, r
<1> SUFFICES ASSUME T # {} PROVE FALSE
  BY DEF ms, r
<1>1. T \subseteq Nat
  BY <1>0
<1>2. PICK k \in T : \A j \in T : k <= j
  BY <1>1, LeastNatural
<1>3. k \in 0..Len(v) /\ TLVTurns(f, r, k) # Reader(p + Upto(k), SubSeq(v, 1, k))
  OBVIOUS
<1>4. k # 0
  <2> SUFFICES ASSUME k = 0 PROVE FALSE
    OBVIOUS
  <2>1. TLVTurns(f, r, 0) = Reader(p, <<>>)
    <3>1. TLVTurns(f, r, 0) = [r EXCEPT !.out = <<>>]
      BY NoTurn
    <3>2. [r EXCEPT !.out = <<>>] = Reader(p, <<>>)
      BY ReaderResets DEF r
    <3> QED BY <3>1, <3>2
  <2>2. SubSeq(ms, 1, 0) = <<>> /\ SubSeq(v, 1, 0) = <<>>
    BY SubSeqEmpty
  <2>3. FlattenSeq(<<>>) = <<>> /\ Len(<<>>) = 0
    <3>1. Len(<<>>) = 0 /\ <<>> \in Seq({})
      OBVIOUS
    <3> QED BY <3>1, FlattenNothing
  <2>4. p + 0 = p
    OBVIOUS
  <2> QED BY <1>3, <2>1, <2>2, <2>3, <2>4
<1> DEFINE i == k - 1
           x == v[k]
<1>5. i \in Nat /\ k = i + 1 /\ i \in 0..(Len(v) - 1) /\ i \in 0..(Len(ms) - 1) /\ i \notin T /\ k \in 1..Len(v)
  BY <1>0, <1>2, <1>3, <1>4
<1>6. TLVTurns(f, r, i) = Reader(p + Upto(i), SubSeq(v, 1, i))
  BY <1>0, <1>5
<1> HIDE DEF i, T
<1>7. x \in Parameters /\ ms[k] = MarshalTLV(x)
  BY <1>0, <1>5
<1>8. /\ FlattenSeq(SubSeq(ms, 1, i)) \in OctetStrings
      /\ FlattenSeq(SubSeq(ms, 1, i + 1)) = FlattenSeq(SubSeq(ms, 1, i)) \o ms[i + 1]
      /\ At(m, Len(FlattenSeq(SubSeq(ms, 1, i))), ms[i + 1])
  BY <1>0, <1>5, FlattenParts DEF OctetStrings, m
<1>9. Upto(i) \in Nat /\ MarshalTLV(x) \in OctetStrings /\ Len(MarshalTLV(x)) \in Nat
      /\ Upto(k) = Upto(i) + Len(MarshalTLV(x)) /\ At(m, Upto(i), MarshalTLV(x))
  <2> DEFINE a == FlattenSeq(SubSeq(ms, 1, i))
             b == MarshalTLV(x)
  <2>1. b \in OctetStrings
    BY <1>7, ParameterFacts
  <2> HIDE DEF a, b
  <2>2. a \in OctetStrings /\ FlattenSeq(SubSeq(ms, 1, k)) = a \o b /\ At(m, Len(a), b)
    BY <1>5, <1>7, <1>8 DEF a, b
  <2>3. Len(a \o b) = Len(a) + Len(b) /\ Len(a) \in Nat /\ Len(b) \in Nat
    BY <2>1, <2>2 DEF OctetStrings
  <2> QED BY <2>1, <2>2, <2>3 DEF a, b
<1> HIDE DEF x, Upto
<1>10. At(f, p + Upto(i), MarshalTLV(x)) /\ p + Upto(i) \in Nat
  BY <1>00, <1>9, AtWithin
<1>11. SubSeq(v, 1, i) \in Seq(Parameters) /\ Len(SubSeq(v, 1, i)) = i /\ Append(SubSeq(v, 1, i), x) = SubSeq(v, 1, k)
  <2>1. SubSeq(v, 1, i) \in Seq(Parameters) /\ Len(SubSeq(v, 1, i)) = i
    <3>1. \A j \in 1..i : v[j] \in Parameters
      BY <1>0, <1>5
    <3> QED BY <1>5, <3>1
  <2>2. SubSeq(v, 1, k) = SubSeq(v, 1, k - 1) \o <<v[k]>>
    BY <1>5, SubSeqRecursiveSecond
  <2>3. Append(SubSeq(v, 1, i), x) = SubSeq(v, 1, i) \o <<x>>
    BY <1>7, <2>1, AppendIsConcat
  <2> QED BY <2>1, <2>2, <2>3 DEF x, i
<1>12. Len(SubSeq(v, 1, i)) # maxTLVs
  BY <1>00, <1>0, <1>5, <1>11
<1>13. ReadTLV(f, Reader(p + Upto(i), SubSeq(v, 1, i)))
         = Reader((p + Upto(i)) + Len(MarshalTLV(x)), Append(SubSeq(v, 1, i), x))
  <2> DEFINE q == p + Upto(i)
             o == SubSeq(v, 1, i)
  <2>1. q \in Nat /\ At(f, q, MarshalTLV(x)) /\ Len(o) # maxTLVs
    BY <1>10, <1>12
  <2> HIDE DEF q, o
  <2>2. ReadTLV(f, Reader(q, o)) = Reader(q + Len(MarshalTLV(x)), Append(o, x))
    BY <1>7, <2>1, TLVReadBack
  <2> QED BY <2>2 DEF q, o
<1>14. (p + Upto(i)) + Len(MarshalTLV(x)) = p + Upto(k)
  <2> DEFINE ui == Upto(i)
             uk == Upto(k)
             l == Len(MarshalTLV(x))
  <2>1. ui \in Nat /\ l \in Nat /\ uk = ui + l
    BY <1>9
  <2> HIDE DEF ui, uk, l
  <2>2. (p + ui) + l = p + uk
    BY <2>1
  <2> QED BY <2>2 DEF ui, uk, l
<1>15. TLVTurns(f, r, k) = ReadTLV(f, TLVTurns(f, r, i))
  BY <1>5, NextTurn
<1>16. TLVTurns(f, r, k) = Reader(p + Upto(k), SubSeq(v, 1, k))
  BY <1>6, <1>11, <1>13, <1>14, <1>15
<1> QED BY <1>3, <1>16

\* reader.tlvs: parameters that fill the rest of a frame.
LEMMA TLVsReadBack ==
  ASSUME NEW f \in OctetStrings, NEW p \in Nat, NEW out, NEW v, Fits("tlvs", v),
         At(f, p, Marshal("tlvs", v)), p + Len(Marshal("tlvs", v)) = Len(f)
  PROVE  /\ Marshal("tlvs", v) \in OctetStrings
         /\ ReadTLVs(f, Reader(p, out)) = Reader(p + Len(Marshal("tlvs", v)), Append(out, v))
<1> DEFINE r == Reader(p, out)
           m == Marshal("tlvs", v)
           done == Reader(Len(f), v)
           T == {k \in Nat : k >= Len(v) /\ TLVTurns(f, r, k) # done}
<1>1. v \in Seq(Parameters) /\ Len(v) <= maxTLVs /\ Len(v) \in Nat /\ maxTLVs \in Nat
  BY FitsParameters, CodecConfig
<1>2. m = FlattenSeq(MarshalTLVs(v)) /\ m \in OctetStrings /\ MarshalTLVs(v) \in Seq(OctetStrings)
      /\ Len(MarshalTLVs(v)) = Len(v)
  BY <1>1, MarshalTLVsAre
<1>3. TLVTurns(f, r, Len(v)) = done
  <2>1. Len(v) \in 0..Len(v)
    BY <1>1
  <2>2. SubSeq(v, 1, Len(v)) = v /\ SubSeq(MarshalTLVs(v), 1, Len(v)) = MarshalTLVs(v)
    BY <1>1, <1>2, SubSeqFull
  <2>3. TLVTurns(f, Reader(p, out), Len(v))
          = Reader(p + Len(FlattenSeq(SubSeq(MarshalTLVs(v), 1, Len(v)))), SubSeq(v, 1, Len(v)))
    BY <1>1, <2>1, TurnsReadBack
  <2> QED BY <1>2, <2>2, <2>3
<1>4. ReadTLV(f, done) = done
  <2>1. done.pos = Len(f) /\ done.err = "none"
    BY ReaderTakes
  <2> HIDE DEF done
  <2>2. Rest(f, done) = 0
    BY <2>1 DEF Rest, OctetStrings
  <2> QED BY <2>2 DEF ReadTLV
<1> HIDE DEF r, done, m
<1>5. T = {}
  <2> SUFFICES ASSUME T # {} PROVE FALSE
    OBVIOUS
  <2>1. PICK k \in T : \A j \in T : k <= j
    BY LeastNatural
  <2>2. k \in Nat /\ k >= Len(v) /\ TLVTurns(f, r, k) # done
    OBVIOUS
  <2>3. k # Len(v)
    BY <1>3, <2>2
  <2>4. k - 1 \in Nat /\ k - 1 >= Len(v) /\ k - 1 \notin T /\ (k - 1) + 1 = k
    BY <1>1, <2>1, <2>2, <2>3
  <2>5. TLVTurns(f, r, k - 1) = done
    BY <2>4
  <2>6. TLVTurns(f, r, k) = ReadTLV(f, TLVTurns(f, r, k - 1))
    <3> DEFINE j == k - 1
    <3>1. j \in Nat /\ k = j + 1
      BY <2>4
    <3> HIDE DEF j, T
    <3>2. TLVTurns(f, r, j + 1) = ReadTLV(f, TLVTurns(f, r, j))
      BY <3>1, NextTurn
    <3> QED BY <3>1, <3>2 DEF j
  <2> QED BY <1>4, <2>2, <2>5, <2>6
<1>6. TLVTurns(f, r, maxTLVs + 1) = done
  BY <1>1, <1>5
<1>7. r.pos = p /\ done.err = "none" /\ done.pos = Len(f) /\ done.out = v
  BY ReaderTakes DEF r, done
<1>8. ReadTLVs(f, r) = Takes(r, Len(f) - p, v)
  BY <1>6, <1>7 DEF ReadTLVs
<1>9. Len(f) - p = Len(m)
  BY <1>2 DEF m, OctetStrings
<1>10. Takes(r, Len(m), v) = Reader(p + Len(m), Append(out, v))
  BY ReaderTakes DEF r
<1> QED BY <1>2, <1>8, <1>9, <1>10 DEF r, m

Kinds == {"string", "octet", "message", "tlvs"}

\* What a field that fits becomes on the wire.
LEMMA MarshalIsOctets ==
  ASSUME NEW kind \in Kinds, NEW v, Fits(kind, v)
  PROVE  Marshal(kind, v) \in OctetStrings
<1>1. CASE kind = "string"
  <2>1. v \in Seq(1..(Base - 1)) /\ 1..(Base - 1) \subseteq Octet /\ 0 \in Octet
    BY <1>1, ConfigFacts DEF Fits, Octet
  <2>2. v \in Seq(Octet)
    BY <2>1, SeqMonotonic
  <2>20. <<0>> \in Seq(Octet)
    BY <2>1
  <2>3. Marshal(kind, v) = v \o <<0>>
    BY <1>1 DEF Marshal
  <2> QED BY <2>2, <2>20, <2>3 DEF OctetStrings
<1>2. CASE kind = "octet"
  BY <1>2 DEF Fits, Marshal, OctetStrings
<1>3. CASE kind = "message"
  <2>1. v \in OctetStrings /\ Len(v) \in Nat /\ Len(v) <= maxShortMessageLen /\ maxShortMessageLen = Base - 2
    BY <1>3 DEF Fits, OctetStrings, maxShortMessageLen
  <2>2. Min({Len(v), maxShortMessageLen}) = Len(v) /\ SubSeq(v, 1, Len(v)) = v
    BY <2>1, MinOfTwo, ConfigFacts, SubSeqFull DEF OctetStrings
  <2>3. Marshal(kind, v) = <<Len(v)>> \o v
    BY <1>3, <2>2 DEF Marshal
  <2>4. Len(v) \in Octet
    BY <2>1, ConfigFacts DEF Octet
  <2> QED BY <2>1, <2>3, <2>4 DEF OctetStrings
<1>4. CASE kind = "tlvs"
  BY <1>4, FitsParameters, MarshalTLVsAre
<1> QED BY <1>1, <1>2, <1>3, <1>4 DEF Kinds

\* Any field is read back from where it was written.
LEMMA FieldReadBack ==
  ASSUME NEW f \in OctetStrings, NEW p \in Nat, NEW out, NEW kind \in Kinds, NEW v, Fits(kind, v),
         At(f, p, Marshal(kind, v)), kind = "tlvs" => p + Len(Marshal(kind, v)) = Len(f)
  PROVE  ReadField(f, Reader(p, out), kind) = Reader(p + Len(Marshal(kind, v)), Append(out, v))
<1> DEFINE r == Reader(p, out)
<1>0. r.err = "none"
  BY ReaderTakes
<1> HIDE DEF r
<1>1. CASE kind = "string"
  <2>1. ReadField(f, r, kind) = ReadCOctetString(f, r)
    BY <1>0, <1>1 DEF ReadField
  <2> QED BY <1>1, <2>1, StringReadBack DEF r
<1>2. CASE kind = "octet"
  <2>1. ReadField(f, r, kind) = ReadByte(f, r)
    BY <1>0, <1>2 DEF ReadField
  <2> QED BY <1>2, <2>1, ByteReadBack DEF r
<1>3. CASE kind = "message"
  <2>1. ReadField(f, r, kind) = ReadShortMessage(f, r)
    BY <1>0, <1>3 DEF ReadField
  <2> QED BY <1>3, <2>1, MessageReadBack DEF r
<1>4. CASE kind = "tlvs"
  <2>1. ReadField(f, r, kind) = ReadTLVs(f, r)
    BY <1>0, <1>4 DEF ReadField
  <2>2. Fits("tlvs", v) /\ At(f, p, Marshal("tlvs", v)) /\ p + Len(Marshal("tlvs", v)) = Len(f)
    BY <1>4
  <2>3. ReadTLVs(f, Reader(p, out)) = Reader(p + Len(Marshal("tlvs", v)), Append(out, v))
    BY <2>2, TLVsReadBack
  <2> QED BY <1>4, <2>1, <2>3 DEF r
<1> QED BY <1>1, <1>2, <1>3, <1>4 DEF Kinds
-----------------------------------------------------------------------------
(***************************************************************************)
(* Bodies and PDUs.                                                        *)
(***************************************************************************)
BindLayout == <<"string", "string", "string", "octet", "octet", "octet", "string">>
MessageLayout == <<"string", "octet", "octet", "string", "octet", "octet", "string", "octet", "octet", "octet",
                   "string", "string", "octet", "octet", "octet", "octet", "message", "tlvs">>
BindRespLayout == <<"string", "tlvs">>
SubmitRespLayout == <<"string">>

LEMMA LayoutIs ==
  ASSUME NEW id \in KnownCommands
  PROVE  Layouts[id] \in {BindLayout, MessageLayout, BindRespLayout, SubmitRespLayout, <<>>}
  BY DEF Layouts, KnownCommands, BindLayout, MessageLayout, BindRespLayout, SubmitRespLayout

LEMMA LayoutFacts ==
  ASSUME NEW id \in KnownCommands
  PROVE  /\ Layouts[id] \in Seq(Kinds) /\ Len(Layouts[id]) \in Nat /\ DOMAIN Layouts[id] = 1..Len(Layouts[id])
         /\ \A i \in 1..Len(Layouts[id]) : Layouts[id][i] \in Kinds /\ (i < Len(Layouts[id]) => Layouts[id][i] # "tlvs")
         /\ Layouts[id] # <<>> => Len(Layouts[id]) >= 1 /\ Layouts[id][1] = "string"
<1>1. Layouts[id] \in {BindLayout, MessageLayout, BindRespLayout, SubmitRespLayout, <<>>}
  BY LayoutIs
<1>2. CASE Layouts[id] = BindLayout
  BY <1>2 DEF BindLayout, Kinds
<1>3. CASE Layouts[id] = MessageLayout
  BY <1>3 DEF MessageLayout, Kinds
<1>4. CASE Layouts[id] = BindRespLayout
  BY <1>4 DEF BindRespLayout, Kinds
<1>5. CASE Layouts[id] = SubmitRespLayout
  BY <1>5 DEF SubmitRespLayout, Kinds
<1>6. CASE Layouts[id] = <<>>
  BY <1>6
<1> QED BY <1>1, <1>2, <1>3, <1>4, <1>5, <1>6

\* The fields of a body, marshalled.
Written(id, body) == [i \in DOMAIN body |-> Marshal(Layouts[id][i], body[i])]

\* A body with a value that fits for each field of its layout.
WholeBody(id, body) ==
  /\ body = [i \in DOMAIN Layouts[id] |-> body[i]]
  /\ \A i \in DOMAIN body : Fits(Layouts[id][i], body[i])

ValuesOf(body) == {body[i] : i \in DOMAIN body}

LEMMA WrittenIs ==
  ASSUME NEW id \in KnownCommands, NEW body, WholeBody(id, body)
  PROVE  /\ DOMAIN body = 1..Len(Layouts[id]) /\ body \in Seq(ValuesOf(body)) /\ Len(body) = Len(Layouts[id])
         /\ Len(body) \in Nat
         /\ Written(id, body) \in Seq(OctetStrings) /\ Len(Written(id, body)) = Len(Layouts[id])
         /\ \A i \in 1..Len(Layouts[id]) : Written(id, body)[i] = Marshal(Layouts[id][i], body[i])
         /\ FlattenSeq(Written(id, body)) \in OctetStrings
<1> DEFINE n == Len(Layouts[id])
           V == ValuesOf(body)
           w == Written(id, body)
<1>1. n \in Nat /\ DOMAIN Layouts[id] = 1..n /\ \A i \in 1..n : Layouts[id][i] \in Kinds
  BY LayoutFacts
<1>2. DOMAIN body = 1..n /\ body = [i \in 1..n |-> body[i]]
  BY <1>1 DEF WholeBody
<1>3. \A i \in 1..n : body[i] \in V /\ Marshal(Layouts[id][i], body[i]) \in OctetStrings
  BY <1>1, <1>2, MarshalIsOctets DEF WholeBody, ValuesOf
<1> HIDE DEF V, n
<1>4. body \in [1..n -> V]
  BY <1>2, <1>3
<1>5. body \in Seq(V) /\ Len(body) = n
  BY <1>1, <1>4
<1>6. w = [i \in 1..n |-> Marshal(Layouts[id][i], body[i])]
  BY <1>2 DEF Written
<1>7. w \in Seq(OctetStrings) /\ Len(w) = n
  BY <1>1, <1>3, <1>6
<1>8. FlattenSeq(w) \in OctetStrings
  <2> HIDE DEF w
  <2> QED BY <1>7, FlattenIsSeq DEF OctetStrings
<1> QED BY <1>1, <1>2, <1>5, <1>6, <1>7, <1>8 DEF V, n

LEMMA NextField ==
  ASSUME NEW f, NEW r, NEW kinds, NEW n \in Nat
  PROVE  ReadFields(f, r, kinds, n + 1) = ReadField(f, ReadFields(f, r, kinds, n), kinds[n + 1])
  BY FieldsNext

\* After k fields the first k values are read.
LEMMA FieldsReadBack ==
  ASSUME NEW id \in KnownCommands, NEW body, WholeBody(id, body), NEW f \in OctetStrings, NEW p \in Nat,
         At(f, p, FlattenSeq(Written(id, body))), p + Len(FlattenSeq(Written(id, body))) = Len(f),
         NEW n \in 0..Len(body)
  PROVE  ReadFields(f, Reader(p, <<>>), Layouts[id], n)
           = Reader(p + Len(FlattenSeq(SubSeq(Written(id, body), 1, n))), SubSeq(body, 1, n))
<1> DEFINE ms == Written(id, body)
           m == FlattenSeq(ms)
           Upto(k) == Len(FlattenSeq(SubSeq(ms, 1, k)))
           r == Reader(p, <<>>)
           kinds == Layouts[id]
           V == ValuesOf(body)
           T == {k \in 0..Len(body) : ReadFields(f, r, kinds, k) # Reader(p + Upto(k), SubSeq(body, 1, k))}
<1>0. /\ DOMAIN body = 1..Len(kinds) /\ body \in Seq(V) /\ Len(body) = Len(kinds) /\ Len(body) \in Nat
      /\ ms \in Seq(OctetStrings) /\ Len(ms) = Len(body)
      /\ \A i \in 1..Len(body) : ms[i] = Marshal(kinds[i], body[i])
      /\ m \in OctetStrings
  BY WrittenIs
<1>01. \A i \in 1..Len(body) : body[i] \in V /\ kinds[i] \in Kinds /\ Fits(kinds[i], body[i])
                               /\ (i < Len(body) => kinds[i] # "tlvs")
  BY <1>0, LayoutFacts DEF WholeBody, ValuesOf
<1>00. Len(f) \in Nat /\ Len(m) \in Nat /\ At(f, p, m) /\ p + Len(m) = Len(f)
  BY <1>0 DEF OctetStrings
<1> HIDE DEF ms, m, r, kinds, V
<1> SUFFICES ASSUME T # {} PROVE FALSE
  BY DEF ms, r, kinds
<1>1. T \subseteq Nat
  BY <1>0
<1>2. PICK k \in T : \A j \in T : k <= j
  BY <1>1, LeastNatural
<1>3. k \in 0..Len(body) /\ ReadFields(f, r, kinds, k) # Reader(p + Upto(k), SubSeq(body, 1, k))
  OBVIOUS
<1>4. k # 0
  <2> SUFFICES ASSUME k = 0 PROVE FALSE
    OBVIOUS
  <2>1. ReadFields(f, r, kinds, 0) = Reader(p, <<>>)
    BY FieldsNext DEF r
  <2>2. SubSeq(ms, 1, 0) = <<>> /\ SubSeq(body, 1, 0) = <<>>
    BY SubSeqEmpty
  <2>3. FlattenSeq(<<>>) = <<>> /\ Len(<<>>) = 0
    <3>1. Len(<<>>) = 0 /\ <<>> \in Seq({})
      OBVIOUS
    <3> QED BY <3>1, FlattenNothing
  <2>4. p + 0 = p
    OBVIOUS
  <2> QED BY <1>3, <2>1, <2>2, <2>3, <2>4
<1> DEFINE i == k - 1
           x == body[k]
           y == Marshal(kinds[k], x)
<1>5. i \in Nat /\ k = i + 1 /\ i \in 0..(Len(body) - 1) /\ i \in 0..(Len(ms) - 1) /\ i \notin T /\ k \in 1..Len(body)
  BY <1>0, <1>2, <1>3, <1>4
<1>6. ReadFields(f, r, kinds, i) = Reader(p + Upto(i), SubSeq(body, 1, i))
  BY <1>0, <1>5
<1> HIDE DEF i, T
<1>7. x \in V /\ ms[k] = y /\ kinds[k] \in Kinds /\ Fits(kinds[k], x) /\ y \in OctetStrings
  BY <1>0, <1>01, <1>5, MarshalIsOctets
<1>8. /\ FlattenSeq(SubSeq(ms, 1, i)) \in OctetStrings
      /\ FlattenSeq(SubSeq(ms, 1, i + 1)) = FlattenSeq(SubSeq(ms, 1, i)) \o ms[i + 1]
      /\ At(m, Len(FlattenSeq(SubSeq(ms, 1, i))), ms[i + 1])
  BY <1>0, <1>5, FlattenParts DEF OctetStrings, m
<1>9. Upto(i) \in Nat /\ Len(y) \in Nat /\ Upto(k) = Upto(i) + Len(y) /\ At(m, Upto(i), y)
  <2> DEFINE a == FlattenSeq(SubSeq(ms, 1, i))
  <2> HIDE DEF a, y
  <2>2. a \in OctetStrings /\ FlattenSeq(SubSeq(ms, 1, k)) = a \o y /\ At(m, Len(a), y)
    BY <1>5, <1>7, <1>8 DEF a
  <2>3. Len(a \o y) = Len(a) + Len(y) /\ Len(a) \in Nat /\ Len(y) \in Nat
    BY <1>7, <2>2 DEF OctetStrings
  <2> QED BY <2>2, <2>3 DEF a
<1>90. kinds[k] = "tlvs" => p + Upto(k) = Len(f)
  <2> SUFFICES ASSUME kinds[k] = "tlvs" PROVE p + Upto(k) = Len(f)
    OBVIOUS
  <2>0. k < Len(body) => kinds[k] # "tlvs"
    BY <1>01, <1>5
  <2>00. ~(k < Len(body)) /\ k \in 1..Len(body) /\ Len(ms) = Len(body) /\ Len(body) \in Nat
    BY <1>0, <1>5, <2>0, Zenon
  <2>1. k = Len(ms)
    BY <2>00
  <2>2. SubSeq(ms, 1, Len(ms)) = ms
    BY <1>0, SubSeqFull
  <2> QED BY <1>00, <2>1, <2>2 DEF m
<1> HIDE DEF x, Upto, y
<1> DEFINE q == p + Upto(i)
           o == SubSeq(body, 1, i)
<1>10. At(f, q, y) /\ q \in Nat /\ q + Len(y) = p + Upto(k)
  <2>1. At(f, p + Upto(i), y)
    BY <1>00, <1>9, AtWithin
  <2> DEFINE ui == Upto(i)
             uk == Upto(k)
             l == Len(y)
  <2>2. ui \in Nat /\ l \in Nat /\ uk = ui + l
    BY <1>9
  <2> HIDE DEF ui, uk, l
  <2>3. (p + ui) + l = p + uk /\ p + ui \in Nat
    BY <2>2
  <2> QED BY <2>1, <2>3 DEF ui, uk, l
<1>11. o \in Seq(V) /\ Len(o) = i /\ Append(o, x) = SubSeq(body, 1, k)
  <2>1. o \in Seq(V) /\ Len(o) = i
    <3>1. \A j \in 1..i : body[j] \in V
      BY <1>0, <1>01, <1>5
    <3> QED BY <1>5, <3>1
  <2>2. SubSeq(body, 1, k) = SubSeq(body, 1, k - 1) \o <<body[k]>>
    BY <1>0, <1>5, SubSeqRecursiveSecond
  <2>3. Append(SubSeq(body, 1, i), x) = SubSeq(body, 1, i) \o <<x>>
    BY <1>7, <2>1, AppendIsConcat
  <2> QED BY <2>1, <2>2, <2>3 DEF x, i
<1> HIDE DEF q, o
<1>13. ReadField(f, Reader(q, o), kinds[k]) = Reader(q + Len(y), Append(o, x))
  BY <1>7, <1>10, <1>90, FieldReadBack DEF y
<1>15. ReadFields(f, r, kinds, k) = ReadField(f, ReadFields(f, r, kinds, i), kinds[k])
  BY <1>5, NextField
<1>16. ReadFields(f, r, kinds, k) = Reader(p + Upto(k), SubSeq(body, 1, k))
  BY <1>6, <1>10, <1>11, <1>13, <1>15 DEF q, o
<1> QED BY <1>3, <1>16

\* decodeBind and its like: a body that was written is read back.
LEMMA BodyReadBack ==
  ASSUME NEW id \in KnownCommands, NEW body, WholeBody(id, body), NEW f \in OctetStrings, NEW p \in Nat,
         At(f, p, FlattenSeq(Written(id, body))), p + Len(FlattenSeq(Written(id, body))) = Len(f)
  PROVE  ReadFields(f, Reader(p, <<>>), Layouts[id], Len(Layouts[id])) = Reader(Len(f), body)
<1> DEFINE V == ValuesOf(body)
           w == Written(id, body)
           n == Len(body)
<1>1. body \in Seq(V) /\ n = Len(Layouts[id]) /\ n \in Nat /\ w \in Seq(OctetStrings) /\ Len(w) = n
  BY WrittenIs
<1> HIDE DEF V, w
<1>2. SubSeq(body, 1, n) = body /\ SubSeq(w, 1, n) = w
  BY <1>1, SubSeqFull
<1>3. n \in 0..Len(body)
  BY <1>1
<1>4. ReadFields(f, Reader(p, <<>>), Layouts[id], n)
           = Reader(p + Len(FlattenSeq(SubSeq(Written(id, body), 1, n))), SubSeq(body, 1, n))
  <2> HIDE DEF n
  <2> QED BY <1>3, FieldsReadBack
<1> QED BY <1>1, <1>2, <1>4 DEF w

\* The ids of the commands: requests below the response bit, responses above it.
LEMMA CommandIds ==
  /\ responseBit \in Nat /\ responseBit > 22 /\ responseBit + responseBit <= Values(Word) /\ Values(Word) \in Nat \ {0}
  /\ KnownCommands \subseteq 1..21 \cup responseBit..(responseBit + 21)
  /\ \A id \in KnownCommands : id \in Nat /\ id \in 0..(Values(Word) - 1) /\ id # unknownCommandID
  /\ unknownCommandID \in 0..(Values(Word) - 1)
<1>1. Values(Word) \in Nat \ {0}
  BY ValuesPositive, ConfigFacts
<1> DEFINE v == Values(Word)
<1>2. responseBit = v \div 2 /\ 22 < responseBit
  BY CodecConfig DEF responseBit
<1> HIDE DEF v
<1>3. responseBit \in Nat /\ responseBit + responseBit <= v
  BY <1>1, <1>2 DEF v
<1>4. ASSUME NEW id \in 1..21 PROVE Response(id) \in responseBit..(responseBit + 21) /\ ~IsResponse(id)
  BY <1>2, <1>3 DEF Response, IsResponse
<1>5. Binds \subseteq 1..21 /\ Messages \subseteq 1..21 /\ EnquireLink \in 1..21 /\ Unbind \in 1..21
  BY DEF Binds, Messages, EnquireLink, Unbind, BindReceiver, BindTransmitter, BindTransceiver, SubmitSM, DeliverSM
<1>6. Responses(Binds) \subseteq responseBit..(responseBit + 21) /\ Responses(Messages) \subseteq responseBit..(responseBit + 21)
  BY <1>4, <1>5 DEF Responses
<1>7. Bodiless \subseteq 1..21 \cup responseBit..(responseBit + 21)
  <2>1. GenericNack \in responseBit..(responseBit + 21)
    BY <1>3 DEF GenericNack
  <2> QED BY <1>4, <1>5, <2>1 DEF Bodiless
<1>8. KnownCommands \subseteq 1..21 \cup responseBit..(responseBit + 21)
  BY <1>5, <1>6, <1>7 DEF KnownCommands
<1>9. ASSUME NEW id \in KnownCommands PROVE id \in Nat /\ id \in 0..(v - 1) /\ id # unknownCommandID
  <2>1. id \in 1..21 \/ id \in responseBit..(responseBit + 21)
    BY <1>8
  <2> QED BY <1>1, <1>2, <1>3, <2>1 DEF unknownCommandID, v
<1>10. unknownCommandID \in 0..(v - 1)
  BY <1>1, <1>2, <1>3 DEF unknownCommandID, v
<1> QED BY <1>1, <1>2, <1>3, <1>8, <1>9, <1>10 DEF v

\* The words of a header and what follows them.
LEMMA HeaderWords ==
  ASSUME NEW w \in Seq(OctetStrings), Len(w) = 4, \A k \in 1..4 : Len(w[k]) = Word, NEW b \in OctetStrings
  PROVE  /\ FlattenSeq(w) \o b \in OctetStrings /\ Len(FlattenSeq(w) \o b) = HeaderLen + Len(b)
         /\ At(FlattenSeq(w) \o b, HeaderLen, b)
         /\ \A k \in 1..4 : Header(FlattenSeq(w) \o b, k) = Number(w[k])
<1> DEFINE h == FlattenSeq(w)
           f == h \o b
           Upto(n) == Len(FlattenSeq(SubSeq(w, 1, n)))
<1>1. h \in OctetStrings
  BY FlattenIsSeq DEF OctetStrings
<1>2. ASSUME NEW n \in 0..3
      PROVE  /\ Upto(n + 1) = Upto(n) + Word /\ Upto(n) \in Nat /\ At(h, Upto(n), w[n + 1]) /\ w[n + 1] \in OctetStrings
  <2>1. n \in 0..(Len(w) - 1) /\ n + 1 \in 1..4
    OBVIOUS
  <2> DEFINE a == FlattenSeq(SubSeq(w, 1, n))
             x == w[n + 1]
  <2>2. a \in OctetStrings /\ FlattenSeq(SubSeq(w, 1, n + 1)) = a \o x /\ At(h, Len(a), x)
    BY <2>1, FlattenParts DEF OctetStrings
  <2>3. x \in OctetStrings /\ Len(x) = Word
    <3> HIDE DEF OctetStrings, a
    <3>1. n + 1 \in 1..Len(w)
      BY <2>1
    <3>2. w[n + 1] \in OctetStrings
      BY <3>1, ElementOfSeq
    <3>3. Len(w[n + 1]) = Word
      BY <2>1
    <3> QED BY <3>2, <3>3
  <2> HIDE DEF a, x
  <2>4. Len(a \o x) = Len(a) + Word /\ Len(a) \in Nat
    BY <2>2, <2>3 DEF OctetStrings
  <2> QED BY <2>2, <2>3, <2>4 DEF a, x
<1>3. Upto(0) = 0
  <2>1. SubSeq(w, 1, 0) = <<>>
    BY SubSeqEmpty
  <2>2. Len(<<>>) = 0 /\ <<>> \in Seq({})
    OBVIOUS
  <2> QED BY <2>1, <2>2, FlattenNothing
<1>30. Upto(4) = Len(h)
  BY SubSeqFull
<1> HIDE DEF Upto
<1>4. Upto(1) = Word /\ Upto(2) = 2 * Word /\ Upto(3) = 3 * Word /\ Upto(4) = 4 * Word
  <2>1. Upto(0 + 1) = Upto(0) + Word /\ Upto(1 + 1) = Upto(1) + Word
        /\ Upto(2 + 1) = Upto(2) + Word /\ Upto(3 + 1) = Upto(3) + Word
    BY <1>2
  <2>2. 0 + 1 = 1 /\ 1 + 1 = 2 /\ 2 + 1 = 3 /\ 3 + 1 = 4
    OBVIOUS
  <2> QED BY <1>3, <2>1, <2>2, ConfigFacts
<1>5. Len(h) = HeaderLen
  BY <1>30, <1>4, ConfigFacts
<1>6. f \in OctetStrings /\ Len(f) = HeaderLen + Len(b) /\ Len(f) \in Nat
  <2> HIDE DEF h
  <2>1. h \o b \in OctetStrings /\ Len(h \o b) = Len(h) + Len(b) /\ Len(h) + Len(b) \in Nat
    BY <1>1 DEF OctetStrings
  <2> QED BY <1>5, <2>1
<1>7. At(f, 0, h) /\ At(f, HeaderLen, b)
  <2> HIDE DEF h
  <2>1. Len(h) \in Nat /\ Len(b) \in Nat
    BY <1>1 DEF OctetStrings
  <2>2. \A i \in 1..(Len(h) + Len(b)) : f[i] = IF i <= Len(h) THEN h[i] ELSE b[i - Len(h)]
    BY <1>1, ConcatProperties DEF OctetStrings
  <2> HIDE DEF f
  <2>3. ASSUME NEW i \in 1..Len(h) PROVE f[0 + i] = h[i]
    BY <2>1, <2>2
  <2>4. ASSUME NEW i \in 1..Len(b) PROVE f[HeaderLen + i] = b[i]
    <3>1. HeaderLen + i \in 1..(Len(h) + Len(b)) /\ ~(HeaderLen + i <= Len(h)) /\ (HeaderLen + i) - Len(h) = i
      BY <1>5, <2>1
    <3> QED BY <2>2, <3>1
  <2> QED BY <1>5, <1>6, <2>1, <2>3, <2>4, ConfigFacts DEF At
<1> HIDE DEF h, f
<1>8. ASSUME NEW n \in 0..3 PROVE Header(f, n + 1) = Number(w[n + 1])
  <2> DEFINE x == w[n + 1]
             u == Upto(n)
  <2>1. u = n * Word /\ u \in Nat
    <3>1. n \in {0, 1, 2, 3}
      OBVIOUS
    <3>2. CASE n = 0
      BY <1>2, <1>3, <3>2, ConfigFacts
    <3>3. CASE n = 1
      BY <1>2, <1>4, <3>3, ConfigFacts
    <3>4. CASE n = 2
      BY <1>2, <1>4, <3>4, ConfigFacts
    <3>5. CASE n = 3
      BY <1>2, <1>4, <3>5, ConfigFacts
    <3> QED BY <3>1, <3>2, <3>3, <3>4, <3>5
  <2>2. At(h, u, x) /\ x \in OctetStrings
    BY <1>2
  <2>3. Len(x) = Word
    <3>1. n + 1 \in 1..4
      OBVIOUS
    <3> QED BY <3>1
  <2>30. Len(h) \in Nat /\ Len(x) \in Nat /\ 0 \in Nat
    BY <1>1, <2>3, ConfigFacts DEF OctetStrings
  <2> HIDE DEF x, u
  <2>4. At(f, 0 + u, x)
    BY <1>6, <1>7, <2>1, <2>2, <2>30, AtWithin
  <2>5. At(f, u, x)
    BY <2>1, <2>4
  <2>6. SubSeq(f, u + 1, u + Len(x)) = x
    BY <1>6, <2>1, <2>2, <2>5, AtIsSubSeq DEF OctetStrings
  <2>7. ((n + 1) - 1) * Word + 1 = u + 1 /\ (n + 1) * Word = u + Word
    <3>1. n \in {0, 1, 2, 3}
      OBVIOUS
    <3> QED BY <2>1, <3>1, ConfigFacts
  <2> QED BY <2>3, <2>6, <2>7 DEF Header, x
<1>9. ASSUME NEW k \in 1..4 PROVE Header(f, k) = Number(w[k])
  <2> DEFINE n == k - 1
  <2>1. n \in 0..3 /\ k = n + 1
    OBVIOUS
  <2> HIDE DEF n
  <2> QED BY <1>8, <2>1
<1> QED BY <1>6, <1>7, <1>9 DEF f, h

\* Written of a body that is left out.
LEMMA NothingWritten ==
  ASSUME NEW id
  PROVE  FlattenSeq(Written(id, NoBody)) = <<>>
<1>1. Written(id, <<>>) = <<>> /\ Len(<<>>) = 0 /\ <<>> \in Seq({})
  BY DEF Written
<1> QED BY <1>1, FlattenNothing DEF NoBody

LEMMA BodyOctets ==
  ASSUME NEW p, WellFormed(p)
  PROVE  FlattenSeq(Written(p.id, p.body)) \in OctetStrings
<1>1. CASE p.body = NoBody
  <2>1. FlattenSeq(Written(p.id, p.body)) = <<>>
    BY <1>1, NothingWritten
  <2>2. <<>> \in OctetStrings
    BY DEF OctetStrings
  <2> QED BY <2>1, <2>2
<1>2. CASE p.body # NoBody
  <2>1. p.id \in KnownCommands /\ WholeBody(p.id, p.body)
    BY <1>2 DEF WellFormed, WholeBody
  <2> QED BY <2>1, WrittenIs
<1> QED BY <1>1, <1>2

\* Encode: the header says how long the frame is, which command it is, and the rest.
LEMMA EncodeIs ==
  ASSUME NEW p, WellFormed(p), Encode(p).err = "none", NEW f, f = Encode(p).frame
  PROVE  /\ f \in OctetStrings /\ Len(f) \in HeaderLen..MaxPDULen
         /\ Header(f, 1) = Len(f) /\ Header(f, 2) = p.id /\ Header(f, 3) = p.status /\ Header(f, 4) = p.seq
         /\ Len(f) = HeaderLen + Len(FlattenSeq(Written(p.id, p.body)))
         /\ At(f, HeaderLen, FlattenSeq(Written(p.id, p.body)))
<1> DEFINE b == FlattenSeq(Written(p.id, p.body))
           total == HeaderLen + Len(b)
           ws == <<total, p.id, p.status, p.seq>>
           w == [i \in 1..4 |-> BigEndian(ws[i], Word)]
<1>1. b \in OctetStrings
  BY BodyOctets
<1>2. total \in Nat /\ total >= HeaderLen
  <2> HIDE DEF b
  <2>1. Len(b) \in Nat
    BY <1>1 DEF OctetStrings
  <2> QED BY <2>1, ConfigFacts
<1>3. Encode(p) = IF total > MaxPDULen THEN [err |-> "ErrBadCommandLength"]
                  ELSE [err |-> "none", frame |-> FlattenSeq(w) \o b]
  BY DEF Encode, Written
<1> HIDE DEF b, total, w
<1>4. ~(total > MaxPDULen)
  <2> SUFFICES ASSUME total > MaxPDULen PROVE FALSE
    OBVIOUS
  <2>1. Encode(p).err = "ErrBadCommandLength"
    BY <1>3
  <2> QED BY <2>1
<1>5. f = FlattenSeq(w) \o b
  BY <1>3, <1>4
<1>6. total \in 0..(Values(Word) - 1) /\ total <= MaxPDULen
  <2>1. MaxPDULen <= Values(Word) - 1 /\ Values(Word) \in Nat /\ MaxPDULen \in Nat
    BY CommandIds, CodecConfig
  <2> QED BY <1>2, <1>4, <2>1
<1>7. ws[1] = total /\ ws[2] = p.id /\ ws[3] = p.status /\ ws[4] = p.seq
  OBVIOUS
<1>8. \A k \in 1..4 : ws[k] \in 0..(Values(Word) - 1) /\ ws[k] \in Nat
  <2>1. p.id \in 0..(Values(Word) - 1) /\ p.status \in 0..(Values(Word) - 1) /\ p.seq \in 0..(Values(Word) - 1)
    BY CommandIds DEF WellFormed
  <2> HIDE DEF ws
  <2> QED BY <1>6, <1>7, <2>1, CommandIds
<1> HIDE DEF ws
<1>9. ASSUME NEW k \in 1..4
      PROVE  BigEndian(ws[k], Word) \in OctetStrings /\ Len(BigEndian(ws[k], Word)) = Word
             /\ Number(BigEndian(ws[k], Word)) = ws[k]
  BY <1>8, BigEndianOctets, NumberOfBigEndian, ConfigFacts
<1>10. w \in Seq(OctetStrings) /\ Len(w) = 4 /\ \A k \in 1..4 : w[k] = BigEndian(ws[k], Word)
  BY <1>9 DEF w
<1>11. \A k \in 1..4 : Len(w[k]) = Word /\ Number(w[k]) = ws[k]
  BY <1>9, <1>10
<1>12. /\ f \in OctetStrings /\ Len(f) = HeaderLen + Len(b) /\ At(f, HeaderLen, b)
       /\ \A k \in 1..4 : Header(f, k) = Number(w[k])
  <2>1. w \in Seq(OctetStrings) /\ Len(w) = 4 /\ \A k \in 1..4 : Len(w[k]) = Word
    BY <1>10, <1>11
  <2>2. /\ FlattenSeq(w) \o b \in OctetStrings /\ Len(FlattenSeq(w) \o b) = HeaderLen + Len(b)
        /\ At(FlattenSeq(w) \o b, HeaderLen, b)
        /\ \A k \in 1..4 : Header(FlattenSeq(w) \o b, k) = Number(w[k])
    BY <1>1, <2>1, HeaderWords
  <2> QED BY <1>5, <2>2
<1>13. \A k \in 1..4 : Header(f, k) = ws[k]
  BY <1>11, <1>12
<1>14. Header(f, 1) = total /\ Header(f, 2) = p.id /\ Header(f, 3) = p.status /\ Header(f, 4) = p.seq
  <2>1. 1 \in 1..4 /\ 2 \in 1..4 /\ 3 \in 1..4 /\ 4 \in 1..4
    OBVIOUS
  <2> QED BY <1>7, <1>13, <2>1
<1>15. Len(f) = total
  BY <1>12 DEF total
<1>16. total \in HeaderLen..MaxPDULen
  BY <1>2, <1>6, ConfigFacts
<1> QED BY <1>12, <1>14, <1>15, <1>16 DEF b

\* A part of a frame.
LEMMA CutIs ==
  ASSUME NEW f \in OctetStrings, NEW a \in Nat, NEW n \in Nat, a + n <= Len(f)
  PROVE  /\ SubSeq(f, a + 1, a + n) \in OctetStrings /\ Len(SubSeq(f, a + 1, a + n)) = n
         /\ \A i \in 1..n : SubSeq(f, a + 1, a + n)[i] = f[a + i]
<1> DEFINE w == SubSeq(f, a + 1, a + n)
<1>1. Len(f) \in Nat /\ \A i \in 1..Len(f) : f[i] \in Octet
  BY DEF OctetStrings
<1>2. \A i \in (a + 1)..(a + n) : f[i] \in Octet
  BY <1>1
<1>3. /\ w \in Seq(Octet) /\ Len(w) = IF a + 1 <= a + n THEN (a + n) - (a + 1) + 1 ELSE 0
      /\ \A i \in 1..((a + n) - (a + 1) + 1) : w[i] = f[(a + 1) + i - 1]
  <2>1. a + 1 \in Int /\ a + n \in Int
    OBVIOUS
  <2> QED BY <1>2, <2>1, SubSeqProperties
<1> HIDE DEF w
<1>4. Len(w) = n
  BY <1>3
<1>5. ASSUME NEW i \in 1..n PROVE w[i] = f[a + i]
  <2>1. i \in 1..((a + n) - (a + 1) + 1) /\ (a + 1) + i - 1 = a + i
    OBVIOUS
  <2> QED BY <1>3, <2>1
<1> QED BY <1>3, <1>4, <1>5 DEF w, OctetStrings

\* Where the k-th word of a header begins.
LEMMA WordPlace ==
  ASSUME NEW k \in 1..4
  PROVE  /\ (k - 1) * Word \in Nat /\ k * Word = (k - 1) * Word + Word /\ k * Word <= HeaderLen
         /\ \A j \in 1..4 : j < k => j * Word <= (k - 1) * Word
<1>1. k \in {1, 2, 3, 4}
  OBVIOUS
<1>2. CASE k = 1
  BY <1>2, ConfigFacts
<1>3. CASE k = 2
  BY <1>3, ConfigFacts
<1>4. CASE k = 3
  BY <1>4, ConfigFacts
<1>5. CASE k = 4
  BY <1>5, ConfigFacts
<1> QED BY <1>1, <1>2, <1>3, <1>4, <1>5

LEMMA HeaderIsWord ==
  ASSUME NEW f \in OctetStrings, Len(f) >= HeaderLen, NEW k \in 1..4
  PROVE  Header(f, k) \in 0..(Values(Word) - 1)
<1> DEFINE a == (k - 1) * Word
           w == SubSeq(f, a + 1, a + Word)
<1>1. a \in Nat /\ k * Word = a + Word /\ a + Word <= Len(f)
  <2>1. Len(f) \in Nat
    BY DEF OctetStrings
  <2> QED BY <2>1, WordPlace, ConfigFacts
<1>2. Header(f, k) = Number(w)
  BY <1>1 DEF Header
<1> HIDE DEF a
<1>3. w \in OctetStrings /\ Len(w) = Word
  BY <1>1, ConfigFacts, CutIs
<1> HIDE DEF w
<1> QED BY <1>2, <1>3, NumberFits

\* EncodeEdgeCase: one word is replaced, and nothing else.
LEMMA SetHeaderIs ==
  ASSUME NEW f \in OctetStrings, Len(f) >= HeaderLen, NEW k \in 1..4, NEW x \in Nat, NEW g, g = SetHeader(f, k, x)
  PROVE  /\ g \in OctetStrings /\ Len(g) = Len(f) /\ Header(g, k) = x % Values(Word)
         /\ \A j \in 1..4 : j # k => Header(g, j) = Header(f, j)
         /\ \A i \in (HeaderLen + 1)..Len(f) : g[i] = f[i]
<1> DEFINE a == (k - 1) * Word
           y == x % Values(Word)
           w == BigEndian(y, Word)
<1>0. Len(f) \in Nat /\ DOMAIN f = 1..Len(f) /\ \A i \in 1..Len(f) : f[i] \in Octet
  BY DEF OctetStrings
<1>1. a \in Nat /\ k * Word = a + Word /\ a + Word <= HeaderLen /\ a + Word <= Len(f)
  BY <1>0, WordPlace, ConfigFacts
<1>2. y \in 0..(Values(Word) - 1) /\ y \in Nat
  <2> DEFINE v == Values(Word)
  <2>1. v \in Nat \ {0}
    BY CommandIds
  <2> HIDE DEF v
  <2>2. x % v \in 0..(v - 1)
    BY <2>1, Division
  <2>3. x % v \in Nat
    BY <2>1, <2>2
  <2> QED BY <2>2, <2>3 DEF v
<1> HIDE DEF y
<1>3. w \in OctetStrings /\ Len(w) = Word /\ Number(w) = y
  BY <1>2, BigEndianOctets, NumberOfBigEndian, ConfigFacts
<1>4. g = [i \in 1..Len(f) |-> IF i \in (a + 1)..(a + Word) THEN w[i - a] ELSE f[i]]
  BY <1>0, <1>1 DEF SetHeader, y
<1> HIDE DEF a, w
<1>5. \A i \in 1..Word : w[i] \in Octet
  BY <1>3 DEF OctetStrings
<1>6. ASSUME NEW i \in 1..Len(f) PROVE (IF i \in (a + 1)..(a + Word) THEN w[i - a] ELSE f[i]) \in Octet
  <2>1. CASE i \in (a + 1)..(a + Word)
    <3>1. i - a \in 1..Word
      BY <1>1, <2>1, ConfigFacts
    <3> QED BY <1>5, <2>1, <3>1
  <2>2. CASE i \notin (a + 1)..(a + Word)
    BY <1>0, <2>2
  <2> QED BY <2>1, <2>2
<1>7. g \in OctetStrings /\ Len(g) = Len(f)
  <2>1. g \in [1..Len(f) -> Octet]
    BY <1>4, <1>6
  <2> QED BY <1>0, <2>1 DEF OctetStrings
<1>8. \A i \in 1..Len(f) : i \notin (a + 1)..(a + Word) => g[i] = f[i]
  BY <1>4
<1>9. Header(g, k) = y
  <2>1. ASSUME NEW i \in 1..Word PROVE g[a + i] = w[i]
    <3>1. a + i \in 1..Len(f) /\ a + i \in (a + 1)..(a + Word) /\ (a + i) - a = i
      BY <1>0, <1>1, ConfigFacts
    <3> QED BY <1>4, <3>1
  <2>2. At(g, a, w)
    BY <1>1, <1>3, <1>7, <2>1 DEF At
  <2>3. SubSeq(g, a + 1, a + Word) = w
    BY <1>1, <1>3, <1>7, <2>2, AtIsSubSeq DEF OctetStrings
  <2> QED BY <1>1, <1>3, <2>3 DEF Header, a
<1>10. ASSUME NEW j \in 1..4, j # k PROVE Header(g, j) = Header(f, j)
  <2> DEFINE b == (j - 1) * Word
             u == SubSeq(f, b + 1, b + Word)
  <2>1. b \in Nat /\ j * Word = b + Word /\ b + Word <= HeaderLen /\ b + Word <= Len(f)
    BY <1>0, WordPlace, ConfigFacts
  <2>2. b + Word <= a \/ a + Word <= b
    <3>1. CASE j < k
      BY <2>1, <3>1, WordPlace DEF a
    <3>2. CASE k < j
      <4>1. k * Word <= (j - 1) * Word
        BY <3>2, WordPlace
      <4> QED BY <1>1, <4>1
    <3>3. j < k \/ k < j
      BY <1>10
    <3> QED BY <3>1, <3>2, <3>3
  <2>20. Header(f, j) = Number(u) /\ Header(g, j) = Number(SubSeq(g, b + 1, b + Word))
    BY <2>1 DEF Header
  <2> HIDE DEF b
  <2>3. u \in OctetStrings /\ Len(u) = Word /\ \A i \in 1..Word : u[i] = f[b + i]
    BY <2>1, ConfigFacts, CutIs
  <2> HIDE DEF u
  <2>4. ASSUME NEW i \in 1..Word PROVE g[b + i] = u[i]
    <3>1. b + i \in 1..Len(f) /\ b + i \notin (a + 1)..(a + Word)
      BY <1>0, <1>1, <2>1, <2>2, ConfigFacts
    <3> QED BY <1>8, <2>3, <3>1
  <2>5. At(g, b, u)
    BY <1>7, <2>1, <2>3, <2>4 DEF At
  <2>6. SubSeq(g, b + 1, b + Word) = u
    BY <1>7, <2>1, <2>3, <2>5, AtIsSubSeq DEF OctetStrings
  <2> QED BY <2>6, <2>20
<1>11. ASSUME NEW i \in (HeaderLen + 1)..Len(f) PROVE g[i] = f[i]
  <2>1. i \in 1..Len(f) /\ i \notin (a + 1)..(a + Word)
    BY <1>0, <1>1, ConfigFacts
  <2> QED BY <1>8, <2>1
<1> QED BY <1>7, <1>9, <1>10, <1>11 DEF y

\* Decode of a frame with a known command and a whole body.
LEMMA DecodeWhole ==
  ASSUME NEW f \in OctetStrings, NEW id \in KnownCommands, Header(f, 2) = id, NEW body, WholeBody(id, body),
         Len(f) = HeaderLen + Len(FlattenSeq(Written(id, body))), At(f, HeaderLen, FlattenSeq(Written(id, body)))
  PROVE  Decode(f) = [err |-> "none", pdu |-> PDU(id, Header(f, 3), Header(f, 4), body)]
<1> DEFINE b == FlattenSeq(Written(id, body))
           r == Reader(HeaderLen, <<>>)
<1>1. b \in OctetStrings /\ Len(b) \in Nat /\ Len(f) \in Nat
  BY WrittenIs DEF OctetStrings
<1>2. ReadFields(f, r, Layouts[id], Len(Layouts[id])) = Reader(Len(f), body)
  BY ConfigFacts, BodyReadBack
<1>3. ASSUME BodyOptional(id) PROVE Len(b) # 0
  <2>1. Len(Layouts[id]) >= 1 /\ Layouts[id][1] = "string" /\ Len(Layouts[id]) \in Nat
    BY <1>3, LayoutFacts DEF BodyOptional
  <2> DEFINE w == Written(id, body)
  <2>2. w \in Seq(OctetStrings) /\ Len(w) >= 1 /\ w[1] = Marshal("string", body[1]) /\ Fits("string", body[1])
    <3>1. 1 \in 1..Len(Layouts[id])
      BY <2>1
    <3>2. DOMAIN body = 1..Len(Layouts[id]) /\ Len(w) = Len(Layouts[id]) /\ w \in Seq(OctetStrings)
          /\ w[1] = Marshal(Layouts[id][1], body[1])
      BY <3>1, WrittenIs
    <3>3. Fits(Layouts[id][1], body[1])
      BY <3>1, <3>2 DEF WholeBody
    <3> QED BY <2>1, <3>2, <3>3
  <2>3. w[1] \in OctetStrings /\ Len(w[1]) >= 1
    <3>1. body[1] \in Seq(1..(Base - 1)) /\ w[1] = body[1] \o <<0>>
      BY <2>2 DEF Fits, Marshal
    <3>2. w[1] \in OctetStrings
      BY <2>2, MarshalIsOctets DEF Kinds
    <3>3. body[1] \in Seq(Int) /\ <<0>> \in Seq(Int)
      <4>1. 1..(Base - 1) \subseteq Int
        BY ConfigFacts
      <4>2. body[1] \in Seq(Int)
        BY <3>1, <4>1, SeqMonotonic
      <4>3. <<0>> \in Seq(Int)
        OBVIOUS
      <4> QED BY <4>2, <4>3
    <3>4. Len(body[1] \o <<0>>) = Len(body[1]) + 1 /\ Len(body[1]) \in Nat
      BY <3>3
    <3> QED BY <3>1, <3>2, <3>4
  <2>4. 0 \in 0..(Len(w) - 1) /\ 0 + 1 = 1
    BY <2>2
  <2> HIDE DEF w
  <2>5. At(FlattenSeq(w), Len(FlattenSeq(SubSeq(w, 1, 0))), w[1])
        /\ FlattenSeq(SubSeq(w, 1, 0)) \in OctetStrings
    BY <2>2, <2>4, FlattenParts DEF OctetStrings
  <2>6. Len(FlattenSeq(SubSeq(w, 1, 0))) \in Nat /\ Len(w[1]) \in Nat
    BY <2>3, <2>5 DEF OctetStrings
  <2>7. Len(FlattenSeq(w)) >= 1
    <3>0. Len(FlattenSeq(w)) \in Nat
      BY <1>1 DEF w
    <3> DEFINE a == Len(FlattenSeq(w))
               c == Len(FlattenSeq(SubSeq(w, 1, 0)))
               d == Len(w[1])
    <3>1. a \in Nat /\ c \in Nat /\ d \in Nat /\ d >= 1 /\ c + d <= a
      BY <2>3, <2>5, <2>6, <3>0 DEF At
    <3> HIDE DEF a, c, d
    <3>2. a >= 1
      BY <3>1
    <3> QED BY <3>2 DEF a
  <2> QED BY <2>7 DEF w
<1>4. ~(BodyOptional(id) /\ Rest(f, r) = 0)
  <2>1. Rest(f, r) = Len(b)
    <3>1. r.pos = HeaderLen
      BY ReaderTakes
    <3> HIDE DEF r, b
    <3> QED BY <1>1, <3>1, ConfigFacts DEF Rest, b
  <2> QED BY <1>3, <2>1
<1>5. DecodeBody(id, f) = Reader(Len(f), body)
  BY <1>2, <1>4 DEF DecodeBody, Reader
<1>6. DecodeBody(id, f).err = "none" /\ DecodeBody(id, f).out = body
  BY <1>5, ReaderTakes
<1>7. ~(Len(f) < HeaderLen)
  <2> HIDE DEF b
  <2> QED BY <1>1, ConfigFacts DEF b
<1> QED BY <1>6, <1>7 DEF Decode

\* Decode of a response without its body.
LEMMA DecodeBare ==
  ASSUME NEW f \in OctetStrings, NEW id \in KnownCommands, Header(f, 2) = id, BodyOptional(id), Len(f) = HeaderLen
  PROVE  Decode(f) = [err |-> "none", pdu |-> PDU(id, Header(f, 3), Header(f, 4), EmptyBody(id))]
<1> DEFINE r == Reader(HeaderLen, <<>>)
<1>1. Rest(f, r) = 0
  BY ReaderTakes, ConfigFacts DEF Rest
<1>2. DecodeBody(id, f) = [r EXCEPT !.out = EmptyBody(id)]
  BY <1>1 DEF DecodeBody, Reader
<1>3. DecodeBody(id, f) = Reader(HeaderLen, EmptyBody(id))
  BY <1>2, ReaderResets
<1>4. DecodeBody(id, f).err = "none" /\ DecodeBody(id, f).out = EmptyBody(id)
  BY <1>3, ReaderTakes
<1>5. ~(Len(f) < HeaderLen)
  BY ConfigFacts
<1> QED BY <1>4, <1>5 DEF Decode

\* Any frame with the octets of a PDU's body after a header that names its command: Decode sees
\* that body, whatever else the header says.
LEMMA DecodeOf ==
  ASSUME NEW p, WellFormed(p), NEW f \in OctetStrings, Header(f, 2) = p.id,
         Len(f) = HeaderLen + Len(FlattenSeq(Written(p.id, p.body))), At(f, HeaderLen, FlattenSeq(Written(p.id, p.body)))
  PROVE  Decode(f) = [err |-> "none", pdu |-> PDU(p.id, Header(f, 3), Header(f, 4), Seen(p).body)]
<1>0. p.id \in KnownCommands /\ p = PDU(p.id, p.status, p.seq, p.body)
  BY DEF WellFormed
<1>1. CASE BodyOptional(p.id) /\ p.body = NoBody
  <2>1. Seen(p).body = EmptyBody(p.id)
    BY <1>0, <1>1 DEF Seen, PDU
  <2>2. FlattenSeq(Written(p.id, p.body)) = <<>>
    BY <1>1, NothingWritten
  <2>3. Len(f) = HeaderLen
    BY <2>2, ConfigFacts
  <2> QED BY <1>0, <1>1, <2>1, <2>3, DecodeBare
<1>2. CASE ~(BodyOptional(p.id) /\ p.body = NoBody)
  <2>1. WholeBody(p.id, p.body) /\ Seen(p) = p
    BY <1>2 DEF WellFormed, WholeBody, Seen
  <2> QED BY <1>0, <2>1, DecodeWhole
<1> QED BY <1>1, <1>2

LEMMA SeenIs ==
  ASSUME NEW p, WellFormed(p)
  PROVE  Seen(p) = PDU(p.id, p.status, p.seq, Seen(p).body)
  BY DEF WellFormed, Seen, PDU

\* Encode and Decode: a PDU that is encoded decodes to itself, as its peer sees it.
LEMMA RoundTrip ==
  ASSUME NEW p, WellFormed(p), Encode(p).err = "none"
  PROVE  Decode(Encode(p).frame) = [err |-> "none", pdu |-> Seen(p)]
<1> DEFINE f == Encode(p).frame
<1>1. /\ f \in OctetStrings /\ Header(f, 2) = p.id /\ Header(f, 3) = p.status /\ Header(f, 4) = p.seq
      /\ Len(f) = HeaderLen + Len(FlattenSeq(Written(p.id, p.body)))
      /\ At(f, HeaderLen, FlattenSeq(Written(p.id, p.body)))
  BY EncodeIs
<1> HIDE DEF f
<1>2. Decode(f) = [err |-> "none", pdu |-> PDU(p.id, Header(f, 3), Header(f, 4), Seen(p).body)]
  BY <1>1, DecodeOf
<1>3. Seen(p) = PDU(p.id, p.status, p.seq, Seen(p).body)
  BY SeenIs
<1> QED BY <1>1, <1>2, <1>3 DEF f

\* What EncodeEdgeCase makes of a PDU's frame, by the kind of malformation.
Words(p, kind) ==
  LET f == Encode(p).frame
  IN  CASE kind = "as_meant" -> f
        [] kind = "bad_length" -> SetHeader(f, 1, Header(f, 1) + HeaderLen)
        [] kind = "unknown_command_id" -> SetHeader(f, 2, unknownCommandID)
        [] kind = "bad_sequence" -> SetHeader(f, 4, Header(f, 4) + Base)

SentKinds == {"as_meant", "bad_length", "unknown_command_id", "bad_sequence"}

\* What a peer sends.
LEMMA ItemIs ==
  ASSUME NEW s \in Scripts, NEW i \in DOMAIN s
  PROVE  /\ s[i].frame \in OctetStrings
         /\ s[i].kind # "raw" => /\ WellFormed(s[i].meant) /\ Encode(s[i].meant).err = "none"
                                 /\ s[i].kind \in SentKinds /\ s[i].frame = Words(s[i].meant, s[i].kind)
<1> DEFINE x == s[i]
           p == x.meant
<1>1. \/ x.kind = "raw" /\ x.frame \in Seq(Octet)
      \/ /\ WellFormed(p) /\ Encode(p).err = "none"
         /\ \/ x = Sends(p)
            \/ \E kind \in {"bad_length", "unknown_command_id", "bad_sequence"} : x = Malforms(p, kind)
  BY ScriptsAreSent
<1> HIDE DEF x, p
<1>2. CASE x.kind = "raw" /\ x.frame \in Seq(Octet)
  BY <1>2 DEF OctetStrings, x
<1>3. CASE /\ WellFormed(p) /\ Encode(p).err = "none"
           /\ \/ x = Sends(p)
              \/ \E kind \in {"bad_length", "unknown_command_id", "bad_sequence"} : x = Malforms(p, kind)
  <2> DEFINE f == Encode(p).frame
  <2>1. f \in OctetStrings /\ Len(f) \in Nat /\ Len(f) >= HeaderLen
    <3>1. f \in OctetStrings /\ Len(f) \in HeaderLen..MaxPDULen
      BY <1>3, EncodeIs
    <3> QED BY <3>1, ConfigFacts
  <2>2. x.kind \in SentKinds /\ x.frame = Words(p, x.kind)
    <3>1. CASE x = Sends(p)
      BY <3>1 DEF Sends, Words, SentKinds
    <3>2. ASSUME NEW kind \in {"bad_length", "unknown_command_id", "bad_sequence"}, x = Malforms(p, kind)
          PROVE  x.kind \in SentKinds /\ x.frame = Words(p, x.kind)
      <4>1. x.kind = kind /\ x.frame = EncodeEdgeCase(p, kind)
        BY <3>2 DEF Malforms
      <4> QED BY <4>1 DEF EncodeEdgeCase, Words, SentKinds, badLengthInflation, badSequenceOffset
    <3> QED BY <1>3, <3>1, <3>2
  <2> HIDE DEF f
  <2>3. /\ Header(f, 1) + HeaderLen \in Nat /\ unknownCommandID \in Nat /\ Header(f, 4) + Base \in Nat
    <3>1. Header(f, 1) \in 0..(Values(Word) - 1) /\ Header(f, 4) \in 0..(Values(Word) - 1)
      <4>1. 1 \in 1..4 /\ 4 \in 1..4
        OBVIOUS
      <4> QED BY <2>1, <4>1, HeaderIsWord
    <3>2. Header(f, 1) \in Nat /\ Header(f, 4) \in Nat
      BY <3>1, CommandIds
    <3>3. unknownCommandID \in Nat
      BY CommandIds
    <3> QED BY <3>2, <3>3, ConfigFacts
  <2>4. x.frame \in OctetStrings
    <3>0. 1 \in 1..4 /\ 2 \in 1..4 /\ 4 \in 1..4
      OBVIOUS
    <3>1. SetHeader(f, 1, Header(f, 1) + HeaderLen) \in OctetStrings
      BY <2>1, <2>3, <3>0, SetHeaderIs
    <3>2. SetHeader(f, 2, unknownCommandID) \in OctetStrings
      BY <2>1, <2>3, <3>0, SetHeaderIs
    <3>3. SetHeader(f, 4, Header(f, 4) + Base) \in OctetStrings
      BY <2>1, <2>3, <3>0, SetHeaderIs
    <3>4. Words(p, x.kind) \in {f, SetHeader(f, 1, Header(f, 1) + HeaderLen), SetHeader(f, 2, unknownCommandID),
                                SetHeader(f, 4, Header(f, 4) + Base)}
      BY <2>2 DEF Words, SentKinds, f
    <3> QED BY <2>1, <2>2, <3>1, <3>2, <3>3, <3>4
  <2> QED BY <1>3, <2>2, <2>4 DEF x, p
<1> QED BY <1>1, <1>2, <1>3
-----------------------------------------------------------------------------
(***************************************************************************)
(* ReadPDU. What has been read is a prefix of the stream, cut into frames: *)
(* each as long as its first word says, which was looked at before more    *)
(* was read.                                                               *)
(***************************************************************************)
\* A frame that was read, with what it decodes to.
Handled(f) == [frame |-> f, decoded |-> Decode(f)]
Handleds == {Handled(f) : f \in OctetStrings}
Frames(g) == [i \in DOMAIN g |-> g[i].frame]

LengthFits(f) == ~(Header(f, 1) < HeaderLen) /\ ~(Header(f, 1) > MaxPDULen)

FrameInv ==
  /\ stream \in OctetStrings /\ pos \in 0..Len(stream) /\ frame \in OctetStrings /\ got \in Seq(Handleds)
  /\ rpc \in {"read", "length", "decode", "rearm", "closed"}
  /\ FlattenSeq(Frames(got)) \o frame = SubSeq(stream, 1, pos)
  /\ reason \in {"client_eof", "idle_timeout"} => frame = <<>> /\ rpc = "closed"
  /\ rpc = "rearm" => frame = <<>>
  /\ rpc = "length" => Len(frame) = Word
  /\ rpc \in {"read", "decode"} /\ Len(frame) >= Word => LengthFits(frame)
  /\ rpc = "decode" => Len(frame) > Word /\ Len(frame) = Header(frame, 1)
  /\ \A i \in DOMAIN got : Len(got[i].frame) \in HeaderLen..MaxPDULen

\* What is read after the first word does not change what it says.
LEMMA LengthStays ==
  ASSUME NEW f \in OctetStrings, NEW o \in Octet, Len(f) >= Word
  PROVE  Header(Append(f, o), 1) = Header(f, 1)
<1>1. Append(f, o) = f \o <<o>> /\ <<o>> \in Seq(Octet)
  BY AppendIsConcat DEF OctetStrings
<1>2. (1 - 1) * Word + 1 = 1 /\ 1 * Word = Word /\ 1 \in 1..Len(f) /\ Word \in 1..Len(f)
  BY ConfigFacts DEF OctetStrings
<1>3. SubSeq(f \o <<o>>, 1, Word) = SubSeq(f, 1, Word)
  BY <1>1, <1>2, SubSeqOfConcat1 DEF OctetStrings
<1> QED BY <1>1, <1>2, <1>3 DEF Header

\* The frames of one more.
LEMMA FramesMore ==
  ASSUME NEW g \in Seq(Handleds), NEW f \in OctetStrings
  PROVE  /\ Append(g, Handled(f)) \in Seq(Handleds)
         /\ Frames(g) \in Seq(OctetStrings) /\ Frames(Append(g, Handled(f))) = Append(Frames(g), f)
<1> DEFINE h == Handled(f)
<1>1. h \in Handleds /\ h.frame = f /\ \A x \in Handleds : x.frame \in OctetStrings
  BY DEF Handleds, Handled
<1> HIDE DEF h
<1>2. Append(g, h) \in Seq(Handleds) /\ Len(Append(g, h)) = Len(g) + 1 /\ DOMAIN g = 1..Len(g)
      /\ DOMAIN Append(g, h) = 1..(Len(g) + 1) /\ Len(g) \in Nat
  BY <1>1
<1>3. \A i \in 1..Len(g) : g[i] \in Handleds /\ g[i].frame \in OctetStrings
  BY <1>1
<1>4. Frames(g) = [i \in 1..Len(g) |-> g[i].frame]
  BY <1>2 DEF Frames
<1>5. Frames(g) \in Seq(OctetStrings) /\ Len(Frames(g)) = Len(g) /\ \A i \in 1..Len(g) : Frames(g)[i] = g[i].frame
  BY <1>2, <1>3, <1>4
<1>6. Frames(Append(g, h)) = [i \in 1..(Len(g) + 1) |-> Append(g, h)[i].frame]
  BY <1>2 DEF Frames
<1>7. \A i \in 1..(Len(g) + 1) : Append(g, h)[i].frame = IF i = Len(g) + 1 THEN f ELSE g[i].frame
  BY <1>1, <1>2
<1>8. Frames(Append(g, h)) = Append(Frames(g), f)
  <2>1. Append(Frames(g), f) \in Seq(OctetStrings) /\ Len(Append(Frames(g), f)) = Len(g) + 1
        /\ \A i \in 1..(Len(g) + 1) : Append(Frames(g), f)[i] = IF i = Len(g) + 1 THEN f ELSE g[i].frame
    <3> HIDE DEF Frames, OctetStrings
    <3> QED BY <1>2, <1>5
  <2>2. /\ Frames(Append(g, h)) \in Seq(OctetStrings) /\ Len(Frames(Append(g, h))) = Len(g) + 1
        /\ \A i \in 1..(Len(g) + 1) : Frames(Append(g, h))[i] = IF i = Len(g) + 1 THEN f ELSE g[i].frame
    <3> HIDE DEF Frames, OctetStrings
    <3> QED BY <1>2, <1>3, <1>6, <1>7
  <2> HIDE DEF Frames, OctetStrings
  <2> QED BY <2>1, <2>2, SeqEqual
<1> QED BY <1>2, <1>5, <1>8 DEF h

LEMMA FrameInit == Init => FrameInv
<1> SUFFICES ASSUME Init PROVE FrameInv
  OBVIOUS
<1> DEFINE s == [i \in DOMAIN script |-> script[i].frame]
<1>1. Len(script) \in Nat /\ DOMAIN script = 1..Len(script) /\ \A i \in DOMAIN script : script[i].frame \in OctetStrings
  <2>1. script \in Scripts
    BY DEF Init
  <2> QED BY <2>1, ScriptsAreSent, ItemIs
<1>2. s \in Seq(OctetStrings)
  <2> HIDE DEF OctetStrings
  <2> QED BY <1>1
<1>3. FlattenSeq(s) \in OctetStrings
  <2> HIDE DEF s
  <2> QED BY <1>2, FlattenIsSeq DEF OctetStrings
<1>4. stream \in OctetStrings /\ pos = 0 /\ frame = <<>> /\ got = <<>> /\ rpc = "read" /\ reason = "none"
  BY <1>3 DEF Init
<1>5. FlattenSeq(Frames(got)) = <<>>
  <2>1. Frames(<<>>) = <<>> /\ <<>> \in Seq({}) /\ Len(<<>>) = 0
    BY DEF Frames
  <2> QED BY <1>4, <2>1, FlattenNothing
<1>6. SubSeq(stream, 1, pos) = <<>>
  BY <1>4, SubSeqEmpty DEF OctetStrings
<1>7. pos \in 0..Len(stream) /\ frame \in OctetStrings /\ got \in Seq(Handleds) /\ DOMAIN got = {}
  BY <1>4 DEF OctetStrings
<1>8. FlattenSeq(Frames(got)) \o frame = SubSeq(stream, 1, pos)
  <2>1. <<>> \o <<>> = <<>>
    OBVIOUS
  <2> QED BY <1>4, <1>5, <1>6, <2>1
<1>9. ~(Len(frame) >= Word)
  BY <1>4, ConfigFacts
<1> QED BY <1>4, <1>7, <1>8, <1>9 DEF FrameInv

\* A read that fails with the end of the input or with a timeout took nothing.
LEMMA NothingCut ==
  ASSUME NEW err \in {"EOF", "reset", "timeout"}, frame # <<>>
  PROVE  ReadPDUError(err) \in {"ErrUnexpectedEOF", "ErrPartialFrame"}
  BY DEF ReadPDUError, Partial

LEMMA FrameNext == FrameInv /\ [Next]_vars => FrameInv'
<1> SUFFICES ASSUME FrameInv, [Next]_vars PROVE FrameInv'
  OBVIOUS
<1>0. stream \in OctetStrings /\ pos \in 0..Len(stream) /\ frame \in OctetStrings /\ got \in Seq(Handleds)
      /\ Len(stream) \in Nat /\ Len(frame) \in Nat
  BY DEF FrameInv, OctetStrings
<1>1. CASE ReadOctet
  <2> DEFINE o == stream[pos + 1]
             f == Append(frame, o)
  <2>1. rpc = "read" /\ pos + 1 \in 1..Len(stream) /\ pos' = pos + 1 /\ frame' = f /\ o \in Octet
        /\ UNCHANGED <<stream, got, reason>>
    BY <1>0, <1>1 DEF ReadOctet, OctetStrings
  <2>2. f \in OctetStrings /\ Len(f) = Len(frame) + 1 /\ f # <<>>
    <3> HIDE DEF o
    <3> QED BY <1>0, <2>1, AppendProperties DEF OctetStrings
  <2>3. FlattenSeq(Frames(got)) \o f = SubSeq(stream, 1, pos + 1)
    <3> DEFINE g == FlattenSeq(Frames(got))
    <3>1. g \in Seq(Octet)
      <4>1. Frames(got) \in Seq(Seq(Octet))
        BY <1>0, FramesMore DEF OctetStrings
      <4> QED BY <4>1, FlattenIsSeq
    <3> HIDE DEF g, o
    <3>2. f = frame \o <<o>> /\ <<o>> \in Seq(Octet) /\ frame \in Seq(Octet) /\ stream \in Seq(Octet)
      BY <1>0, <2>1, AppendIsConcat DEF OctetStrings
    <3>3. g \o f = (g \o frame) \o <<o>>
      BY <3>1, <3>2, ConcatAssociative
    <3>4. g \o frame = SubSeq(stream, 1, pos)
      BY DEF FrameInv, g
    <3>5. 1 \in 1..Len(stream) /\ pos + 1 \in 1..Len(stream) /\ (pos + 1) - 1 = pos
      BY <1>0, <2>1
    <3>6. SubSeq(stream, 1, pos + 1) = SubSeq(stream, 1, pos) \o <<o>>
      BY <3>2, <3>5, SubSeqRecursiveSecond DEF o
    <3> QED BY <3>3, <3>4, <3>6 DEF g
  <2>4. rpc' \in {"read", "length", "decode"} /\ (rpc' = "length" <=> Len(f) = Word)
        /\ (rpc' = "decode" => Len(f) > Word /\ Len(f) = Header(f, 1))
    BY <1>1, <2>1 DEF ReadOctet
  <2>5. rpc' \in {"read", "decode"} /\ Len(f) >= Word => LengthFits(f)
    <3> SUFFICES ASSUME rpc' \in {"read", "decode"}, Len(f) >= Word PROVE LengthFits(f)
      OBVIOUS
    <3>1. Len(frame) >= Word
      BY <1>0, <2>2, <2>4, ConfigFacts
    <3>2. Header(f, 1) = Header(frame, 1)
      BY <1>0, <2>1, <3>1, LengthStays
    <3>3. LengthFits(frame)
      BY <2>1, <3>1 DEF FrameInv
    <3> QED BY <3>2, <3>3 DEF LengthFits
  <2>6. pos' \in 0..Len(stream) /\ reason \notin {"client_eof", "idle_timeout"}
    BY <1>0, <2>1 DEF FrameInv
  <2>7. \A i \in DOMAIN got : Len(got[i].frame) \in HeaderLen..MaxPDULen
    BY DEF FrameInv
  <2> HIDE DEF f
  <2> QED BY <1>0, <2>1, <2>2, <2>3, <2>4, <2>5, <2>6, <2>7 DEF FrameInv
<1>2. CASE ReadLength
  <2>1. rpc = "length" /\ UNCHANGED <<stream, pos, frame, got>>
    BY <1>2 DEF ReadLength
  <2>2. \/ rpc' = "closed" /\ reason' = "protocol_error"
        \/ rpc' = "read" /\ LengthFits(frame) /\ reason' = reason
    BY <1>2 DEF ReadLength, CloseWith, LengthFits
  <2>3. reason \notin {"client_eof", "idle_timeout"}
    BY <2>1 DEF FrameInv
  <2> QED BY <2>1, <2>2, <2>3 DEF FrameInv
<1>3. CASE ReadFails
  <2>1. rpc = "read" /\ UNCHANGED <<stream, pos, frame, got>> /\ reason \notin {"client_eof", "idle_timeout"}
    BY <1>3 DEF ReadFails, FrameInv
  <2>2. PICK cause \in {"EOF", "reset", "timeout"}, late \in BOOLEAN :
          IF ReadPDUError(cause) = "timeout"
          THEN CloseWith("idle_timeout") \/ (rpc' = "rearm" /\ UNCHANGED reason)
          ELSE CloseWith(ReadFailure(ReadPDUError(cause), late))
    BY <1>3 DEF ReadFails
  <2>3. frame # <<>> => ReadPDUError(cause) \in {"ErrUnexpectedEOF", "ErrPartialFrame"}
    BY NothingCut
  <2>4. \/ rpc' = "rearm" /\ reason' = reason /\ frame = <<>>
        \/ rpc' = "closed" /\ (reason' \in {"client_eof", "idle_timeout"} => frame = <<>>)
    BY <2>2, <2>3 DEF CloseWith, ReadFailure
  <2> QED BY <2>1, <2>4 DEF FrameInv
<1>4. CASE Rearm
  <2>1. rpc = "rearm" /\ rpc' = "read" /\ frame' = <<>> /\ UNCHANGED <<stream, pos, got, reason>> /\ frame = <<>>
    BY <1>4 DEF Rearm, FrameInv
  <2>2. ~(Len(<<>>) >= Word) /\ reason \notin {"client_eof", "idle_timeout"}
    BY <2>1, ConfigFacts DEF FrameInv
  <2> QED BY <2>1, <2>2 DEF FrameInv
<1>5. CASE HandleFrame
  <2>1. rpc = "decode" /\ got' = Append(got, Handled(frame)) /\ frame' = <<>> /\ rpc' = "read"
        /\ UNCHANGED <<stream, pos, reason>>
    BY <1>5 DEF HandleFrame, Handled
  <2>2. got' \in Seq(Handleds) /\ Frames(got) \in Seq(OctetStrings) /\ Frames(got') = Append(Frames(got), frame)
    BY <1>0, <2>1, FramesMore
  <2>3. FlattenSeq(Frames(got')) = SubSeq(stream, 1, pos)
    <3>1. FlattenSeq(Frames(got')) = FlattenSeq(Frames(got)) \o frame
      BY <1>0, <2>2, FlattenMore DEF OctetStrings
    <3> QED BY <3>1 DEF FrameInv
  <2>4. FlattenSeq(Frames(got')) \o <<>> = FlattenSeq(Frames(got'))
    <3>1. FlattenSeq(Frames(got')) \in Seq(Octet)
      <4>1. Frames(got') \in Seq(Seq(Octet))
        BY <1>0, <2>2, AppendProperties DEF OctetStrings
      <4> QED BY <4>1, FlattenIsSeq
    <3> QED BY <3>1, ConcatEmptySeq
  <2>5. Len(frame) \in HeaderLen..MaxPDULen
    <3>1. LengthFits(frame) /\ Len(frame) = Header(frame, 1)
      BY <1>0, <2>1, ConfigFacts DEF FrameInv
    <3> QED BY <1>0, <3>1, ConfigFacts DEF LengthFits
  <2>6. ASSUME NEW i \in DOMAIN got' PROVE Len(got'[i].frame) \in HeaderLen..MaxPDULen
    <3>1. DOMAIN got' = 1..(Len(got) + 1) /\ DOMAIN got = 1..Len(got) /\ Len(got) \in Nat
          /\ (\A j \in 1..Len(got) : got'[j] = got[j]) /\ got'[Len(got) + 1] = Handled(frame)
      <4>1. Handled(frame) \in Handleds
        BY <1>0 DEF Handleds
      <4> QED BY <1>0, <2>1, <4>1
    <3>2. CASE i \in 1..Len(got)
      BY <3>1, <3>2 DEF FrameInv
    <3>3. CASE i = Len(got) + 1
      BY <3>1, <3>3, <2>5 DEF Handled
    <3> QED BY <3>1, <3>2, <3>3
  <2>7. ~(Len(<<>>) >= Word) /\ reason \notin {"client_eof", "idle_timeout"} /\ <<>> \in OctetStrings
    BY <2>1, ConfigFacts DEF FrameInv, OctetStrings
  <2> QED BY <1>0, <2>1, <2>2, <2>3, <2>4, <2>6, <2>7 DEF FrameInv
<1>6. CASE UNCHANGED vars
  BY <1>6 DEF vars, FrameInv
<1> QED BY <1>1, <1>2, <1>3, <1>4, <1>5, <1>6 DEF Next

\* readLoop and ReadPDU, however the octets arrive, for every cap: the frames read and the part
\* held are the octets taken, a close for an end of input or for silence cuts no frame, and no
\* frame is longer than the cap.
THEOREM NoOctetIsLost == Spec => []NoOctetLost
<1>1. FrameInv => NoOctetLost
  BY DEF FrameInv, NoOctetLost, Frames
<1> QED BY <1>1, FrameInit, FrameNext, PTL DEF Spec
-----------------------------------------------------------------------------
(***************************************************************************)
(* Decoding. A field that is read without an error fits, and takes as many *)
(* octets as it would be written with.                                     *)
(***************************************************************************)
BodyErrors == {"ErrUnterminated", "ErrTruncated", "ErrBadShortMessage", "ErrTooManyTLVs"}

\* What reading a field at q may come to: an error, or a value that fits.
ReadsAs(f, q, out, kind, r) ==
  \/ r.err \in BodyErrors
  \/ \E v : /\ Fits(kind, v) /\ q + Len(Marshal(kind, v)) <= Len(f)
            /\ r = Reader(q + Len(Marshal(kind, v)), Append(out, v))

LEMMA ReaderFails ==
  ASSUME NEW p, NEW out, NEW e
  PROVE  Fails(Reader(p, out), e).err = e
  BY DEF Fails, Reader

LEMMA StringReads ==
  ASSUME NEW f \in OctetStrings, NEW q \in 0..Len(f), NEW out
  PROVE  ReadsAs(f, q, out, "string", ReadCOctetString(f, Reader(q, out)))
<1> DEFINE r == Reader(q, out)
           top == Min({Len(f), q + maxCOctetLen})
           ends == {i \in (q + 1)..top : f[i] = 0}
<1>0. Len(f) \in Nat /\ q \in Nat /\ q <= Len(f) /\ maxCOctetLen \in Nat
  BY CodecConfig DEF OctetStrings
<1>00. r.pos = q
  BY ReaderTakes
<1>1. top \in Int /\ top <= Len(f) /\ top <= q + maxCOctetLen
  <2>1. q + maxCOctetLen \in Int
    BY <1>0
  <2>2. top = IF Len(f) <= q + maxCOctetLen THEN Len(f) ELSE q + maxCOctetLen
    BY <1>0, <2>1, MinOfTwo
  <2> QED BY <1>0, <2>1, <2>2
<1> HIDE DEF r
<1>2. CASE ends = {}
  <2>1. ReadCOctetString(f, r) = Fails(r, "ErrUnterminated")
    BY <1>2, <1>00 DEF ReadCOctetString
  <2>2. ReadCOctetString(f, r).err = "ErrUnterminated"
    BY <2>1, ReaderFails DEF r
  <2> QED BY <2>2 DEF ReadsAs, BodyErrors, r
<1>3. CASE ends # {}
  <2> HIDE DEF top
  <2>1. ends \subseteq Nat
    BY <1>0, <1>1
  <2>2. PICK e \in ends : \A y \in ends : e <= y
    <3> HIDE DEF ends
    <3> QED BY <1>3, <2>1, LeastNatural
  <2>3. Min(ends) = e
    <3> HIDE DEF ends
    <3>1. ends \subseteq Int
      BY <2>1
    <3> QED BY <2>2, <3>1, MinIs
  <2>4. e \in (q + 1)..top /\ f[e] = 0 /\ e \in Nat
    BY <2>1
  <2> DEFINE n == e - 1 - q
             v == SubSeq(f, q + 1, e - 1)
  <2>5. n \in Nat /\ n < maxCOctetLen /\ q + n = e - 1 /\ q + n <= Len(f) /\ e - q = n + 1 /\ q + (n + 1) <= Len(f)
    BY <1>0, <1>1, <2>4
  <2>6. v \in OctetStrings /\ Len(v) = n /\ \A i \in 1..n : v[i] = f[q + i]
    <3> HIDE DEF n
    <3>1. v = SubSeq(f, q + 1, q + n)
      BY <2>5
    <3> HIDE DEF v
    <3>2. n \in Nat /\ q \in Nat /\ q + n <= Len(f)
      BY <1>0, <2>5
    <3> QED BY <3>1, <3>2, CutIs
  <2> HIDE DEF v
  <2>7. ASSUME NEW i \in 1..n PROVE v[i] \in 1..(Base - 1)
    <3>1. q + i \in (q + 1)..top /\ q + i < e /\ q + i \in 1..Len(f)
      BY <1>0, <1>1, <2>4
    <3>2. q + i \notin ends
      BY <2>1, <2>2, <2>4, <3>1
    <3>3. f[q + i] # 0
      BY <3>1, <3>2
    <3>4. f[q + i] \in Octet
      BY <3>1 DEF OctetStrings
    <3> QED BY <2>6, <3>3, <3>4, ConfigFacts DEF Octet
  <2> HIDE DEF n
  <2>8. v \in Seq(1..(Base - 1))
    <3> DEFINE B == 1..(Base - 1)
    <3>1. v \in [1..n -> B]
      <4>1. DOMAIN v = 1..n /\ v = [i \in DOMAIN v |-> v[i]]
        BY <2>6 DEF OctetStrings
      <4> QED BY <2>7, <4>1
    <3>2. n \in Nat
      BY <2>5
    <3> HIDE DEF B
    <3>3. v \in Seq(B)
      BY <3>1, <3>2
    <3> QED BY <3>3 DEF B
  <2>9. Fits("string", v)
    BY <2>5, <2>6, <2>8 DEF Fits
  <2>10. Len(Marshal("string", v)) = n + 1
    <3>1. Marshal("string", v) = v \o <<0>>
      BY DEF Marshal
    <3>2. v \in Seq(Int) /\ <<0>> \in Seq(Int)
      <4>1. 1..(Base - 1) \subseteq Int
        BY ConfigFacts
      <4>2. v \in Seq(Int)
        BY <2>8, <4>1, SeqMonotonic
      <4>3. <<0>> \in Seq(Int)
        OBVIOUS
      <4> QED BY <4>2, <4>3
    <3>3. Len(v \o <<0>>) = Len(v) + 1
      BY <3>2
    <3> QED BY <2>6, <3>1, <3>3
  <2>11. ReadCOctetString(f, r) = Takes(r, n + 1, v)
    <3>1. ReadCOctetString(f, r) = Takes(r, Min(ends) - q, SubSeq(f, q + 1, Min(ends) - 1))
      BY <1>00, <1>3 DEF ReadCOctetString, top
    <3> HIDE DEF ends
    <3> QED BY <2>3, <2>5, <3>1 DEF v
  <2>12. ReadCOctetString(f, r) = Reader(q + (n + 1), Append(out, v))
    BY <2>11, ReaderTakes DEF r
  <2> QED BY <2>5, <2>9, <2>10, <2>12 DEF ReadsAs, r
<1> QED BY <1>2, <1>3

LEMMA ByteReads ==
  ASSUME NEW f \in OctetStrings, NEW q \in 0..Len(f), NEW out
  PROVE  ReadsAs(f, q, out, "octet", ReadByte(f, Reader(q, out)))
<1> DEFINE r == Reader(q, out)
           v == f[q + 1]
<1>0. Len(f) \in Nat /\ q \in Nat /\ r.pos = q
  BY ReaderTakes DEF OctetStrings
<1> HIDE DEF r
<1>1. CASE Len(f) - q < 1
  <2>1. ReadByte(f, r) = Fails(r, "ErrTruncated")
    BY <1>0, <1>1 DEF ReadByte, Rest
  <2>2. ReadByte(f, r).err = "ErrTruncated"
    BY <2>1, ReaderFails DEF r
  <2> QED BY <2>2 DEF ReadsAs, BodyErrors, r
<1>2. CASE ~(Len(f) - q < 1)
  <2>1. q + 1 \in 1..Len(f) /\ q + 1 <= Len(f)
    BY <1>0, <1>2
  <2>2. v \in Octet
    BY <2>1 DEF OctetStrings
  <2> HIDE DEF v
  <2>3. Fits("octet", v) /\ Marshal("octet", v) = <<v>> /\ Len(<<v>>) = 1
    BY <2>2 DEF Fits, Marshal
  <2>4. ReadByte(f, r) = Takes(r, 1, v)
    BY <1>0, <1>2 DEF ReadByte, Rest, v
  <2>5. ReadByte(f, r) = Reader(q + 1, Append(out, v))
    BY <2>4, ReaderTakes DEF r
  <2> QED BY <2>1, <2>3, <2>5 DEF ReadsAs, r
<1> QED BY <1>1, <1>2

LEMMA MessageReads ==
  ASSUME NEW f \in OctetStrings, NEW q \in 0..Len(f), NEW out
  PROVE  ReadsAs(f, q, out, "message", ReadShortMessage(f, Reader(q, out)))
<1> DEFINE r == Reader(q, out)
           n == f[q + 1]
           v == SubSeq(f, q + 2, q + 1 + n)
<1>0. Len(f) \in Nat /\ q \in Nat /\ r.pos = q
  BY ReaderTakes DEF OctetStrings
<1>00. maxShortMessageLen = Base - 2 /\ maxShortMessageLen \in Nat
  BY ConfigFacts DEF maxShortMessageLen
<1> HIDE DEF r
<1>1. CASE Len(f) - q < 1
  <2>1. ReadShortMessage(f, r) = Fails(r, "ErrTruncated")
    BY <1>0, <1>1 DEF ReadShortMessage, Rest
  <2>2. ReadShortMessage(f, r).err = "ErrTruncated"
    BY <2>1, ReaderFails DEF r
  <2> QED BY <2>2 DEF ReadsAs, BodyErrors, r
<1>2. CASE ~(Len(f) - q < 1)
  <2>1. q + 1 \in 1..Len(f) /\ q + 1 <= Len(f)
    BY <1>0, <1>2
  <2>2. n \in Nat
    BY <2>1, ConfigFacts DEF OctetStrings, Octet
  <2> HIDE DEF v
  <2>3. ReadShortMessage(f, r) = IF n > maxShortMessageLen THEN Fails(r, "ErrBadShortMessage")
                                 ELSE IF Len(f) - q < 1 + n THEN Fails(r, "ErrTruncated")
                                 ELSE Takes(r, 1 + n, v)
    BY <1>0, <1>2 DEF ReadShortMessage, Rest, v
  <2> HIDE DEF n
  <2>4. CASE n > maxShortMessageLen
    <3>1. ReadShortMessage(f, r).err = "ErrBadShortMessage"
      BY <2>3, <2>4, ReaderFails DEF r
    <3> QED BY <3>1 DEF ReadsAs, BodyErrors, r
  <2>5. CASE ~(n > maxShortMessageLen) /\ Len(f) - q < 1 + n
    <3>1. ReadShortMessage(f, r).err = "ErrTruncated"
      BY <2>3, <2>5, ReaderFails DEF r
    <3> QED BY <3>1 DEF ReadsAs, BodyErrors, r
  <2>6. CASE ~(n > maxShortMessageLen) /\ ~(Len(f) - q < 1 + n)
    <3>1. q + 1 \in Nat /\ (q + 1) + n <= Len(f) /\ (q + 1) + 1 = q + 2 /\ q + (1 + n) <= Len(f) /\ n <= maxShortMessageLen
      BY <1>0, <1>00, <2>2, <2>6
    <3>2. v \in OctetStrings /\ Len(v) = n
      <4>1. v = SubSeq(f, (q + 1) + 1, (q + 1) + n)
        BY <3>1 DEF v
      <4> HIDE DEF v
      <4> QED BY <2>2, <3>1, <4>1, CutIs
    <3> HIDE DEF v
    <3>3. Fits("message", v)
      BY <3>1, <3>2 DEF Fits, OctetStrings
    <3>4. Len(Marshal("message", v)) = 1 + n
      <4>1. Min({Len(v), maxShortMessageLen}) = Len(v)
        BY <1>00, <2>2, <3>1, <3>2, MinOfTwo
      <4>2. SubSeq(v, 1, Len(v)) = v
        BY <3>2, SubSeqFull DEF OctetStrings
      <4>3. Marshal("message", v) = <<Len(v)>> \o v
        BY <4>1, <4>2 DEF Marshal
      <4>4. <<Len(v)>> \in Seq(Octet) /\ Len(<<Len(v)>>) = 1
        <5>1. Len(v) \in Octet
          BY <1>00, <2>2, <3>1, <3>2, ConfigFacts DEF Octet
        <5> QED BY <5>1
      <4>5. Len(<<Len(v)>> \o v) = 1 + Len(v)
        BY <3>2, <4>4, ConcatProperties DEF OctetStrings
      <4> QED BY <3>2, <4>3, <4>5
    <3>5. ReadShortMessage(f, r) = Takes(r, 1 + n, v)
      BY <2>3, <2>6
    <3>6. ReadShortMessage(f, r) = Reader(q + (1 + n), Append(out, v))
      BY <3>5, ReaderTakes DEF r
    <3> QED BY <3>1, <3>3, <3>4, <3>6 DEF ReadsAs, r
  <2> QED BY <2>4, <2>5, <2>6
<1> QED BY <1>1, <1>2

\* One turn of reader.tlvs fails, finds nothing left, or reads a parameter.
LEMMA TLVReads ==
  ASSUME NEW f \in OctetStrings, NEW q \in 0..Len(f), NEW out \in Seq(Parameters), Len(out) <= maxTLVs
  PROVE  \/ ReadTLV(f, Reader(q, out)).err \in BodyErrors
         \/ ReadTLV(f, Reader(q, out)) = Reader(q, out)
         \/ \E x \in Parameters : /\ Len(out) < maxTLVs /\ q + Len(MarshalTLV(x)) <= Len(f)
                                  /\ ReadTLV(f, Reader(q, out)) = Reader(q + Len(MarshalTLV(x)), Append(out, x))
<1> DEFINE r == Reader(q, out)
           n == Number(SubSeq(f, q + Half + 1, q + Word))
           tag == Number(SubSeq(f, q + 1, q + Half))
           value == SubSeq(f, q + Word + 1, q + Word + n)
           x == [tag |-> tag, value |-> value]
<1>0. Len(f) \in Nat /\ q \in Nat /\ Len(out) \in Nat /\ maxTLVs \in Nat
  BY CodecConfig DEF OctetStrings
<1>1. r.pos = q /\ r.err = "none" /\ r.out = out
  BY ReaderTakes
<1> HIDE DEF r, n, tag, value, x
<1>2. ReadTLV(f, r) = IF Len(f) - q = 0 THEN r
                      ELSE IF Len(f) - q < Word THEN Fails(r, "ErrTruncated")
                      ELSE IF Len(out) = maxTLVs THEN Fails(r, "ErrTooManyTLVs")
                      ELSE IF Len(f) - q < Word + n THEN Fails(r, "ErrTruncated")
                      ELSE Takes(r, Word + n, x)
  <2>1. Number(SubSeq(f, r.pos + Half + 1, r.pos + Word)) = n
    BY <1>1 DEF n
  <2>2. [tag |-> Number(Octets(f, r, Half)), value |-> SubSeq(f, r.pos + Word + 1, r.pos + Word + n)] = x
    BY <1>1 DEF x, tag, value, Octets
  <2>3. Rest(f, r) = Len(f) - q
    BY <1>1 DEF Rest
  <2> HIDE DEF Half, Rest, Octets
  <2>4. ReadTLV(f, r) = IF Rest(f, r) = 0 THEN r
                        ELSE IF Rest(f, r) < Word THEN Fails(r, "ErrTruncated")
                        ELSE IF Len(out) = maxTLVs THEN Fails(r, "ErrTooManyTLVs")
                        ELSE IF Rest(f, r) < Word + n THEN Fails(r, "ErrTruncated")
                        ELSE Takes(r, Word + n, [tag |-> Number(Octets(f, r, Half)),
                                                 value |-> SubSeq(f, r.pos + Word + 1, r.pos + Word + n)])
    BY <1>1, <2>1 DEF ReadTLV, Half
  <2> QED BY <2>2, <2>3, <2>4
<1>3. Fails(r, "ErrTruncated").err \in BodyErrors /\ Fails(r, "ErrTooManyTLVs").err \in BodyErrors
  BY ReaderFails DEF r, BodyErrors
<1>4. CASE Len(f) - q = 0 \/ Len(f) - q < Word \/ Len(out) = maxTLVs \/ Len(f) - q < Word + n
  BY <1>2, <1>3, <1>4 DEF r
<1>5. CASE ~(Len(f) - q = 0) /\ ~(Len(f) - q < Word) /\ ~(Len(out) = maxTLVs) /\ ~(Len(f) - q < Word + n)
  <2>1. ReadTLV(f, r) = Takes(r, Word + n, x)
    BY <1>2, <1>5
  <2>2. n \in 0..(Values(Half) - 1)
    <3> DEFINE w == SubSeq(f, q + Half + 1, q + Word)
    <3>1. q + Half \in Nat /\ (q + Half) + Half = q + Word /\ (q + Half) + Half <= Len(f) /\ Half \in Nat
      BY <1>0, <1>5, HalfWord, ConfigFacts
    <3>2. SubSeq(f, (q + Half) + 1, (q + Half) + Half) = w
      BY <3>1
    <3> HIDE DEF w
    <3>3. w \in OctetStrings /\ Len(w) = Half
      BY <3>1, <3>2, CutIs
    <3>4. Number(w) \in 0..(Values(Half) - 1)
      BY <3>3, NumberFits
    <3> QED BY <3>4 DEF n, w
  <2>3. tag \in 0..(Values(Half) - 1)
    <3> DEFINE w == SubSeq(f, q + 1, q + Half)
    <3>1. q + Half <= Len(f) /\ Half \in Nat
      BY <1>0, <1>5, HalfWord, ConfigFacts
    <3>2. w \in OctetStrings /\ Len(w) = Half
      BY <1>0, <3>1, CutIs
    <3> HIDE DEF w
    <3>3. Number(w) \in 0..(Values(Half) - 1)
      BY <3>2, NumberFits
    <3> QED BY <3>3 DEF tag, w
  <2>4. n \in Nat /\ n < Values(Half)
    BY <2>2, HalfWord
  <2>5. q + (Word + n) <= Len(f) /\ (q + Word) + n <= Len(f) /\ q + Word \in Nat
    BY <1>0, <1>5, <2>4, ConfigFacts
  <2>6. value \in OctetStrings /\ Len(value) = n
    BY <2>4, <2>5, CutIs DEF value
  <2>7. x \in Parameters /\ x.value = value
    BY <2>3, <2>4, <2>6 DEF Parameters, x
  <2>8. Len(MarshalTLV(x)) = Word + n
    BY <2>6, <2>7, ParameterFacts
  <2>9. ReadTLV(f, r) = Reader(q + (Word + n), Append(out, x))
    BY <2>1, ReaderTakes DEF r
  <2>10. Len(out) < maxTLVs
    BY <1>0, <1>5
  <2> QED BY <2>5, <2>7, <2>8, <2>9, <2>10 DEF r
<1> QED BY <1>4, <1>5

\* The parameters of one more.
LEMMA TLVsMore ==
  ASSUME NEW v \in Seq(Parameters), NEW x \in Parameters
  PROVE  /\ Append(v, x) \in Seq(Parameters) /\ Len(Append(v, x)) = Len(v) + 1
         /\ Len(Marshal("tlvs", v)) \in Nat
         /\ Len(Marshal("tlvs", Append(v, x))) = Len(Marshal("tlvs", v)) + Len(MarshalTLV(x))
<1> DEFINE u == Append(v, x)
           n == Len(v)
           y == MarshalTLV(x)
           a == MarshalTLVs(v)
           b == MarshalTLVs(u)
<1>1. u \in Seq(Parameters) /\ Len(u) = n + 1 /\ u[n + 1] = x /\ n \in Nat /\ \A i \in 1..n : u[i] = v[i]
  BY AppendProperties
<1>2. y \in OctetStrings
  BY ParameterFacts
<1>3. Marshal("tlvs", v) = FlattenSeq(a) /\ a \in Seq(OctetStrings) /\ Len(a) = n /\ FlattenSeq(a) \in OctetStrings
      /\ \A i \in 1..n : a[i] = MarshalTLV(v[i])
  BY MarshalTLVsAre
<1> HIDE DEF u, a, b, n
<1>4. Marshal("tlvs", u) = FlattenSeq(b) /\ b \in Seq(OctetStrings) /\ Len(b) = n + 1
      /\ \A i \in 1..(n + 1) : b[i] = MarshalTLV(u[i])
  BY <1>1, MarshalTLVsAre DEF b
<1> HIDE DEF y
<1>5. b = Append(a, y)
  <2>1. Append(a, y) \in Seq(OctetStrings) /\ Len(Append(a, y)) = n + 1 /\ Append(a, y)[n + 1] = y
        /\ \A i \in 1..n : Append(a, y)[i] = a[i]
    <3> HIDE DEF OctetStrings
    <3> QED BY <1>1, <1>2, <1>3, AppendProperties
  <2>2. \A i \in 1..(n + 1) : b[i] = Append(a, y)[i]
    <3> SUFFICES ASSUME NEW i \in 1..(n + 1) PROVE b[i] = Append(a, y)[i]
      OBVIOUS
    <3>1. CASE i = n + 1
      BY <1>1, <1>4, <2>1, <3>1 DEF y
    <3>2. CASE i \in 1..n
      BY <1>1, <1>3, <1>4, <2>1, <3>2
    <3>3. n \in Nat
      BY <1>1
    <3>4. i = n + 1 \/ i \in 1..n
      BY <3>3
    <3> QED BY <3>1, <3>2, <3>4
  <2> HIDE DEF OctetStrings
  <2> QED BY <1>4, <2>1, <2>2, SeqEqual
<1>6. FlattenSeq(b) = FlattenSeq(a) \o y
  BY <1>2, <1>3, <1>5, FlattenMore DEF OctetStrings
<1> DEFINE z == FlattenSeq(a)
<1> HIDE DEF z
<1>7. z \in OctetStrings /\ Marshal("tlvs", v) = z /\ Marshal("tlvs", u) = z \o y
  BY <1>3, <1>4, <1>6 DEF z
<1>8. Len(z \o y) = Len(z) + Len(y) /\ Len(z) \in Nat
  BY <1>2, <1>7, ConcatProperties DEF OctetStrings
<1> QED BY <1>1, <1>7, <1>8 DEF u, n, y

\* reader.tlvs after any number of turns.
TurnsAs(f, q, r) ==
  \/ r.err \in BodyErrors
  \/ \E v \in Seq(Parameters) : /\ Len(v) <= maxTLVs /\ q + Len(Marshal("tlvs", v)) <= Len(f)
                                /\ r = Reader(q + Len(Marshal("tlvs", v)), v)

LEMMA TurnsStart ==
  ASSUME NEW f \in OctetStrings, NEW q \in 0..Len(f), NEW out
  PROVE  TurnsAs(f, q, TLVTurns(f, Reader(q, out), 0))
<1>1. TLVTurns(f, Reader(q, out), 0) = Reader(q, <<>>)
  BY NoTurn, ReaderResets
<1>2. <<>> \in Seq(Parameters) /\ Len(<<>>) = 0 /\ maxTLVs \in Nat
  BY CodecConfig
<1>3. Marshal("tlvs", <<>>) = <<>>
  <2>1. MarshalTLVs(<<>>) = <<>> /\ <<>> \in Seq({})
    BY DEF MarshalTLVs
  <2>2. FlattenSeq(<<>>) = <<>>
    BY <1>2, <2>1, FlattenNothing
  <2> QED BY <1>2, <2>1, <2>2, MarshalTLVsAre
<1>4. q + 0 = q /\ q <= Len(f)
  BY DEF OctetStrings
<1>5. Len(Marshal("tlvs", <<>>)) = 0
  BY <1>2, <1>3
<1>6. q + Len(Marshal("tlvs", <<>>)) = q
  BY <1>4, <1>5
<1>7. Len(<<>>) <= maxTLVs
  BY <1>2
<1> DEFINE e == <<>>
<1>8. e \in Seq(Parameters) /\ Len(e) <= maxTLVs /\ q + Len(Marshal("tlvs", e)) <= Len(f)
      /\ TLVTurns(f, Reader(q, out), 0) = Reader(q + Len(Marshal("tlvs", e)), e)
  BY <1>1, <1>2, <1>4, <1>6, <1>7
<1> HIDE DEF e
<1> QED BY <1>8 DEF TurnsAs

LEMMA TurnsNext ==
  ASSUME NEW f \in OctetStrings, NEW q \in 0..Len(f), NEW r, TurnsAs(f, q, r)
  PROVE  TurnsAs(f, q, ReadTLV(f, r))
<1>1. CASE r.err \in BodyErrors
  <2>1. r.err # "none"
    BY <1>1 DEF BodyErrors
  <2>2. ReadTLV(f, r) = r
    BY <2>1 DEF ReadTLV
  <2> QED BY <2>2
<1>2. CASE r.err \notin BodyErrors
  <2>1. PICK v \in Seq(Parameters) : /\ Len(v) <= maxTLVs /\ q + Len(Marshal("tlvs", v)) <= Len(f)
                                     /\ r = Reader(q + Len(Marshal("tlvs", v)), v)
    BY <1>2 DEF TurnsAs
  <2> DEFINE l == Len(Marshal("tlvs", v))
             p == q + l
  <2>2. l \in Nat
    <3>1. Marshal("tlvs", v) \in OctetStrings
      BY MarshalTLVsAre
    <3> QED BY <3>1 DEF OctetStrings
  <2> HIDE DEF l
  <2>3. p \in 0..Len(f) /\ Len(f) \in Nat /\ r = Reader(p, v)
    BY <2>1, <2>2 DEF l, OctetStrings
  <2> HIDE DEF p
  <2>4. CASE ReadTLV(f, r).err \in BodyErrors
    BY <2>4 DEF TurnsAs
  <2>5. CASE ReadTLV(f, r) = r
    BY <2>5
  <2>6. ASSUME NEW x \in Parameters, Len(v) < maxTLVs, p + Len(MarshalTLV(x)) <= Len(f),
               ReadTLV(f, r) = Reader(p + Len(MarshalTLV(x)), Append(v, x))
        PROVE  TurnsAs(f, q, ReadTLV(f, r))
    <3> DEFINE m == Len(MarshalTLV(x))
               k == Len(Marshal("tlvs", Append(v, x)))
    <3>1. Append(v, x) \in Seq(Parameters) /\ Len(Append(v, x)) = Len(v) + 1 /\ k = l + m
      BY TLVsMore DEF l
    <3>2. m \in Nat
      <4>1. MarshalTLV(x) \in OctetStrings
        BY ParameterFacts
      <4> QED BY <4>1 DEF OctetStrings
    <3> HIDE DEF m, k
    <3>3. p + m = q + k
      BY <2>2, <3>1, <3>2 DEF p
    <3>4. Len(v) + 1 <= maxTLVs
      BY <2>6, CodecConfig
    <3>5. q + k <= Len(f) /\ ReadTLV(f, r) = Reader(q + k, Append(v, x))
      BY <2>6, <3>3 DEF m
    <3> QED BY <3>1, <3>4, <3>5 DEF TurnsAs, k
  <2> QED BY <2>1, <2>3, <2>4, <2>5, <2>6, TLVReads
<1> QED BY <1>1, <1>2

LEMMA TurnsRead ==
  ASSUME NEW f \in OctetStrings, NEW q \in 0..Len(f), NEW out, NEW n \in Nat
  PROVE  TurnsAs(f, q, TLVTurns(f, Reader(q, out), n))
<1> DEFINE r == Reader(q, out)
           T == {k \in Nat : ~TurnsAs(f, q, TLVTurns(f, r, k))}
<1>0. TurnsAs(f, q, TLVTurns(f, r, 0))
  BY TurnsStart
<1> HIDE DEF r
<1> SUFFICES ASSUME T # {} PROVE FALSE
  BY DEF r
<1>1. PICK k \in T : \A j \in T : k <= j
  BY LeastNatural
<1>2. k \in Nat /\ ~TurnsAs(f, q, TLVTurns(f, r, k)) /\ k # 0
  BY <1>0
<1> DEFINE i == k - 1
<1>3. i \in Nat /\ k = i + 1 /\ i \notin T
  BY <1>1, <1>2
<1>4. TurnsAs(f, q, TLVTurns(f, r, i))
  BY <1>3
<1> HIDE DEF i, T
<1>5. TLVTurns(f, r, i + 1) = ReadTLV(f, TLVTurns(f, r, i))
  BY <1>3, NextTurn
<1>6. TurnsAs(f, q, ReadTLV(f, TLVTurns(f, r, i)))
  BY <1>4, TurnsNext
<1> QED BY <1>2, <1>3, <1>5, <1>6

LEMMA TLVsRead ==
  ASSUME NEW f \in OctetStrings, NEW q \in 0..Len(f), NEW out
  PROVE  ReadsAs(f, q, out, "tlvs", ReadTLVs(f, Reader(q, out)))
<1> DEFINE r == Reader(q, out)
           all == TLVTurns(f, r, maxTLVs + 1)
<1>1. TurnsAs(f, q, all)
  <2>1. maxTLVs + 1 \in Nat
    BY CodecConfig
  <2> QED BY <2>1, TurnsRead
<1>2. r.pos = q /\ ReadTLVs(f, r) = IF all.err # "none" THEN Fails(r, all.err) ELSE Takes(r, all.pos - q, all.out)
  BY ReaderTakes DEF ReadTLVs
<1> HIDE DEF r, all
<1>3. CASE all.err \in BodyErrors
  <2>1. all.err # "none"
    BY <1>3 DEF BodyErrors
  <2>2. ReadTLVs(f, r).err = all.err
    BY <1>2, <2>1, ReaderFails DEF r
  <2> QED BY <1>3, <2>2 DEF ReadsAs, r
<1>4. CASE all.err \notin BodyErrors
  <2>1. PICK v \in Seq(Parameters) : /\ Len(v) <= maxTLVs /\ q + Len(Marshal("tlvs", v)) <= Len(f)
                                     /\ all = Reader(q + Len(Marshal("tlvs", v)), v)
    BY <1>1, <1>4 DEF TurnsAs
  <2> DEFINE l == Len(Marshal("tlvs", v))
  <2>2. l \in Nat
    <3>1. Marshal("tlvs", v) \in OctetStrings
      BY MarshalTLVsAre
    <3> QED BY <3>1 DEF OctetStrings
  <2>3. all.err = "none" /\ all.pos = q + l /\ all.out = v
    BY <2>1, ReaderTakes
  <2> HIDE DEF l
  <2>4. (q + l) - q = l
    BY <2>2
  <2>5. ReadTLVs(f, r) = Takes(r, l, v)
    BY <1>2, <2>3, <2>4
  <2>6. ReadTLVs(f, r) = Reader(q + l, Append(out, v))
    BY <2>5, ReaderTakes DEF r
  <2>7. Fits("tlvs", v)
    BY <2>1, FitsParameters
  <2> QED BY <2>1, <2>6, <2>7 DEF ReadsAs, r, l
<1> QED BY <1>3, <1>4

LEMMA FieldReads ==
  ASSUME NEW f \in OctetStrings, NEW q \in 0..Len(f), NEW out, NEW kind \in Kinds
  PROVE  ReadsAs(f, q, out, kind, ReadField(f, Reader(q, out), kind))
<1> DEFINE r == Reader(q, out)
<1>0. r.err = "none"
  BY ReaderTakes
<1> HIDE DEF r
<1>1. CASE kind = "string"
  <2>1. ReadField(f, r, kind) = ReadCOctetString(f, r)
    BY <1>0, <1>1 DEF ReadField
  <2> QED BY <1>1, <2>1, StringReads DEF r
<1>2. CASE kind = "octet"
  <2>1. ReadField(f, r, kind) = ReadByte(f, r)
    BY <1>0, <1>2 DEF ReadField
  <2> QED BY <1>2, <2>1, ByteReads DEF r
<1>3. CASE kind = "message"
  <2>1. ReadField(f, r, kind) = ReadShortMessage(f, r)
    BY <1>0, <1>3 DEF ReadField
  <2> QED BY <1>3, <2>1, MessageReads DEF r
<1>4. CASE kind = "tlvs"
  <2>1. ReadField(f, r, kind) = ReadTLVs(f, r)
    BY <1>0, <1>4 DEF ReadField
  <2> QED BY <1>4, <2>1, TLVsRead DEF r
<1> QED BY <1>1, <1>2, <1>3, <1>4 DEF Kinds

\* The first k fields of a body.
PartBody(id, b, k) == b = [i \in 1..k |-> b[i]] /\ \A i \in 1..k : Fits(Layouts[id][i], b[i])

LEMMA AppendTo ==
  ASSUME NEW b, NEW k \in Nat, b = [i \in 1..k |-> b[i]], NEW v
  PROVE  /\ Len(b) = k /\ DOMAIN b = 1..k /\ DOMAIN Append(b, v) = 1..(k + 1)
         /\ Append(b, v) = [i \in 1..(k + 1) |-> Append(b, v)[i]]
         /\ Append(b, v)[k + 1] = v /\ \A i \in 1..k : Append(b, v)[i] = b[i]
<1> DEFINE S == {b[i] : i \in 1..k} \cup {v}
<1>1. v \in S /\ \A i \in 1..k : b[i] \in S
  OBVIOUS
<1> HIDE DEF S
<1>2. b \in [1..k -> S]
  BY <1>1
<1>3. b \in Seq(S) /\ Len(b) = k /\ DOMAIN b = 1..k
  BY <1>2
<1>4. /\ Append(b, v) \in Seq(S) /\ Len(Append(b, v)) = k + 1
      /\ \A i \in 1..k : Append(b, v)[i] = b[i]
      /\ Append(b, v)[k + 1] = v
  BY <1>1, <1>3, AppendProperties
<1> DEFINE a == Append(b, v)
<1> HIDE DEF a
<1>5. a \in Seq(S) /\ Len(a) = k + 1
  BY <1>4 DEF a
<1>6. DOMAIN a = 1..(k + 1) /\ a = [i \in 1..(k + 1) |-> a[i]]
  BY <1>5
<1> QED BY <1>3, <1>4, <1>6 DEF a

LEMMA PartWritten ==
  ASSUME NEW id \in KnownCommands, NEW k \in 0..Len(Layouts[id]), NEW b, PartBody(id, b, k)
  PROVE  /\ Written(id, b) \in Seq(OctetStrings) /\ Len(Written(id, b)) = k
         /\ \A i \in 1..k : Written(id, b)[i] = Marshal(Layouts[id][i], b[i])
         /\ FlattenSeq(Written(id, b)) \in OctetStrings
<1> DEFINE w == Written(id, b)
<1>1. Len(Layouts[id]) \in Nat /\ \A i \in 1..Len(Layouts[id]) : Layouts[id][i] \in Kinds
  BY LayoutFacts
<1>2. k \in Nat /\ DOMAIN b = 1..k
  BY <1>1 DEF PartBody
<1>3. \A i \in 1..k : Marshal(Layouts[id][i], b[i]) \in OctetStrings
  BY <1>1, MarshalIsOctets DEF PartBody
<1>4. w = [i \in 1..k |-> Marshal(Layouts[id][i], b[i])]
  BY <1>2 DEF Written
<1>5. w \in Seq(OctetStrings) /\ Len(w) = k
  BY <1>2, <1>3, <1>4
<1>6. FlattenSeq(w) \in OctetStrings
  <2> HIDE DEF w
  <2> QED BY <1>5, FlattenIsSeq DEF OctetStrings
<1> QED BY <1>4, <1>5, <1>6

LEMMA PartMore ==
  ASSUME NEW id \in KnownCommands, NEW k \in Nat, k + 1 \in 1..Len(Layouts[id]), NEW b, PartBody(id, b, k),
         NEW v, Fits(Layouts[id][k + 1], v)
  PROVE  /\ PartBody(id, Append(b, v), k + 1)
         /\ FlattenSeq(Written(id, b)) \in OctetStrings /\ Len(Marshal(Layouts[id][k + 1], v)) \in Nat
         /\ Len(FlattenSeq(Written(id, Append(b, v))))
              = Len(FlattenSeq(Written(id, b))) + Len(Marshal(Layouts[id][k + 1], v))
<1> DEFINE u == Append(b, v)
           y == Marshal(Layouts[id][k + 1], v)
           a == Written(id, b)
           c == Written(id, u)
<1>0. Len(Layouts[id]) \in Nat /\ Layouts[id][k + 1] \in Kinds
  BY LayoutFacts
<1>1. u = [i \in 1..(k + 1) |-> u[i]] /\ u[k + 1] = v /\ \A i \in 1..k : u[i] = b[i]
  BY AppendTo DEF PartBody
<1> HIDE DEF u
<1>2. PartBody(id, u, k + 1)
  <2>1. ASSUME NEW i \in 1..(k + 1) PROVE Fits(Layouts[id][i], u[i])
    <3>1. CASE i = k + 1
      BY <1>1, <3>1
    <3>2. CASE i \in 1..k
      BY <1>1, <3>2 DEF PartBody
    <3>3. i = k + 1 \/ i \in 1..k
      OBVIOUS
    <3> QED BY <3>1, <3>2, <3>3
  <2> QED BY <1>1, <2>1 DEF PartBody
<1>3. y \in OctetStrings
  BY <1>0, MarshalIsOctets
<1>4. k \in 0..Len(Layouts[id]) /\ k + 1 \in 0..Len(Layouts[id])
  BY <1>0
<1>5. a \in Seq(OctetStrings) /\ Len(a) = k /\ FlattenSeq(a) \in OctetStrings
      /\ \A i \in 1..k : a[i] = Marshal(Layouts[id][i], b[i])
  BY <1>4, PartWritten
<1>6. c \in Seq(OctetStrings) /\ Len(c) = k + 1 /\ \A i \in 1..(k + 1) : c[i] = Marshal(Layouts[id][i], u[i])
  BY <1>2, <1>4, PartWritten
<1> HIDE DEF y, a, c
<1>7. c = Append(a, y)
  <2>1. Append(a, y) \in Seq(OctetStrings) /\ Len(Append(a, y)) = k + 1 /\ Append(a, y)[k + 1] = y
        /\ \A i \in 1..k : Append(a, y)[i] = a[i]
    <3> HIDE DEF OctetStrings
    <3> QED BY <1>3, <1>5, AppendProperties
  <2>2. \A i \in 1..(k + 1) : c[i] = Append(a, y)[i]
    <3> SUFFICES ASSUME NEW i \in 1..(k + 1) PROVE c[i] = Append(a, y)[i]
      OBVIOUS
    <3>1. CASE i = k + 1
      BY <1>1, <1>6, <2>1, <3>1 DEF y
    <3>2. CASE i \in 1..k
      BY <1>1, <1>5, <1>6, <2>1, <3>2
    <3>3. i = k + 1 \/ i \in 1..k
      OBVIOUS
    <3> QED BY <3>1, <3>2, <3>3
  <2> HIDE DEF OctetStrings
  <2> QED BY <1>6, <2>1, <2>2, SeqEqual
<1>8. FlattenSeq(c) = FlattenSeq(a) \o y
  BY <1>3, <1>5, <1>7, FlattenMore DEF OctetStrings
<1> DEFINE z == FlattenSeq(a)
<1> HIDE DEF z
<1>9. Len(z \o y) = Len(z) + Len(y) /\ Len(y) \in Nat
  <2>1. z \in OctetStrings
    BY <1>5 DEF z
  <2> QED BY <1>3, <2>1, ConcatProperties DEF OctetStrings
<1> QED BY <1>2, <1>5, <1>8, <1>9 DEF u, y, a, c, z

\* decodeBind and its like after k fields.
FieldsAs(id, f, k, r) ==
  \/ r.err \in BodyErrors
  \/ \E b : /\ PartBody(id, b, k) /\ HeaderLen + Len(FlattenSeq(Written(id, b))) <= Len(f)
            /\ r = Reader(HeaderLen + Len(FlattenSeq(Written(id, b))), b)

LEMMA FieldsStart ==
  ASSUME NEW id \in KnownCommands, NEW f \in OctetStrings, Len(f) >= HeaderLen
  PROVE  FieldsAs(id, f, 0, Reader(HeaderLen, <<>>))
<1> DEFINE e == NoBody
<1>1. e = [i \in 1..0 |-> e[i]] /\ e = <<>>
  BY DEF NoBody
<1>2. FlattenSeq(Written(id, e)) = <<>>
  BY NothingWritten
<1>3. Len(FlattenSeq(Written(id, e))) = 0
  BY <1>2
<1>4. HeaderLen + Len(FlattenSeq(Written(id, e))) = HeaderLen
  BY <1>3, ConfigFacts
<1>5. PartBody(id, e, 0)
  BY <1>1 DEF PartBody
<1> HIDE DEF e
<1>6. Reader(HeaderLen, <<>>) = Reader(HeaderLen + Len(FlattenSeq(Written(id, e))), e)
  BY <1>1, <1>4
<1>7. HeaderLen + Len(FlattenSeq(Written(id, e))) <= Len(f)
  BY <1>4
<1> QED BY <1>5, <1>6, <1>7 DEF FieldsAs

LEMMA FieldsMore ==
  ASSUME NEW id \in KnownCommands, NEW f \in OctetStrings, NEW k \in Nat, k + 1 \in 1..Len(Layouts[id]), NEW r,
         FieldsAs(id, f, k, r)
  PROVE  FieldsAs(id, f, k + 1, ReadField(f, r, Layouts[id][k + 1]))
<1> DEFINE kind == Layouts[id][k + 1]
<1>0. kind \in Kinds /\ Len(f) \in Nat
  BY LayoutFacts DEF OctetStrings
<1> HIDE DEF kind
<1>1. CASE r.err \in BodyErrors
  <2>1. r.err # "none"
    BY <1>1 DEF BodyErrors
  <2>2. ReadField(f, r, kind) = r
    BY <2>1 DEF ReadField
  <2> QED BY <1>1, <2>2 DEF FieldsAs, kind
<1>2. CASE r.err \notin BodyErrors
  <2>1. PICK b : /\ PartBody(id, b, k) /\ HeaderLen + Len(FlattenSeq(Written(id, b))) <= Len(f)
                 /\ r = Reader(HeaderLen + Len(FlattenSeq(Written(id, b))), b)
    BY <1>2 DEF FieldsAs
  <2> DEFINE l == Len(FlattenSeq(Written(id, b)))
             q == HeaderLen + l
  <2>2. l \in Nat
    <3>1. k \in 0..Len(Layouts[id])
      BY LayoutFacts
    <3>2. FlattenSeq(Written(id, b)) \in OctetStrings
      BY <2>1, <3>1, PartWritten
    <3> QED BY <3>2 DEF OctetStrings
  <2> HIDE DEF l
  <2>3. q \in 0..Len(f) /\ r = Reader(q, b)
    BY <1>0, <2>1, <2>2, ConfigFacts DEF l
  <2> HIDE DEF q
  <2>4. ReadsAs(f, q, b, kind, ReadField(f, r, kind))
    BY <1>0, <2>3, FieldReads
  <2>5. CASE ReadField(f, r, kind).err \in BodyErrors
    BY <2>5 DEF FieldsAs, kind
  <2>6. ASSUME NEW v, Fits(kind, v), q + Len(Marshal(kind, v)) <= Len(f),
               ReadField(f, r, kind) = Reader(q + Len(Marshal(kind, v)), Append(b, v))
        PROVE  FieldsAs(id, f, k + 1, ReadField(f, r, kind))
    <3> DEFINE m == Len(Marshal(kind, v))
               n == Len(FlattenSeq(Written(id, Append(b, v))))
    <3>1. PartBody(id, Append(b, v), k + 1) /\ m \in Nat /\ n = l + m
      BY <2>1, <2>6, PartMore DEF l, kind
    <3> HIDE DEF m, n
    <3>2. q + m = HeaderLen + n
      BY <2>2, <3>1, ConfigFacts DEF q
    <3>3. HeaderLen + n <= Len(f) /\ ReadField(f, r, kind) = Reader(HeaderLen + n, Append(b, v))
      BY <2>6, <3>2 DEF m
    <3> QED BY <3>1, <3>3 DEF FieldsAs, n
  <2> QED BY <2>4, <2>5, <2>6 DEF ReadsAs, kind
<1> QED BY <1>1, <1>2

LEMMA FieldsRead ==
  ASSUME NEW id \in KnownCommands, NEW f \in OctetStrings, Len(f) >= HeaderLen, NEW n \in 0..Len(Layouts[id])
  PROVE  FieldsAs(id, f, n, ReadFields(f, Reader(HeaderLen, <<>>), Layouts[id], n))
<1> DEFINE r == Reader(HeaderLen, <<>>)
           kinds == Layouts[id]
           T == {k \in 0..Len(kinds) : ~FieldsAs(id, f, k, ReadFields(f, r, kinds, k))}
<1>0. Len(kinds) \in Nat
  BY LayoutFacts
<1>00. FieldsAs(id, f, 0, ReadFields(f, r, kinds, 0))
  <2>1. FieldsAs(id, f, 0, r)
    BY FieldsStart
  <2>2. ReadFields(f, r, kinds, 0) = r
    BY FieldsNext
  <2> QED BY <2>1, <2>2
<1> HIDE DEF r
<1> SUFFICES ASSUME T # {} PROVE FALSE
  BY DEF r
<1>01. T \subseteq Nat
  BY <1>0
<1>1. PICK k \in T : \A j \in T : k <= j
  BY <1>01, LeastNatural
<1>2. k \in 0..Len(kinds) /\ ~FieldsAs(id, f, k, ReadFields(f, r, kinds, k)) /\ k # 0
  BY <1>00
<1> DEFINE i == k - 1
<1>3. i \in Nat /\ k = i + 1 /\ i \notin T /\ i \in 0..Len(kinds) /\ i + 1 \in 1..Len(kinds)
  BY <1>0, <1>1, <1>2
<1>4. FieldsAs(id, f, i, ReadFields(f, r, kinds, i))
  BY <1>3
<1> HIDE DEF i, T
<1>5. ReadFields(f, r, kinds, i + 1) = ReadField(f, ReadFields(f, r, kinds, i), kinds[i + 1])
  BY <1>3, NextField
<1>6. FieldsAs(id, f, i + 1, ReadField(f, ReadFields(f, r, kinds, i), kinds[i + 1]))
  BY <1>3, <1>4, FieldsMore
<1> QED BY <1>2, <1>3, <1>5, <1>6

\* A response without its body has the octets of its empty body: one null.
LEMMA EmptyBodyFits ==
  ASSUME NEW id \in KnownCommands, BodyOptional(id)
  PROVE  /\ WholeBody(id, EmptyBody(id)) /\ EmptyBody(id) # NoBody
         /\ HeaderLen + Len(FlattenSeq(Written(id, EmptyBody(id)))) <= MaxPDULen
<1> DEFINE b == EmptyBody(id)
           e == <<>>
<1>1. Layouts[id] \in {BindRespLayout, SubmitRespLayout}
  <2>1. id >= responseBit /\ Layouts[id] # <<>>
    BY DEF BodyOptional, IsResponse
  <2>2. id \notin Binds /\ id \notin Messages
    <3>1. \A i \in Binds \cup Messages : i \in 1..9
      BY DEF Binds, Messages, BindReceiver, BindTransmitter, BindTransceiver, SubmitSM, DeliverSM
    <3>2. responseBit \in Nat /\ responseBit > 22
      BY CommandIds
    <3> QED BY <2>1, <3>1, <3>2
  <2> QED BY <2>1, <2>2 DEF Layouts, KnownCommands, BindRespLayout, SubmitRespLayout
<1>2. Fits("string", e) /\ Marshal("string", e) = <<0>>
  <2>1. e \in Seq(1..(Base - 1)) /\ Len(e) = 0 /\ maxCOctetLen \in Nat \ {0}
    BY CodecConfig
  <2>2. Len(e) < maxCOctetLen
    BY <2>1
  <2>3. e \o <<0>> = <<0>>
    OBVIOUS
  <2> QED BY <2>1, <2>2, <2>3 DEF Fits, Marshal
<1>3. Fits("tlvs", e) /\ Marshal("tlvs", e) = <<>>
  <2>1. e \in Seq(Parameters) /\ Len(e) = 0 /\ maxTLVs \in Nat
    BY CodecConfig
  <2>2. Len(e) <= maxTLVs
    BY <2>1
  <2>3. MarshalTLVs(e) = <<>> /\ <<>> \in Seq({})
    BY DEF MarshalTLVs
  <2>4. FlattenSeq(<<>>) = <<>>
    BY <2>1, <2>3, FlattenNothing
  <2> QED BY <2>1, <2>2, <2>3, <2>4, FitsParameters, MarshalTLVsAre
<1>4. b = [i \in DOMAIN Layouts[id] |-> e]
  BY DEF EmptyBody
<1> HIDE DEF e
<1>5. WholeBody(id, b) /\ b # NoBody
  <2>1. DOMAIN b = DOMAIN Layouts[id] /\ \A i \in DOMAIN b : b[i] = e
    BY <1>4
  <2>2. \A i \in DOMAIN Layouts[id] : Layouts[id][i] \in {"string", "tlvs"} /\ 1 \in DOMAIN Layouts[id]
    BY <1>1 DEF BindRespLayout, SubmitRespLayout
  <2>3. 1 \in DOMAIN Layouts[id]
    BY <1>1 DEF BindRespLayout, SubmitRespLayout
  <2>4. b = [i \in DOMAIN Layouts[id] |-> b[i]]
    BY <1>4
  <2>5. \A i \in DOMAIN b : Fits(Layouts[id][i], b[i])
    BY <1>2, <1>3, <2>1, <2>2
  <2>6. DOMAIN NoBody = {}
    BY DEF NoBody
  <2> QED BY <2>1, <2>3, <2>4, <2>5, <2>6 DEF WholeBody
<1>6. Len(FlattenSeq(Written(id, b))) = 1
  <2> DEFINE o == <<0>>
             w == Written(id, b)
  <2>0. o \in OctetStrings /\ Len(o) = 1 /\ <<>> \in OctetStrings
    <3>1. 0 \in Octet
      BY ConfigFacts DEF Octet
    <3> QED BY <3>1 DEF OctetStrings
  <2>1. CASE Layouts[id] = SubmitRespLayout
    <3>1. DOMAIN b = 1..1 /\ Layouts[id][1] = "string" /\ b[1] = e
      BY <1>4, <2>1 DEF SubmitRespLayout
    <3>2. w = <<o>>
      <4>1. w = [i \in 1..1 |-> Marshal(Layouts[id][i], b[i])]
        BY <3>1 DEF Written
      <4>2. \A i \in 1..1 : Marshal(Layouts[id][i], b[i]) = o
        <5> SUFFICES ASSUME NEW i \in 1..1 PROVE Marshal(Layouts[id][i], b[i]) = o
          OBVIOUS
        <5>1. i = 1
          OBVIOUS
        <5> QED BY <1>2, <3>1, <5>1
      <4>3. w = [i \in 1..1 |-> o]
        BY <4>1, <4>2
      <4> HIDE DEF o, w
      <4> QED BY <4>3
    <3>3. <<o>> = Append(<<>>, o) /\ <<>> \in Seq(OctetStrings) /\ Len(<<>>) = 0
      <4> HIDE DEF o
      <4> QED OBVIOUS
    <3>4. FlattenSeq(Append(<<>>, o)) = FlattenSeq(<<>>) \o o
      <4> HIDE DEF o
      <4> QED BY <2>0, <3>3, FlattenMore DEF OctetStrings
    <3>5. FlattenSeq(<<>>) = <<>>
      BY <3>3, FlattenNothing
    <3>6. <<>> \o o = o
      <4> HIDE DEF o
      <4> QED BY <2>0, ConcatEmptySeq DEF OctetStrings
    <3> HIDE DEF o, w
    <3>7. FlattenSeq(w) = o
      BY <3>2, <3>3, <3>4, <3>5, <3>6
    <3> QED BY <2>0, <3>7 DEF w
  <2>2. CASE Layouts[id] = BindRespLayout
    <3>1. DOMAIN b = 1..2 /\ Layouts[id][1] = "string" /\ b[1] = e /\ Layouts[id][2] = "tlvs" /\ b[2] = e
      BY <1>4, <2>2 DEF BindRespLayout
    <3> DEFINE n == <<>>
    <3>2. w = <<o, n>>
      <4>1. w = [i \in 1..2 |-> Marshal(Layouts[id][i], b[i])]
        BY <3>1 DEF Written
      <4>2. Marshal(Layouts[id][1], b[1]) = o /\ Marshal(Layouts[id][2], b[2]) = n
        BY <1>2, <1>3, <3>1
      <4> HIDE DEF o, n, w
      <4>3. DOMAIN w = 1..2 /\ w[1] = o /\ w[2] = n
        BY <4>1, <4>2
      <4>4. w = [i \in 1..2 |-> w[i]]
        BY <4>1, <4>3
      <4> QED BY <4>3, <4>4
    <3>3. <<o, n>> = Append(<<o>>, n) /\ <<o>> = Append(<<>>, o) /\ Len(<<>>) = 0
          /\ <<>> \in Seq(OctetStrings)
      <4> HIDE DEF o
      <4> QED OBVIOUS
    <3>30. <<o>> \in Seq(OctetStrings)
      <4> HIDE DEF o, OctetStrings
      <4> QED BY <2>0
    <3>4. FlattenSeq(Append(<<>>, o)) = FlattenSeq(<<>>) \o o
      <4> HIDE DEF o
      <4> QED BY <2>0, <3>3, FlattenMore DEF OctetStrings
    <3>5. FlattenSeq(<<>>) = <<>>
      BY <3>3, FlattenNothing
    <3>6. <<>> \o o = o /\ o \o n = o
      <4> HIDE DEF o
      <4> QED BY <2>0, ConcatEmptySeq DEF OctetStrings
    <3>7. FlattenSeq(Append(<<o>>, n)) = FlattenSeq(<<o>>) \o n
      <4>1. n \in OctetStrings
        BY <2>0
      <4> HIDE DEF o, n
      <4> QED BY <3>30, <4>1, FlattenMore DEF OctetStrings
    <3> HIDE DEF o, w, n
    <3>8. FlattenSeq(w) = o
      BY <3>2, <3>3, <3>4, <3>5, <3>6, <3>7
    <3> QED BY <2>0, <3>8 DEF w
  <2> QED BY <1>1, <2>1, <2>2
<1>7. HeaderLen + 1 <= MaxPDULen
  BY CodecConfig, ConfigFacts, CommandIds
<1> QED BY <1>5, <1>6, <1>7

\* A PDU with a body that fits a frame.
LEMMA WholeIsSent ==
  ASSUME NEW id \in KnownCommands, NEW status \in 0..(Values(Word) - 1), NEW seq \in 0..(Values(Word) - 1),
         NEW body, (BodyOptional(id) /\ body = NoBody) \/ WholeBody(id, body),
         HeaderLen + Len(FlattenSeq(Written(id, body))) <= MaxPDULen
  PROVE  WellFormed(PDU(id, status, seq, body)) /\ Encode(PDU(id, status, seq, body)).err = "none"
<1> DEFINE p == PDU(id, status, seq, body)
           b == FlattenSeq(Written(id, body))
           total == HeaderLen + Len(b)
           w == [i \in 1..4 |-> BigEndian(<<total, p.id, p.status, p.seq>>[i], Word)]
<1>1. p.id = id /\ p.status = status /\ p.seq = seq /\ p.body = body
  BY DEF PDU
<1>2. WellFormed(p)
  <2> HIDE DEF p
  <2>1. p = PDU(p.id, p.status, p.seq, p.body)
    BY <1>1 DEF p
  <2> QED BY <1>1, <2>1 DEF WellFormed, WholeBody
<1>3. Encode(p) = IF total > MaxPDULen THEN [err |-> "ErrBadCommandLength"]
                  ELSE [err |-> "none", frame |-> FlattenSeq(w) \o b]
  BY <1>1 DEF Encode, Written
<1>4. ~(total > MaxPDULen)
  <2>1. Len(b) \in Nat
    <3>1. b \in OctetStrings
      BY <1>1, <1>2, BodyOctets
    <3> HIDE DEF b
    <3> QED BY <3>1 DEF OctetStrings
  <2> DEFINE l == Len(b)
  <2>2. l \in Nat /\ HeaderLen + l <= MaxPDULen
    BY <2>1
  <2> HIDE DEF l
  <2>3. ~(HeaderLen + l > MaxPDULen)
    BY <2>2, ConfigFacts
  <2> QED BY <2>3 DEF l
<1> HIDE DEF total, w, b
<1>5. Encode(p).err = "none"
  BY <1>3, <1>4
<1> QED BY <1>2, <1>5

\* Decode: what it makes of a frame can be sent.
LEMMA DecodedIsSent ==
  ASSUME NEW f \in OctetStrings, Len(f) \in HeaderLen..MaxPDULen
  PROVE  /\ Decode(f).err \in {"none", "ErrUnknownCommand"} \cup BodyErrors
         /\ Decode(f).err = "ErrUnknownCommand" <=> Header(f, 2) \notin KnownCommands
         /\ Decode(f).err = "none" => /\ WellFormed(Decode(f).pdu) /\ Encode(Decode(f).pdu).err = "none"
                                      /\ Seen(Decode(f).pdu) = Decode(f).pdu
                                      /\ Decode(f) = [err |-> "none", pdu |-> Decode(f).pdu]
<1> DEFINE id == Header(f, 2)
           status == Header(f, 3)
           seq == Header(f, 4)
           r == DecodeBody(id, f)
<1>0. Len(f) \in Nat /\ Len(f) >= HeaderLen /\ Len(f) <= MaxPDULen
  BY ConfigFacts
<1>1. status \in 0..(Values(Word) - 1) /\ seq \in 0..(Values(Word) - 1)
  <2>1. 3 \in 1..4 /\ 4 \in 1..4
    OBVIOUS
  <2> QED BY <1>0, <2>1, HeaderIsWord
<1>2. Decode(f) = IF id \notin KnownCommands THEN [err |-> "ErrUnknownCommand"]
                  ELSE IF r.err # "none" THEN [err |-> r.err]
                  ELSE [err |-> "none", pdu |-> PDU(id, status, seq, r.out)]
  <2>1. ~(Len(f) < HeaderLen)
    BY <1>0, ConfigFacts
  <2> QED BY <2>1 DEF Decode
<1> HIDE DEF id, status, seq, r
<1>3. CASE id \notin KnownCommands
  <2>1. Decode(f).err = "ErrUnknownCommand"
    BY <1>2, <1>3
  <2> QED BY <1>3, <2>1 DEF id
<1>4. CASE id \in KnownCommands
  <2>1. \/ r.err \in BodyErrors
        \/ r.err = "none" /\ WholeBody(id, r.out) /\ (BodyOptional(id) => r.out # NoBody)
           /\ HeaderLen + Len(FlattenSeq(Written(id, r.out))) <= MaxPDULen
    <3> DEFINE s == Reader(HeaderLen, <<>>)
               n == Len(Layouts[id])
    <3>1. CASE BodyOptional(id) /\ Rest(f, s) = 0
      <4>1. r = [s EXCEPT !.out = EmptyBody(id)]
        BY <3>1 DEF r, DecodeBody, Reader
      <4>2. r = Reader(HeaderLen, EmptyBody(id))
        BY <4>1, ReaderResets
      <4>3. r.err = "none" /\ r.out = EmptyBody(id)
        BY <4>2, ReaderTakes
      <4> QED BY <1>4, <3>1, <4>3, EmptyBodyFits
    <3>2. CASE ~(BodyOptional(id) /\ Rest(f, s) = 0)
      <4>1. r = ReadFields(f, s, Layouts[id], n)
        BY <3>2 DEF r, DecodeBody, Reader
      <4>2. n \in Nat /\ n \in 0..n /\ DOMAIN Layouts[id] = 1..n
        BY <1>4, LayoutFacts
      <4>3. FieldsAs(id, f, n, r)
        BY <1>0, <1>4, <4>1, <4>2, FieldsRead
      <4> HIDE DEF s, n
      <4>4. ASSUME r.err \notin BodyErrors
            PROVE  r.err = "none" /\ WholeBody(id, r.out) /\ DOMAIN r.out = 1..n
                   /\ HeaderLen + Len(FlattenSeq(Written(id, r.out))) <= MaxPDULen
        <5>1. PICK b : /\ PartBody(id, b, n) /\ HeaderLen + Len(FlattenSeq(Written(id, b))) <= Len(f)
                       /\ r = Reader(HeaderLen + Len(FlattenSeq(Written(id, b))), b)
          BY <4>3, <4>4 DEF FieldsAs
        <5>2. r.err = "none" /\ r.out = b
          BY <5>1, ReaderTakes
        <5>3. DOMAIN b = 1..n /\ WholeBody(id, b)
          BY <4>2, <5>1 DEF PartBody, WholeBody
        <5>4. HeaderLen + Len(FlattenSeq(Written(id, b))) <= MaxPDULen
          <6> DEFINE l == Len(FlattenSeq(Written(id, b)))
          <6>1. l \in Nat
            <7>1. FlattenSeq(Written(id, b)) \in OctetStrings
              BY <1>4, <5>3, WrittenIs
            <7> QED BY <7>1 DEF OctetStrings
          <6>2. HeaderLen + l <= Len(f)
            BY <5>1
          <6> HIDE DEF l
          <6>3. HeaderLen + l <= MaxPDULen
            BY <1>0, <6>1, <6>2, ConfigFacts
          <6> QED BY <6>3 DEF l
        <5> QED BY <5>2, <5>3, <5>4
      <4>5. ASSUME BodyOptional(id), DOMAIN r.out = 1..n PROVE r.out # NoBody
        <5>1. n >= 1
          BY <1>4, <4>5, LayoutFacts DEF BodyOptional, n
        <5>2. 1 \in DOMAIN r.out
          BY <4>2, <4>5, <5>1
        <5>3. DOMAIN NoBody = {}
          BY DEF NoBody
        <5> QED BY <5>2, <5>3
      <4> QED BY <4>4, <4>5
    <3> QED BY <3>1, <3>2
  <2>2. CASE r.err \in BodyErrors
    <3>1. r.err # "none" /\ r.err # "ErrUnknownCommand"
      BY <2>2 DEF BodyErrors
    <3>2. Decode(f) = [err |-> r.err]
      BY <1>2, <1>4, <3>1
    <3>3. Decode(f).err = r.err
      BY <3>2
    <3> QED BY <1>4, <2>2, <3>1, <3>3 DEF id
  <2>3. CASE r.err \notin BodyErrors
    <3> DEFINE p == PDU(id, status, seq, r.out)
    <3>1. r.err = "none" /\ WholeBody(id, r.out) /\ (BodyOptional(id) => r.out # NoBody)
          /\ HeaderLen + Len(FlattenSeq(Written(id, r.out))) <= MaxPDULen
      BY <2>1, <2>3
    <3>2. Decode(f) = [err |-> "none", pdu |-> p]
      BY <1>2, <1>4, <3>1
    <3>3. WellFormed(p) /\ Encode(p).err = "none"
      BY <1>1, <1>4, <3>1, WholeIsSent
    <3>4. Seen(p) = p
      BY <3>1 DEF Seen, PDU
    <3> HIDE DEF p
    <3>5. Decode(f).err = "none" /\ Decode(f).pdu = p
      BY <3>2
    <3> QED BY <1>4, <3>2, <3>3, <3>4, <3>5 DEF id
  <2> QED BY <2>2, <2>3
<1> QED BY <1>3, <1>4

\* What ReadPDU returned.
LEMMA GotIs ==
  ASSUME FrameInv, NEW i \in DOMAIN got
  PROVE  /\ got[i].frame \in OctetStrings /\ Len(got[i].frame) \in HeaderLen..MaxPDULen
         /\ got[i].decoded = Decode(got[i].frame) /\ got[i] = Handled(got[i].frame)
<1>1. got[i] \in Handleds /\ Len(got[i].frame) \in HeaderLen..MaxPDULen
  <2>1. got \in Seq(Handleds)
    BY DEF FrameInv
  <2>2. got[i] \in Handleds
    BY <2>1
  <2> QED BY <2>2 DEF FrameInv
<1>2. PICK f \in OctetStrings : got[i] = Handled(f)
  BY <1>1 DEF Handleds
<1>3. got[i].frame = f /\ got[i].decoded = Decode(f)
  BY <1>2 DEF Handled
<1> QED BY <1>1, <1>2, <1>3

\* Encode and Decode, for every frame a session can be handed: what a frame decodes to can be
\* encoded, and decodes to itself.
THEOREM DecodingIsStable == Spec => []DecodeIsStable
<1>1. FrameInv => DecodeIsStable
  <2> SUFFICES ASSUME FrameInv, NEW i \in DOMAIN got, got[i].decoded.err = "none"
               PROVE  Encode(got[i].decoded.pdu).err = "none"
                      /\ Decode(Encode(got[i].decoded.pdu).frame) = got[i].decoded
    BY DEF DecodeIsStable
  <2> DEFINE f == got[i].frame
             d == got[i].decoded
  <2>1. f \in OctetStrings /\ Len(f) \in HeaderLen..MaxPDULen /\ d = Decode(f)
    BY GotIs
  <2> HIDE DEF f, d
  <2>2. WellFormed(d.pdu) /\ Encode(d.pdu).err = "none" /\ Seen(d.pdu) = d.pdu /\ d = [err |-> "none", pdu |-> d.pdu]
    BY <2>1, DecodedIsSent DEF d
  <2>3. Decode(Encode(d.pdu).frame) = [err |-> "none", pdu |-> Seen(d.pdu)]
    BY <2>2, RoundTrip
  <2> QED BY <2>2, <2>3 DEF d
<1> QED BY <1>1, FrameInit, FrameNext, PTL DEF Spec
-----------------------------------------------------------------------------
(***************************************************************************)
(* rejectMalformed. Every answer is a response without a body, about a     *)
(* frame that was read or about none; a frame has one if it is due one.    *)
(***************************************************************************)
Status == {StatusROK, StatusInvMsgLen, StatusInvCmdLen, StatusInvCmdID, StatusSysErr}
BareResponses ==
  {PDU(id, status, seq, NoBody) :
     id \in {c \in KnownCommands : IsResponse(c)}, status \in Status, seq \in 0..(Values(Word) - 1)}
Answers == [to : Nat, pdu : BareResponses]

LEMMA BareIsSent ==
  ASSUME NEW p \in BareResponses
  PROVE  IsResponse(p.id) /\ WellFormed(p) /\ Encode(p).err = "none"
<1>1. PICK id \in {c \in KnownCommands : IsResponse(c)}, status \in Status, seq \in 0..(Values(Word) - 1) :
        p = PDU(id, status, seq, NoBody)
  BY DEF BareResponses
<1>2. id \in KnownCommands /\ IsResponse(id) /\ p.id = id
  BY <1>1 DEF PDU
<1>3. status \in 0..(Values(Word) - 1)
  <2>1. Values(Word) \in Nat /\ Values(Word) > 22
    BY CommandIds
  <2> QED BY <2>1 DEF Status, StatusROK, StatusInvMsgLen, StatusInvCmdLen, StatusInvCmdID, StatusSysErr
<1>4. (BodyOptional(id) /\ NoBody = NoBody) \/ WholeBody(id, NoBody)
  <2>1. CASE Layouts[id] # <<>>
    BY <1>2, <2>1 DEF BodyOptional
  <2>2. CASE Layouts[id] = <<>>
    BY <2>2 DEF WholeBody, NoBody
  <2> QED BY <2>1, <2>2
<1>5. HeaderLen + Len(FlattenSeq(Written(id, NoBody))) <= MaxPDULen
  <2>1. FlattenSeq(Written(id, NoBody)) = <<>>
    BY NothingWritten
  <2>2. Len(FlattenSeq(Written(id, NoBody))) = 0
    BY <2>1
  <2>3. HeaderLen + 0 <= MaxPDULen
    BY CodecConfig, ConfigFacts, CommandIds
  <2> QED BY <2>2, <2>3
<1> QED BY <1>1, <1>2, <1>3, <1>4, <1>5, WholeIsSent

\* The response to a request that is known.
LEMMA ResponseIs ==
  /\ GenericNack \in KnownCommands /\ IsResponse(GenericNack)
  /\ \A id \in KnownCommands : ~IsResponse(id) => Response(id) \in KnownCommands /\ IsResponse(Response(id))
<1>1. responseBit \in Nat
  BY CommandIds
<1>2. GenericNack \in KnownCommands /\ IsResponse(GenericNack)
  BY <1>1 DEF GenericNack, IsResponse, KnownCommands, Bodiless
<1>3. ASSUME NEW id \in KnownCommands, ~IsResponse(id)
      PROVE  Response(id) \in KnownCommands /\ IsResponse(Response(id))
  <2>1. IsResponse(Response(id))
    <3>1. id \in Nat
      BY CommandIds
    <3> QED BY <1>1, <1>3, <3>1 DEF Response, IsResponse
  <2>2. id \in Binds \cup Messages \cup {EnquireLink, Unbind}
    <3>1. ASSUME NEW c \in {Response(x) : x \in Binds \cup Messages \cup {EnquireLink, Unbind}} PROVE IsResponse(c)
      <4>1. PICK x \in Binds \cup Messages \cup {EnquireLink, Unbind} : c = Response(x)
        OBVIOUS
      <4>2. x \in Nat
        BY DEF Binds, Messages, EnquireLink, Unbind, BindReceiver, BindTransmitter, BindTransceiver, SubmitSM, DeliverSM
      <4> QED BY <1>1, <4>1, <4>2 DEF Response, IsResponse
    <3> HIDE DEF IsResponse, Response, Binds, Messages, EnquireLink, Unbind, GenericNack
    <3> QED BY <1>2, <1>3, <3>1 DEF KnownCommands, Responses, Bodiless
  <2>3. Response(id) \in KnownCommands
    BY <2>2 DEF KnownCommands, Responses, Bodiless
  <2> QED BY <2>1, <2>3
<1> QED BY <1>2, <1>3

\* readLoop: what is sent back because of a frame.
Reply(f) == IF Decode(f).err = "none" THEN {} ELSE RejectMalformed(Decode(f).err, Header(f, 2), Header(f, 4))
Due(f) == Decode(f).err # "none" /\ ~(IsResponse(Header(f, 2)) /\ Header(f, 2) \in KnownCommands)

LEMMA ReplyIs ==
  ASSUME NEW f \in OctetStrings, Len(f) \in HeaderLen..MaxPDULen
  PROVE  /\ Reply(f) = {} \/ \E p \in BareResponses : Reply(f) = {p} /\ p.seq = Header(f, 4)
         /\ Reply(f) # {} <=> Due(f)
<1> DEFINE err == Decode(f).err
           id == Header(f, 2)
           seq == Header(f, 4)
<1>1. err \in {"none", "ErrUnknownCommand"} \cup BodyErrors /\ (err = "ErrUnknownCommand" <=> id \notin KnownCommands)
  BY DecodedIsSent
<1>2. seq \in 0..(Values(Word) - 1)
  <2>1. 4 \in 1..4 /\ Len(f) >= HeaderLen
    BY ConfigFacts
  <2> QED BY <2>1, HeaderIsWord
<1>3. Reply(f) = IF err = "none" THEN {} ELSE RejectMalformed(err, id, seq)
  BY DEF Reply
<1>4. Due(f) <=> err # "none" /\ ~(IsResponse(id) /\ id \in KnownCommands)
  BY DEF Due
<1> HIDE DEF err, id, seq
<1>5. ASSUME NEW c \in KnownCommands, IsResponse(c), NEW st \in Status
      PROVE  PDU(c, st, seq, NoBody) \in BareResponses /\ PDU(c, st, seq, NoBody).seq = seq
  BY <1>2, <1>5 DEF BareResponses, PDU
<1>6. CASE err = "none"
  BY <1>3, <1>4, <1>6 DEF id
<1>7. CASE err = "ErrUnknownCommand"
  <2>1. Reply(f) = {PDU(GenericNack, StatusInvCmdID, seq, NoBody)}
    BY <1>3, <1>7 DEF RejectMalformed
  <2>2. PDU(GenericNack, StatusInvCmdID, seq, NoBody) \in BareResponses
        /\ PDU(GenericNack, StatusInvCmdID, seq, NoBody).seq = seq
    BY <1>5, ResponseIs DEF Status
  <2> QED BY <1>1, <1>4, <1>7, <2>1, <2>2 DEF seq
<1>8. CASE err \in BodyErrors
  <2>0. err # "none" /\ err # "ErrUnknownCommand" /\ id \in KnownCommands
    BY <1>1, <1>8 DEF BodyErrors
  <2>1. CASE IsResponse(id)
    <3>1. Reply(f) = {}
      BY <1>3, <2>0, <2>1 DEF RejectMalformed
    <3> QED BY <1>4, <2>0, <2>1, <3>1
  <2>2. CASE ~IsResponse(id)
    <3>1. PICK st \in Status : Reply(f) = {PDU(Response(id), st, seq, NoBody)}
      BY <1>3, <2>0, <2>2 DEF RejectMalformed, Status
    <3>2. Response(id) \in KnownCommands /\ IsResponse(Response(id))
      BY <2>0, <2>2, ResponseIs
    <3> DEFINE p == PDU(Response(id), st, seq, NoBody)
    <3>3. p \in BareResponses /\ p.seq = seq
      BY <1>5, <3>2
    <3> HIDE DEF p
    <3>4. Reply(f) = {p}
      BY <3>1 DEF p
    <3> QED BY <1>4, <2>0, <2>2, <3>3, <3>4 DEF id, seq
  <2> QED BY <2>1, <2>2
<1> QED BY <1>1, <1>6, <1>7, <1>8

LEMMA SetToSeqOfNone == SetToSeq({}) = <<>>
<1>1. Cardinality({}) = 0
  BY FS_EmptySet
<1>2. [1..0 -> {}] = {<<>>} /\ IsInjective(<<>>)
  <2>1. ASSUME NEW f \in [1..0 -> {}] PROVE f = <<>>
    <3>1. DOMAIN f = {} /\ f = [i \in DOMAIN f |-> f[i]]
      OBVIOUS
    <3> QED BY <3>1
  <2>2. <<>> \in [1..0 -> {}]
    OBVIOUS
  <2>3. IsInjective(<<>>)
    BY DEF IsInjective
  <2> QED BY <2>1, <2>2, <2>3
<1> HIDE DEF IsInjective
<1> QED BY <1>1, <1>2 DEF SetToSeq

LEMMA SetToSeqOfOne ==
  ASSUME NEW x
  PROVE  SetToSeq({x}) = <<x>>
<1>1. Cardinality({x}) = 1
  BY FS_Singleton
<1>2. ASSUME NEW f \in [1..1 -> {x}] PROVE f = <<x>> /\ IsInjective(f)
  <2>1. DOMAIN f = {1} /\ f[1] = x
    OBVIOUS
  <2>2. IsInjective(f)
    BY <2>1 DEF IsInjective
  <2>3. f = [i \in 1..1 |-> x]
    OBVIOUS
  <2>4. f = <<x>>
    BY <2>3
  <2> QED BY <2>2, <2>4
<1>3. <<x>> \in [1..1 -> {x}]
  OBVIOUS
<1> HIDE DEF IsInjective
<1>4. SetToSeq({x}) \in [1..1 -> {x}]
  BY <1>1, <1>2, <1>3 DEF SetToSeq
<1> QED BY <1>2, <1>4

\* The answers about a frame, of one more.
About(a, i) == {k \in DOMAIN a : a[k].to = i}

LEMMA AboutMore ==
  ASSUME NEW a \in Seq(Answers), NEW x \in Answers, NEW i
  PROVE  /\ Append(a, x) \in Seq(Answers) /\ Len(Append(a, x)) = Len(a) + 1
         /\ \A k \in 1..Len(a) : Append(a, x)[k] = a[k]
         /\ Append(a, x)[Len(a) + 1] = x
         /\ About(Append(a, x), i) = About(a, i) \cup (IF x.to = i THEN {Len(a) + 1} ELSE {})
<1> HIDE DEF Answers
<1> DEFINE n == Len(a)
           b == Append(a, x)
<1>1. b \in Seq(Answers) /\ Len(b) = n + 1 /\ (\A k \in 1..n : b[k] = a[k]) /\ b[n + 1] = x
      /\ DOMAIN b = 1..(n + 1) /\ DOMAIN a = 1..n /\ n \in Nat
  OBVIOUS
<1> HIDE DEF n, b
<1>2. About(b, i) = About(a, i) \cup (IF x.to = i THEN {n + 1} ELSE {})
  BY <1>1 DEF About
<1> QED BY <1>1, <1>2 DEF n, b

Answered(a, i, f) == IF Due(f) THEN \E k : About(a, i) = {k} ELSE About(a, i) = {}

AnswerInv ==
  /\ answers \in Seq(Answers)
  /\ \A k \in DOMAIN answers : /\ answers[k].to <= Len(got)
                               /\ answers[k].to # 0 => answers[k].pdu.seq = Header(got[answers[k].to].frame, 4)
  /\ \A i \in DOMAIN got : Answered(answers, i, got[i].frame)

LEMMA AnswerInit == Init => AnswerInv
<1> SUFFICES ASSUME Init PROVE AnswerInv
  OBVIOUS
<1>1. answers = <<>> /\ got = <<>>
  BY DEF Init
<1>2. DOMAIN answers = {} /\ DOMAIN got = {} /\ answers \in Seq(Answers)
  BY <1>1
<1> QED BY <1>2 DEF AnswerInv

LEMMA AnswerNext == FrameInv /\ AnswerInv /\ [Next]_vars => AnswerInv'
<1> SUFFICES ASSUME FrameInv, AnswerInv, [Next]_vars PROVE AnswerInv'
  OBVIOUS
<1>0. /\ answers \in Seq(Answers) /\ Len(answers) \in Nat /\ DOMAIN answers = 1..Len(answers)
      /\ got \in Seq(Handleds) /\ Len(got) \in Nat /\ DOMAIN got = 1..Len(got) /\ frame \in OctetStrings
  BY DEF AnswerInv, FrameInv
<1>00. ASSUME NEW k \in 1..Len(answers)
       PROVE  /\ answers[k] \in Answers /\ answers[k].to \in Nat /\ answers[k].to <= Len(got)
              /\ answers[k].to # 0 => answers[k].pdu.seq = Header(got[answers[k].to].frame, 4)
  <2>1. answers[k] \in Answers
    BY <1>0
  <2> QED BY <1>0, <2>1 DEF AnswerInv, Answers
<1>1. ASSUME UNCHANGED <<got, answers>> PROVE AnswerInv'
  BY <1>1 DEF AnswerInv
<1>2. CASE ReadLength
  <2>1. UNCHANGED got
    BY <1>2 DEF ReadLength
  <2>2. CASE UNCHANGED answers
    BY <1>1, <2>1, <2>2
  <2>3. CASE ~UNCHANGED answers
    <3> DEFINE x == [to |-> 0, pdu |-> PDU(GenericNack, StatusInvCmdLen, 0, NoBody)]
    <3>1. answers' = Append(answers, x)
      BY <1>2, <2>3 DEF ReadLength
    <3>2. x \in Answers /\ x.to = 0
      <4>1. 0 \in 0..(Values(Word) - 1)
        BY CommandIds
      <4> QED BY <4>1, ResponseIs DEF Answers, BareResponses, Status
    <3> HIDE DEF x
    <3>3. /\ answers' \in Seq(Answers) /\ Len(answers') = Len(answers) + 1
          /\ \A k \in 1..Len(answers) : answers'[k] = answers[k]
          /\ answers'[Len(answers) + 1] = x
      BY <1>0, <3>1, <3>2, AboutMore
    <3>4. ASSUME NEW i \in DOMAIN got PROVE About(answers', i) = About(answers, i)
      <4>1. x.to # i
        BY <1>0, <3>2
      <4>2. About(answers', i) = About(answers, i) \cup (IF x.to = i THEN {Len(answers) + 1} ELSE {})
        BY <1>0, <3>1, <3>2, AboutMore
      <4> QED BY <4>1, <4>2
    <3>5. ASSUME NEW k \in DOMAIN answers'
          PROVE  /\ answers'[k].to <= Len(got)
                 /\ answers'[k].to # 0 => answers'[k].pdu.seq = Header(got[answers'[k].to].frame, 4)
      <4>1. DOMAIN answers' = 1..(Len(answers) + 1)
        BY <3>3
      <4>2. CASE k \in 1..Len(answers)
        BY <1>00, <3>3, <4>2
      <4>3. CASE k = Len(answers) + 1
        BY <1>0, <3>2, <3>3, <4>3
      <4>4. k \in 1..Len(answers) \/ k = Len(answers) + 1
        BY <1>0, <4>1
      <4> QED BY <4>2, <4>3, <4>4
    <3>6. ASSUME NEW i \in DOMAIN got
          PROVE  Answered(answers', i, got[i].frame)
      <4>1. Answered(answers, i, got[i].frame)
        BY <3>6 DEF AnswerInv
      <4> QED BY <3>4, <4>1 DEF Answered
    <3> QED BY <2>1, <3>3, <3>5, <3>6 DEF AnswerInv
  <2> QED BY <2>2, <2>3
<1>3. CASE HandleFrame
  <2> DEFINE n == Len(got) + 1
             f == frame
  <2>1. /\ got' = Append(got, Handled(f)) /\ rpc = "decode"
        /\ answers' = answers \o SetToSeq({[to |-> n, pdu |-> p] : p \in Reply(f)})
    BY <1>3 DEF HandleFrame, Handled, Reply
  <2>2. f \in OctetStrings /\ Len(f) \in HeaderLen..MaxPDULen
    <3>1. Len(frame) \in Nat /\ Len(frame) >= Word /\ LengthFits(frame) /\ Len(frame) = Header(frame, 1)
      BY <1>0, <2>1, ConfigFacts DEF FrameInv, OctetStrings
    <3> QED BY <1>0, <3>1, ConfigFacts DEF LengthFits
  <2>3. /\ DOMAIN got' = 1..n /\ Len(got') = n /\ (\A j \in 1..Len(got) : got'[j] = got[j])
        /\ got'[n] = Handled(f) /\ got'[n].frame = f
    <3>1. Handled(f) \in Handleds
      BY <2>2 DEF Handleds
    <3>2. Handled(f).frame = f
      BY DEF Handled
    <3> DEFINE h == Handled(f)
    <3> HIDE DEF h
    <3>3. h \in Handleds /\ got' = Append(got, h) /\ h.frame = f
      BY <2>1, <3>1, <3>2 DEF h
    <3>4. /\ DOMAIN got' = 1..n /\ Len(got') = n /\ (\A j \in 1..Len(got) : got'[j] = got[j]) /\ got'[n] = h
      BY <1>0, <3>3
    <3> QED BY <3>3, <3>4 DEF h
  <2>4. /\ Reply(f) = {} \/ \E p \in BareResponses : Reply(f) = {p} /\ p.seq = Header(f, 4)
        /\ Reply(f) # {} <=> Due(f)
    BY <2>2, ReplyIs
  <2>5. About(answers, n) = {}
    <3>1. \A k \in 1..Len(answers) : answers[k].to # n
      BY <1>0, <1>00
    <3> QED BY <1>0, <3>1 DEF About
  <2> HIDE DEF f
  <2>6. CASE Reply(f) = {}
    <3>1. {[to |-> n, pdu |-> p] : p \in Reply(f)} = {}
      BY <2>6
    <3>2. answers' = answers \o <<>>
      BY <2>1, <3>1, SetToSeqOfNone
    <3>3. answers' = answers
      <4> HIDE DEF Answers
      <4> QED BY <1>0, <3>2, ConcatEmptySeq
    <3>4. ASSUME NEW k \in 1..Len(answers)
          PROVE  /\ answers[k].to <= Len(got')
                 /\ answers[k].to # 0 => answers[k].pdu.seq = Header(got'[answers[k].to].frame, 4)
      <4>1. answers[k].to # 0 => answers[k].to \in 1..Len(got)
        BY <1>0, <1>00
      <4>2. answers[k].to <= Len(got')
        BY <1>0, <1>00, <2>3
      <4>3. answers[k].to # 0 => got'[answers[k].to] = got[answers[k].to]
        BY <2>3, <4>1
      <4> QED BY <1>00, <4>2, <4>3
    <3>5. ASSUME NEW i \in 1..n
          PROVE  Answered(answers, i, got'[i].frame)
      <4>1. CASE i \in 1..Len(got)
        BY <1>0, <2>3, <3>5, <4>1 DEF AnswerInv
      <4>2. CASE i = n
        <5>1. ~Due(f)
          BY <2>3, <2>4, <2>6, <3>5, <4>2
        <5> QED BY <2>3, <2>5, <4>2, <5>1 DEF Answered
      <4>3. i \in 1..Len(got) \/ i = n
        BY <1>0
      <4> QED BY <4>1, <4>2, <4>3
    <3> HIDE DEF n
    <3> QED BY <1>0, <2>3, <3>3, <3>4, <3>5 DEF AnswerInv
  <2>7. ASSUME NEW p \in BareResponses, Reply(f) = {p}, p.seq = Header(f, 4) PROVE AnswerInv'
    <3> DEFINE x == [to |-> n, pdu |-> p]
    <3>1. {[to |-> n, pdu |-> q] : q \in Reply(f)} = {x}
      BY <2>7
    <3>2. x \in Answers /\ x.to = n /\ x.pdu = p
      BY <1>0 DEF Answers
    <3> HIDE DEF x
    <3>3. answers' = answers \o <<x>>
      BY <2>1, <3>1, SetToSeqOfOne
    <3>4. answers' = Append(answers, x)
      <4> HIDE DEF Answers
      <4> QED BY <1>0, <3>2, <3>3, AppendIsConcat
    <3>5. /\ answers' \in Seq(Answers) /\ Len(answers') = Len(answers) + 1
          /\ \A k \in 1..Len(answers) : answers'[k] = answers[k]
          /\ answers'[Len(answers) + 1] = x
      BY <1>0, <3>2, <3>4, AboutMore
    <3>6. ASSUME NEW i PROVE About(answers', i) = About(answers, i) \cup (IF n = i THEN {Len(answers) + 1} ELSE {})
      BY <1>0, <3>2, <3>4, AboutMore
    <3>7. ASSUME NEW k \in DOMAIN answers'
          PROVE  /\ answers'[k].to <= Len(got')
                 /\ answers'[k].to # 0 => answers'[k].pdu.seq = Header(got'[answers'[k].to].frame, 4)
      <4>1. CASE k \in 1..Len(answers)
        <5>1. answers[k].to # 0 => answers[k].to \in 1..Len(got)
          BY <1>0, <1>00, <4>1
        <5>2. answers[k].to <= Len(got')
          BY <1>0, <1>00, <2>3, <4>1
        <5>3. answers[k].to # 0 => got'[answers[k].to] = got[answers[k].to]
          BY <2>3, <5>1
        <5> QED BY <1>00, <3>5, <4>1, <5>2, <5>3
      <4>2. CASE k = Len(answers) + 1
        <5>1. answers'[k].to = n /\ answers'[k].pdu.seq = Header(f, 4)
          BY <2>7, <3>2, <3>5, <4>2
        <5>2. n <= Len(got')
          BY <1>0, <2>3
        <5> QED BY <2>3, <5>1, <5>2
      <4>3. DOMAIN answers' = 1..(Len(answers) + 1)
        BY <3>5
      <4>4. k \in 1..Len(answers) \/ k = Len(answers) + 1
        BY <1>0, <4>3
      <4> QED BY <4>1, <4>2, <4>4
    <3>8. ASSUME NEW i \in 1..n
          PROVE  Answered(answers', i, got'[i].frame)
      <4>1. CASE i \in 1..Len(got)
        <5>1. Answered(answers, i, got[i].frame) /\ got'[i] = got[i]
          BY <1>0, <2>3, <3>8, <4>1 DEF AnswerInv
        <5>2. n # i
          BY <1>0, <4>1
        <5>3. About(answers', i) = About(answers, i)
          BY <3>6, <5>2
        <5> QED BY <5>1, <5>3 DEF Answered
      <4>2. CASE i = n
        <5>1. Due(f)
          BY <2>3, <2>4, <2>7, <3>8, <4>2
        <5>2. About(answers', i) = {Len(answers) + 1}
          BY <2>5, <3>6, <4>2
        <5> QED BY <2>3, <4>2, <5>1, <5>2 DEF Answered
      <4>3. i \in 1..Len(got) \/ i = n
        BY <1>0
      <4> QED BY <4>1, <4>2, <4>3
    <3> HIDE DEF n
    <3> QED BY <2>3, <3>5, <3>7, <3>8 DEF AnswerInv
  <2> QED BY <2>4, <2>6, <2>7
<1>4. CASE ReadOctet \/ ReadFails \/ Rearm \/ UNCHANGED vars
  <2>1. UNCHANGED <<got, answers>>
    BY <1>4 DEF ReadOctet, ReadFails, Rearm, vars
  <2> QED BY <1>1, <2>1
<1> QED BY <1>2, <1>3, <1>4 DEF Next

\* rejectMalformed, for every stream of octets: each answer is a response that its receiver can
\* decode, with the sequence number of the frame it is about; every frame that does not decode
\* has one answer, except a malformed response of a known command, which has none. An unknown
\* command_id is answered also with the response bit set.
THEOREM AnswersFollowFrames == Spec => []AnswersCorrelate
<1>1. FrameInv /\ AnswerInv => AnswersCorrelate
  <2> SUFFICES ASSUME FrameInv, AnswerInv PROVE AnswersCorrelate
    OBVIOUS
  <2>1. ASSUME NEW k \in DOMAIN answers
        PROVE  /\ IsResponse(answers[k].pdu.id)
               /\ Decode(Encode(answers[k].pdu).frame) = [err |-> "none", pdu |-> Seen(answers[k].pdu)]
               /\ answers[k].to # 0 => answers[k].pdu.seq = Header(got[answers[k].to].frame, 4)
    <3>1. answers \in Seq(Answers)
      BY DEF AnswerInv
    <3>2. answers[k] \in Answers
      <4> HIDE DEF Answers
      <4> QED BY <3>1
    <3>3. answers[k].pdu \in BareResponses
      BY <3>2 DEF Answers
    <3> QED BY <3>3, BareIsSent, RoundTrip DEF AnswerInv
  <2>2. ASSUME NEW i \in DOMAIN got
        PROVE  LET id == Header(got[i].frame, 2)
               IN  Cardinality(About(answers, i))
                     = IF got[i].decoded.err # "none" /\ ~(IsResponse(id) /\ id \in KnownCommands) THEN 1 ELSE 0
    <3>1. Answered(answers, i, got[i].frame)
      BY <2>2 DEF AnswerInv
    <3>2. LET id == Header(got[i].frame, 2)
          IN  Due(got[i].frame) <=> got[i].decoded.err # "none" /\ ~(IsResponse(id) /\ id \in KnownCommands)
      BY GotIs DEF Due
    <3>3. CASE Due(got[i].frame)
      <4>1. PICK k : About(answers, i) = {k}
        BY <3>1, <3>3 DEF Answered
      <4>2. Cardinality({k}) = 1
        BY FS_Singleton
      <4> QED BY <3>2, <3>3, <4>1, <4>2
    <3>4. CASE ~Due(got[i].frame)
      <4>1. About(answers, i) = {}
        BY <3>1, <3>4 DEF Answered
      <4>2. Cardinality({}) = 0
        BY FS_EmptySet
      <4> QED BY <3>2, <3>4, <4>1, <4>2
    <3> QED BY <3>3, <3>4
  <2>3. \A i \in DOMAIN got : About(answers, i) = {k \in DOMAIN answers : answers[k].to = i}
    BY DEF About
  <2> HIDE DEF About
  <2> QED BY <2>1, <2>2, <2>3 DEF AnswersCorrelate
<1>2. Init => FrameInv /\ AnswerInv
  BY FrameInit, AnswerInit
<1>3. FrameInv /\ AnswerInv /\ [Next]_vars => FrameInv' /\ AnswerInv'
  BY FrameNext, AnswerNext
<1> QED BY <1>1, <1>2, <1>3, PTL DEF Spec
-----------------------------------------------------------------------------
(***************************************************************************)
(* End to end. What each kind of item decodes to, and that up to the first *)
(* length that lies the k-th frame read is the k-th that was sent: both    *)
(* begin at the same place, and a frame is as long as its first word says. *)
(***************************************************************************)
LEMMA SmallRemainder ==
  ASSUME NEW v \in Nat \ {0}, NEW x \in 0..(v - 1)
  PROVE  x % v = x
<1>1. x \in Nat /\ 0 \in Nat /\ x = 0 * v + x
  OBVIOUS
<1> QED BY <1>1, Quotient

LEMMA BaseIsSmall == Base < Values(Word)
<1> DEFINE n == Word - 1
           m == Word - 2
           c == Values(m)
           d == Values(n)
<1>1. n \in Nat /\ m \in Nat /\ n = m + 1 /\ Word = n + 1
  BY ConfigFacts
<1>2. Values(m + 1) = Base * c /\ Values(n + 1) = Base * d /\ c \in Nat \ {0}
  BY <1>1, ValuesNext, ValuesPositive
<1>3. d = Base * c /\ Values(Word) = Base * d
  BY <1>1, <1>2
<1> HIDE DEF c, d
<1>4. \A a \in Nat, b \in Nat \ {0} : a * b >= a /\ a * b \in Nat
  <2> SUFFICES ASSUME NEW a \in Nat, NEW b \in Nat \ {0} PROVE a * b >= a /\ a * b \in Nat
    OBVIOUS
  <2>1. b - 1 \in Nat /\ a * (b - 1) \in Nat /\ a * b = a * (b - 1) + a
    OBVIOUS
  <2> QED BY <2>1
<1>5. d \in Nat /\ d >= 2
  <2>1. Base * c >= Base /\ Base * c \in Nat
    BY <1>2, <1>4, ConfigFacts
  <2> DEFINE e == Base * c
  <2> HIDE DEF e
  <2>2. e >= Base /\ e \in Nat /\ d = e
    BY <1>3, <2>1 DEF e
  <2> QED BY <2>2, ConfigFacts
<1>6. Base * d = Base * (d - 1) + Base /\ d - 1 \in Nat \ {0}
  BY <1>5, ConfigFacts
<1>7. Base * (d - 1) >= Base /\ Base * (d - 1) \in Nat
  BY <1>4, <1>6, ConfigFacts
<1> DEFINE e == Base * (d - 1)
<1> HIDE DEF e
<1>8. Values(Word) = e + Base /\ e >= Base /\ e \in Nat
  BY <1>3, <1>6, <1>7 DEF e
<1> QED BY <1>8, ConfigFacts

\* Adding less than the number of values never comes round to the same one.
LEMMA NotRound ==
  ASSUME NEW v \in Nat \ {0}, NEW x \in 0..(v - 1), NEW b \in Nat \ {0}, b < v
  PROVE  (x + b) % v # x
<1>1. CASE x + b < v
  <2>1. x + b \in 0..(v - 1)
    BY <1>1
  <2>2. (x + b) % v = x + b
    BY <2>1, SmallRemainder
  <2> QED BY <2>2
<1>2. CASE ~(x + b < v)
  <2>1. (x + b) - v \in 0..(v - 1) /\ x + b = 1 * v + ((x + b) - v) /\ x + b \in Nat /\ 1 \in Nat
    BY <1>2
  <2>2. (x + b) % v = (x + b) - v
    BY <2>1, Quotient
  <2> QED BY <2>2
<1> QED BY <1>1, <1>2

\* What is sent, by its kind.
LEMMA WordsAre ==
  ASSUME NEW p, WellFormed(p), Encode(p).err = "none", NEW kind \in SentKinds, NEW g, g = Words(p, kind)
  PROVE  /\ g \in OctetStrings /\ Len(g) \in HeaderLen..MaxPDULen
         /\ kind # "bad_length" => Header(g, 1) = Len(g)
         /\ kind = "bad_length" => Header(g, 1) = Len(g) + HeaderLen
         /\ kind = "as_meant" => Decode(g) = [err |-> "none", pdu |-> Seen(p)]
         /\ kind = "unknown_command_id" => Decode(g).err = "ErrUnknownCommand"
         /\ kind = "bad_sequence" => /\ Decode(g) = [err |-> "none", pdu |-> PDU(p.id, p.status, Header(g, 4), Seen(p).body)]
                                     /\ Header(g, 4) # p.seq
<1> DEFINE f == Encode(p).frame
           b == FlattenSeq(Written(p.id, p.body))
           v == Values(Word)
<1>1. /\ f \in OctetStrings /\ Len(f) \in HeaderLen..MaxPDULen
      /\ Header(f, 1) = Len(f) /\ Header(f, 2) = p.id /\ Header(f, 3) = p.status /\ Header(f, 4) = p.seq
      /\ Len(f) = HeaderLen + Len(b) /\ At(f, HeaderLen, b)
  BY EncodeIs
<1>2. b \in OctetStrings
  BY BodyOctets
<1>3. Decode(f) = [err |-> "none", pdu |-> Seen(p)]
  BY RoundTrip
<1> HIDE DEF f
<1>4. Len(f) \in Nat /\ Len(f) >= HeaderLen /\ Len(f) <= MaxPDULen /\ v \in Nat \ {0}
  BY <1>1, ConfigFacts, CommandIds
<1>5. 1 \in 1..4 /\ 2 \in 1..4 /\ 3 \in 1..4 /\ 4 \in 1..4
  OBVIOUS
<1>6. p.seq \in 0..(v - 1)
  BY DEF WellFormed
<1>7. CASE kind = "as_meant"
  <2>1. g = f
    BY <1>7 DEF Words, f
  <2> QED BY <1>1, <1>3, <1>7, <2>1
<1>8. CASE kind = "bad_length"
  <2>1. g = SetHeader(f, 1, Len(f) + HeaderLen)
    BY <1>1, <1>8 DEF Words, f
  <2>2. Len(f) + HeaderLen \in 0..(v - 1) /\ Len(f) + HeaderLen \in Nat
    <3>1. MaxPDULen <= v - HeaderLen - 1
      BY <1>4, CodecConfig, ConfigFacts
    <3> HIDE DEF v
    <3> QED BY <1>4, <3>1, ConfigFacts
  <2>3. g \in OctetStrings /\ Len(g) = Len(f) /\ Header(g, 1) = (Len(f) + HeaderLen) % v
    BY <1>1, <1>4, <1>5, <2>1, <2>2, SetHeaderIs
  <2>4. (Len(f) + HeaderLen) % v = Len(f) + HeaderLen
    <3> HIDE DEF v
    <3> QED BY <1>4, <2>2, SmallRemainder
  <2> QED BY <1>1, <1>8, <2>3, <2>4
<1>9. CASE kind = "unknown_command_id"
  <2>1. g = SetHeader(f, 2, unknownCommandID)
    BY <1>9 DEF Words, f
  <2>2. unknownCommandID \in 0..(v - 1) /\ unknownCommandID \in Nat /\ unknownCommandID \notin KnownCommands
    BY CommandIds
  <2>3. g \in OctetStrings /\ Len(g) = Len(f) /\ Header(g, 2) = unknownCommandID % v /\ Header(g, 1) = Header(f, 1)
    <3>1. 1 # 2
      OBVIOUS
    <3> QED BY <1>1, <1>4, <1>5, <2>1, <2>2, <3>1, SetHeaderIs
  <2>4. unknownCommandID % v = unknownCommandID
    <3> HIDE DEF v
    <3> QED BY <1>4, <2>2, SmallRemainder
  <2>5. Decode(g).err = "ErrUnknownCommand"
    BY <1>1, <2>2, <2>3, <2>4, DecodedIsSent
  <2> QED BY <1>1, <1>9, <2>3, <2>5
<1>10. CASE kind = "bad_sequence"
  <2>1. g = SetHeader(f, 4, p.seq + Base)
    BY <1>1, <1>10 DEF Words, f
  <2>2. p.seq + Base \in Nat
    BY <1>4, <1>6, ConfigFacts
  <2>3. /\ g \in OctetStrings /\ Len(g) = Len(f) /\ Header(g, 4) = (p.seq + Base) % v
        /\ \A j \in 1..4 : j # 4 => Header(g, j) = Header(f, j)
        /\ \A i \in (HeaderLen + 1)..Len(f) : g[i] = f[i]
    <3> DEFINE x == p.seq + Base
    <3>1. x \in Nat /\ g = SetHeader(f, 4, x)
      BY <2>1, <2>2
    <3> HIDE DEF x
    <3>2. f \in OctetStrings /\ Len(f) >= HeaderLen /\ 4 \in 1..4
      BY <1>1, <1>4
    <3>3. /\ g \in OctetStrings /\ Len(g) = Len(f) /\ Header(g, 4) = x % Values(Word)
          /\ \A j \in 1..4 : j # 4 => Header(g, j) = Header(f, j)
          /\ \A i \in (HeaderLen + 1)..Len(f) : g[i] = f[i]
      BY <3>1, <3>2, SetHeaderIs
    <3> QED BY <3>3 DEF x
  <2>30. Header(g, 1) = Header(f, 1) /\ Header(g, 2) = Header(f, 2) /\ Header(g, 3) = Header(f, 3)
    <3>1. 1 # 4 /\ 2 # 4 /\ 3 # 4
      OBVIOUS
    <3> QED BY <1>5, <2>3, <3>1
  <2>4. (p.seq + Base) % v # p.seq
    <3>1. Base < v
      BY BaseIsSmall
    <3> HIDE DEF v
    <3> QED BY <1>4, <1>6, <3>1, ConfigFacts, NotRound
  <2>5. At(g, HeaderLen, b)
    <3> HIDE DEF b
    <3>0. Len(b) \in Nat
      BY <1>2 DEF OctetStrings
    <3>1. ASSUME NEW i \in 1..Len(b) PROVE g[HeaderLen + i] = b[i]
      <4>1. HeaderLen + i \in (HeaderLen + 1)..Len(f)
        BY <1>1, <1>4, <3>0, ConfigFacts
      <4>2. g[HeaderLen + i] = f[HeaderLen + i]
        BY <2>3, <4>1
      <4> QED BY <1>1, <4>2 DEF At
    <3>2. HeaderLen + Len(b) <= Len(g)
      BY <1>1, <1>4, <2>3
    <3> QED BY <3>1, <3>2 DEF At
  <2>6. Decode(g) = [err |-> "none", pdu |-> PDU(p.id, Header(g, 3), Header(g, 4), Seen(p).body)]
    BY <1>1, <2>3, <2>30, <2>5, DecodeOf
  <2> QED BY <1>1, <1>10, <2>3, <2>30, <2>4, <2>6
<1> QED BY <1>7, <1>8, <1>9, <1>10 DEF SentKinds

\* Two frames that begin alike say the same length.
LEMMA SameFirstWord ==
  ASSUME NEW f \in OctetStrings, NEW g \in OctetStrings, Len(f) >= Word, Len(g) >= Word,
         \A i \in 1..Word : f[i] = g[i]
  PROVE  Header(f, 1) = Header(g, 1)
<1> DEFINE u == SubSeq(f, 1, Word)
           w == SubSeq(g, 1, Word)
<1>1. (1 - 1) * Word + 1 = 1 /\ 1 * Word = Word /\ 0 + 1 = 1 /\ 0 + Word = Word /\ 0 \in Nat
  BY ConfigFacts
<1>2. Header(f, 1) = Number(u) /\ Header(g, 1) = Number(w)
  BY <1>1 DEF Header
<1>3. 0 + Word <= Len(f) /\ 0 + Word <= Len(g)
  BY <1>1
<1>4. /\ SubSeq(f, 0 + 1, 0 + Word) \in OctetStrings /\ Len(SubSeq(f, 0 + 1, 0 + Word)) = Word
      /\ \A i \in 1..Word : SubSeq(f, 0 + 1, 0 + Word)[i] = f[0 + i]
  BY <1>1, <1>3, ConfigFacts, CutIs
<1>5. /\ SubSeq(g, 0 + 1, 0 + Word) \in OctetStrings /\ Len(SubSeq(g, 0 + 1, 0 + Word)) = Word
      /\ \A i \in 1..Word : SubSeq(g, 0 + 1, 0 + Word)[i] = g[0 + i]
  BY <1>1, <1>3, ConfigFacts, CutIs
<1>6. \A i \in 1..Word : 0 + i = i
  OBVIOUS
<1>7. u \in OctetStrings /\ Len(u) = Word /\ \A i \in 1..Word : u[i] = f[i]
  BY <1>1, <1>4, <1>6
<1>8. w \in OctetStrings /\ Len(w) = Word /\ \A i \in 1..Word : w[i] = g[i]
  BY <1>1, <1>5, <1>6
<1> HIDE DEF u, w
<1>9. \A i \in 1..Len(u) : u[i] = w[i]
  BY <1>7, <1>8
<1>10. u = w
  BY <1>7, <1>8, <1>9, SeqEqual DEF OctetStrings
<1> QED BY <1>2, <1>10

\* The stream is what was sent, and each frame read is as long as it says.
SentFrames(s) == [i \in DOMAIN s |-> s[i].frame]

StreamInv ==
  /\ script \in Scripts /\ stream = FlattenSeq(SentFrames(script))
  /\ \A i \in DOMAIN got : Header(got[i].frame, 1) = Len(got[i].frame)

LEMMA StreamInit == Init => StreamInv
<1> SUFFICES ASSUME Init PROVE StreamInv
  OBVIOUS
<1>1. script \in Scripts /\ stream = FlattenSeq(SentFrames(script)) /\ got = <<>>
  BY DEF Init, SentFrames
<1>2. DOMAIN got = {}
  BY <1>1
<1> QED BY <1>1, <1>2 DEF StreamInv

LEMMA StreamNext == FrameInv /\ StreamInv /\ [Next]_vars => StreamInv'
<1> SUFFICES ASSUME FrameInv, StreamInv, [Next]_vars PROVE StreamInv'
  OBVIOUS
<1>1. UNCHANGED <<script, stream>>
  BY DEF Next, ReadOctet, ReadLength, ReadFails, Rearm, HandleFrame, vars
<1>2. CASE UNCHANGED got
  BY <1>1, <1>2 DEF StreamInv
<1>3. CASE HandleFrame
  <2> DEFINE h == Handled(frame)
             n == Len(got) + 1
  <2>1. got' = Append(got, h) /\ rpc = "decode"
    BY <1>3 DEF HandleFrame, Handled
  <2>2. got \in Seq(Handleds) /\ frame \in OctetStrings /\ Header(frame, 1) = Len(frame)
    BY <2>1 DEF FrameInv
  <2>3. h \in Handleds /\ h.frame = frame
    BY <2>2 DEF Handleds, Handled
  <2> HIDE DEF h
  <2>4. /\ DOMAIN got' = 1..n /\ DOMAIN got = 1..Len(got) /\ Len(got) \in Nat
        /\ (\A j \in 1..Len(got) : got'[j] = got[j]) /\ got'[n] = h
    BY <2>1, <2>2, <2>3
  <2>5. ASSUME NEW i \in DOMAIN got' PROVE Header(got'[i].frame, 1) = Len(got'[i].frame)
    <3>1. CASE i \in 1..Len(got)
      BY <2>4, <3>1 DEF StreamInv
    <3>2. CASE i = n
      BY <2>2, <2>3, <2>4, <3>2
    <3>3. i \in 1..Len(got) \/ i = n
      BY <2>4
    <3> QED BY <3>1, <3>2, <3>3
  <2> QED BY <1>1, <2>5 DEF StreamInv
<1>4. UNCHANGED got \/ HandleFrame
  BY DEF Next, ReadOctet, ReadLength, ReadFails, Rearm, vars
<1> QED BY <1>2, <1>3, <1>4

\* Where the frames of the script lie.
LEMMA SentIs ==
  ASSUME NEW s \in Scripts
  PROVE  /\ SentFrames(s) \in Seq(OctetStrings) /\ Len(SentFrames(s)) = Len(s) /\ Len(s) \in Nat
         /\ DOMAIN s = 1..Len(s) /\ \A i \in 1..Len(s) : SentFrames(s)[i] = s[i].frame
<1>1. Len(s) \in Nat /\ DOMAIN s = 1..Len(s)
  BY ScriptsAreSent
<1>2. \A i \in 1..Len(s) : s[i].frame \in OctetStrings
  BY <1>1, ItemIs
<1>3. SentFrames(s) = [i \in 1..Len(s) |-> s[i].frame]
  BY <1>1 DEF SentFrames
<1>4. SentFrames(s) \in Seq(OctetStrings) /\ Len(SentFrames(s)) = Len(s)
  <2> HIDE DEF OctetStrings
  <2> QED BY <1>1, <1>2, <1>3
<1> QED BY <1>1, <1>3, <1>4

Honest(j) == script[j].kind \notin {"bad_length", "raw"}

\* Where the frames read lie in the stream.
LEMMA GotLies ==
  ASSUME FrameInv, NEW n \in 0..(Len(got) - 1)
  PROVE  /\ Frames(got) \in Seq(OctetStrings) /\ Len(Frames(got)) = Len(got) /\ Len(got) \in Nat
         /\ DOMAIN got = 1..Len(got) /\ \A i \in 1..Len(got) : Frames(got)[i] = got[i].frame
         /\ FlattenSeq(SubSeq(Frames(got), 1, n)) \in OctetStrings
         /\ At(stream, Len(FlattenSeq(SubSeq(Frames(got), 1, n))), got[n + 1].frame)
<1> DEFINE g == Frames(got)
           F == FlattenSeq(g)
           o == FlattenSeq(SubSeq(g, 1, n))
<1>0. got \in Seq(Handleds) /\ Len(got) \in Nat /\ DOMAIN got = 1..Len(got)
      /\ stream \in OctetStrings /\ pos \in 0..Len(stream) /\ frame \in OctetStrings
  BY DEF FrameInv
<1>1. g = [i \in 1..Len(got) |-> got[i].frame]
  BY <1>0 DEF Frames
<1>2. \A i \in 1..Len(got) : got[i].frame \in OctetStrings
  BY <1>0, GotIs
<1>3. g \in Seq(OctetStrings) /\ Len(g) = Len(got) /\ \A i \in 1..Len(got) : g[i] = got[i].frame
  <2> HIDE DEF OctetStrings, g
  <2> QED BY <1>0, <1>1, <1>2
<1>30. F \o frame = SubSeq(stream, 1, pos)
  BY DEF FrameInv
<1> HIDE DEF g
<1>4. n \in 0..(Len(g) - 1) /\ n + 1 \in 1..Len(got) /\ n \in Nat
  BY <1>0, <1>3
<1>5. o \in OctetStrings /\ At(F, Len(o), g[n + 1])
  BY <1>3, <1>4, FlattenParts DEF OctetStrings
<1>6. F \in OctetStrings
  BY <1>3, FlattenIsSeq DEF OctetStrings
<1> HIDE DEF F, o
<1>7. At(stream, 0, F \o frame)
  <2>0. Len(stream) \in Nat /\ pos \in Nat /\ 0 \in Nat /\ 0 + pos <= Len(stream) /\ 0 + 1 = 1 /\ 0 + pos = pos
    BY <1>0 DEF OctetStrings
  <2>1. /\ SubSeq(stream, 0 + 1, 0 + pos) \in OctetStrings /\ Len(SubSeq(stream, 0 + 1, 0 + pos)) = pos
        /\ \A i \in 1..pos : SubSeq(stream, 0 + 1, 0 + pos)[i] = stream[0 + i]
    BY <1>0, <2>0, CutIs
  <2> DEFINE m == SubSeq(stream, 1, pos)
  <2>2. Len(m) = pos /\ \A i \in 1..pos : m[i] = stream[0 + i]
    BY <2>0, <2>1
  <2> HIDE DEF m
  <2>3. At(stream, 0, m)
    BY <2>0, <2>2 DEF At
  <2> QED BY <1>30, <2>3 DEF m
<1>8. At(stream, 0, F)
  <2>1. Len(stream) \in Nat /\ 0 \in Nat
    BY <1>0 DEF OctetStrings
  <2> QED BY <1>0, <1>6, <1>7, <2>1, AtParts DEF OctetStrings
<1>9. At(stream, Len(o), got[n + 1].frame)
  <2> DEFINE x == got[n + 1].frame
             l == Len(o)
  <2>1. x \in OctetStrings /\ x = g[n + 1]
    BY <1>2, <1>3, <1>4
  <2> HIDE DEF x
  <2>2. Len(stream) \in Nat /\ Len(F) \in Nat /\ l \in Nat /\ Len(x) \in Nat /\ 0 \in Nat
    BY <1>0, <1>5, <1>6, <2>1 DEF OctetStrings
  <2> HIDE DEF l
  <2>3. At(F, l, x)
    BY <1>5, <2>1 DEF l
  <2>4. At(stream, 0 + l, x)
    BY <1>8, <2>2, <2>3, AtWithin
  <2>5. 0 + l = l
    BY <2>2
  <2> QED BY <2>4, <2>5 DEF x, l
<1> QED BY <1>0, <1>3, <1>5, <1>9 DEF g, o

\* The frame read at the place of an item.
LEMMA FrameAtItem ==
  ASSUME FrameInv, StreamInv, NEW i \in DOMAIN got, NEW o \in Nat,
         i \in DOMAIN script, At(stream, o, got[i].frame), At(stream, o, script[i].frame)
  PROVE  /\ Honest(i) => got[i].frame = script[i].frame
         /\ script[i].kind = "bad_length" => Len(got[i].frame) > Len(script[i].frame)
<1> DEFINE f == got[i].frame
           s == script[i].frame
           p == script[i].meant
           kind == script[i].kind
<1> SUFFICES ASSUME kind # "raw"
             PROVE  /\ Honest(i) => f = s
                    /\ kind = "bad_length" => Len(f) > Len(s)
  BY DEF Honest
<1>1. f \in OctetStrings /\ Len(f) \in HeaderLen..MaxPDULen /\ Header(f, 1) = Len(f)
  BY GotIs DEF StreamInv
<1>2. /\ WellFormed(p) /\ Encode(p).err = "none" /\ kind \in SentKinds /\ s = Words(p, kind)
  BY ItemIs DEF StreamInv
<1>20. Honest(i) => kind # "bad_length"
  BY DEF Honest
<1>30. At(stream, o, f) /\ At(stream, o, s)
  OBVIOUS
<1> HIDE DEF f, s, p, kind
<1>3. /\ s \in OctetStrings /\ Len(s) \in HeaderLen..MaxPDULen
      /\ kind # "bad_length" => Header(s, 1) = Len(s)
      /\ kind = "bad_length" => Header(s, 1) = Len(s) + HeaderLen
  BY <1>2, WordsAre
<1>4. Len(f) \in Nat /\ Len(s) \in Nat /\ Len(f) >= Word /\ Len(s) >= Word /\ HeaderLen \in Nat /\ HeaderLen >= 1
  BY <1>1, <1>3, ConfigFacts
<1>5. \A j \in 1..Len(f) : stream[o + j] = f[j]
  BY <1>30 DEF At
<1>6. \A j \in 1..Len(s) : stream[o + j] = s[j]
  BY <1>30 DEF At
<1>7. \A j \in 1..Word : f[j] = s[j]
  <2> SUFFICES ASSUME NEW j \in 1..Word PROVE f[j] = s[j]
    OBVIOUS
  <2>1. j \in 1..Len(f) /\ j \in 1..Len(s)
    BY <1>4, ConfigFacts
  <2> QED BY <1>5, <1>6, <2>1
<1>8. Header(f, 1) = Header(s, 1)
  BY <1>1, <1>3, <1>4, <1>7, SameFirstWord
<1>9. kind = "bad_length" => Len(f) > Len(s)
  BY <1>1, <1>3, <1>4, <1>8
<1>10. ASSUME Honest(i) PROVE f = s
  <2>1. Len(f) = Len(s)
    BY <1>1, <1>3, <1>8, <1>10, <1>20
  <2>2. \A j \in 1..Len(f) : f[j] = s[j]
    BY <1>5, <1>6, <2>1
  <2> QED BY <1>1, <1>3, <2>1, <2>2, SeqEqual DEF OctetStrings
<1> QED BY <1>9, <1>10

\* Up to the first length that lies the frames read are those sent.
Aligned(i) ==
  (\A j \in 1..(i - 1) : Honest(j)) =>
     /\ i \in DOMAIN script
     /\ Honest(i) => got[i].frame = script[i].frame
     /\ script[i].kind = "bad_length" => Len(got[i].frame) > Len(script[i].frame)

LEMMA FramesAlign ==
  ASSUME FrameInv, StreamInv
  PROVE  \A i \in DOMAIN got : Aligned(i)
<1> DEFINE T == {i \in DOMAIN got : ~Aligned(i)}
           s == SentFrames(script)
           g == Frames(got)
<1>0. got \in Seq(Handleds) /\ Len(got) \in Nat /\ DOMAIN got = 1..Len(got) /\ stream \in OctetStrings
  BY DEF FrameInv
<1>1. /\ s \in Seq(OctetStrings) /\ Len(s) = Len(script) /\ Len(script) \in Nat
      /\ DOMAIN script = 1..Len(script) /\ \A i \in 1..Len(script) : s[i] = script[i].frame
  BY SentIs DEF StreamInv
<1>2. stream = FlattenSeq(s)
  BY DEF StreamInv
<1> SUFFICES ASSUME T # {} PROVE FALSE
  OBVIOUS
<1>3. T \subseteq Nat
  BY <1>0
<1>4. PICK i \in T : \A j \in T : i <= j
  BY <1>3, LeastNatural
<1>5. i \in 1..Len(got) /\ ~Aligned(i) /\ i \in Nat
  BY <1>0
<1> DEFINE n == i - 1
<1>6. n \in 0..(Len(got) - 1) /\ n \in Nat /\ n + 1 = i /\ \A j \in 1..n : j \in DOMAIN got /\ j \notin T
  BY <1>0, <1>4, <1>5
<1>7. \A j \in 1..n : Honest(j)
  BY <1>5 DEF Aligned
<1>8. ASSUME NEW j \in 1..n PROVE j \in 1..Len(script) /\ got[j].frame = script[j].frame
  <2>1. Aligned(j)
    BY <1>6
  <2>2. \A k \in 1..(j - 1) : k \in 1..n
    BY <1>6
  <2>3. \A k \in 1..(j - 1) : Honest(k)
    BY <1>7, <2>2
  <2> QED BY <1>1, <1>7, <2>1, <2>3 DEF Aligned
<1> HIDE DEF n, T, s, g
<1>9. n <= Len(script)
  <2>1. CASE n = 0
    BY <1>1, <2>1
  <2>2. CASE n # 0
    <3>1. n \in 1..n
      BY <1>6, <2>2
    <3> QED BY <1>1, <1>6, <1>8, <3>1
  <2> QED BY <2>1, <2>2
<1>10. /\ g \in Seq(OctetStrings) /\ Len(g) = Len(got) /\ \A k \in 1..Len(got) : g[k] = got[k].frame
       /\ FlattenSeq(SubSeq(g, 1, n)) \in OctetStrings
       /\ At(stream, Len(FlattenSeq(SubSeq(g, 1, n))), got[n + 1].frame)
  BY <1>6, GotLies DEF g
<1>11. SubSeq(g, 1, n) = SubSeq(s, 1, n)
  <2>1. \A k \in 1..n : g[k] = s[k]
    BY <1>1, <1>6, <1>8, <1>10, <1>0
  <2>2. n <= Len(g) /\ n <= Len(s) /\ Len(g) \in Nat /\ Len(s) \in Nat
    BY <1>0, <1>1, <1>6, <1>9, <1>10
  <2> HIDE DEF OctetStrings
  <2>3. SubSeq(g, 1, n) \in Seq(OctetStrings) /\ Len(SubSeq(g, 1, n)) = n /\ \A k \in 1..n : SubSeq(g, 1, n)[k] = g[k]
    BY <1>6, <1>10, <2>2
  <2>4. SubSeq(s, 1, n) \in Seq(OctetStrings) /\ Len(SubSeq(s, 1, n)) = n /\ \A k \in 1..n : SubSeq(s, 1, n)[k] = s[k]
    BY <1>1, <1>6, <2>2
  <2> QED BY <2>1, <2>3, <2>4, SeqEqual
<1> DEFINE o == Len(FlattenSeq(SubSeq(s, 1, n)))
<1>12. o \in Nat /\ At(stream, o, got[i].frame)
  <2>1. FlattenSeq(SubSeq(s, 1, n)) \in OctetStrings /\ At(stream, o, got[n + 1].frame)
    BY <1>10, <1>11
  <2>2. o \in Nat
    BY <2>1 DEF OctetStrings
  <2> HIDE DEF o
  <2> QED BY <1>6, <2>1, <2>2
<1>13. got[i].frame \in OctetStrings /\ Len(got[i].frame) \in Nat /\ Len(got[i].frame) >= 1
  <2>1. got[i].frame \in OctetStrings /\ Len(got[i].frame) \in HeaderLen..MaxPDULen
    BY <1>0, <1>5, GotIs
  <2> QED BY <2>1, ConfigFacts
<1>14. i \in 1..Len(script)
  <2> SUFFICES ASSUME n = Len(script) PROVE FALSE
    BY <1>1, <1>6, <1>9
  <2>1. SubSeq(s, 1, n) = s
    BY <1>1, SubSeqFull
  <2>2. o = Len(stream)
    BY <1>2, <2>1
  <2> HIDE DEF o
  <2>3. o + Len(got[i].frame) <= o
    BY <1>12, <2>2 DEF At
  <2> QED BY <1>12, <1>13, <2>3
<1>15. At(stream, o, script[i].frame)
  <2>1. n \in 0..(Len(s) - 1)
    BY <1>1, <1>6, <1>14
  <2>2. At(FlattenSeq(s), o, s[n + 1])
    BY <1>1, <2>1, FlattenParts DEF OctetStrings
  <2> HIDE DEF o
  <2> QED BY <1>1, <1>2, <1>6, <1>14, <2>2
<1> HIDE DEF o
<1>16. /\ Honest(i) => got[i].frame = script[i].frame
       /\ script[i].kind = "bad_length" => Len(got[i].frame) > Len(script[i].frame)
  BY <1>0, <1>1, <1>5, <1>12, <1>14, <1>15, FrameAtItem
<1> QED BY <1>1, <1>5, <1>14, <1>16 DEF Aligned

\* Encode, EncodeEdgeCase, ReadPDU and Decode from end to end, for every script: up to the first
\* length that lies a PDU arrives as it was meant, and a malformed one never passes for what was
\* meant.
THEOREM FramesDecodeAsMeant == Spec => []DecodesAsMeant
<1>1. FrameInv /\ StreamInv => DecodesAsMeant
  <2> SUFFICES ASSUME FrameInv, StreamInv, NEW i \in DOMAIN got,
                      script[i].kind # "raw", \A j \in 1..(i - 1) : script[j].kind \notin {"bad_length", "raw"}
               PROVE  CASE script[i].kind = "as_meant" -> got[i].decoded = [err |-> "none", pdu |-> Seen(script[i].meant)]
                        [] script[i].kind = "unknown_command_id" -> got[i].decoded.err = "ErrUnknownCommand"
                        [] script[i].kind = "bad_sequence" ->
                             /\ got[i].decoded.err = "none" /\ got[i].decoded.pdu.seq # Seen(script[i].meant).seq
                             /\ [got[i].decoded.pdu EXCEPT !.seq = Seen(script[i].meant).seq] = Seen(script[i].meant)
                        [] script[i].kind = "bad_length" -> Len(got[i].frame) > Len(script[i].frame)
    BY DEF DecodesAsMeant
  <2>1. i \in DOMAIN script /\ (Honest(i) => got[i].frame = script[i].frame)
        /\ (script[i].kind = "bad_length" => Len(got[i].frame) > Len(script[i].frame))
    <3>1. Aligned(i)
      BY FramesAlign
    <3>2. \A j \in 1..(i - 1) : Honest(j)
      BY DEF Honest
    <3> QED BY <3>1, <3>2 DEF Aligned
  <2>2. script \in Scripts
    BY DEF StreamInv
  <2> DEFINE f == script[i].frame
             p == script[i].meant
             kind == script[i].kind
             d == got[i].decoded
  <2>3. WellFormed(p) /\ Encode(p).err = "none" /\ kind \in SentKinds /\ f = Words(p, kind)
    BY <2>1, <2>2, ItemIs
  <2>4. /\ kind = "as_meant" => Decode(f) = [err |-> "none", pdu |-> Seen(p)]
        /\ kind = "unknown_command_id" => Decode(f).err = "ErrUnknownCommand"
        /\ kind = "bad_sequence" => /\ Decode(f) = [err |-> "none", pdu |-> PDU(p.id, p.status, Header(f, 4), Seen(p).body)]
                                    /\ Header(f, 4) # p.seq
    <3> HIDE DEF f, p, kind
    <3> QED BY <2>3, WordsAre
  <2>5. kind # "bad_length" => d = Decode(f)
    <3>1. kind # "bad_length" => Honest(i)
      BY DEF Honest
    <3> QED BY <2>1, <3>1, GotIs
  <2>6. Seen(p) = PDU(p.id, p.status, p.seq, Seen(p).body)
    BY <2>3, SeenIs
  <2>7. kind = "bad_length" => Len(got[i].frame) > Len(f)
    BY <2>1
  <2> HIDE DEF f, p, kind, d
  <2>8. kind = "bad_sequence" => /\ d.err = "none" /\ d.pdu.seq # Seen(p).seq
                                 /\ [d.pdu EXCEPT !.seq = Seen(p).seq] = Seen(p)
    <3> SUFFICES ASSUME kind = "bad_sequence"
                 PROVE  d.err = "none" /\ d.pdu.seq # Seen(p).seq /\ [d.pdu EXCEPT !.seq = Seen(p).seq] = Seen(p)
      OBVIOUS
    <3> DEFINE q == PDU(p.id, p.status, Header(f, 4), Seen(p).body)
               b == Seen(p).body
    <3>1. d = [err |-> "none", pdu |-> q] /\ Header(f, 4) # p.seq
      BY <2>4, <2>5
    <3>2. d.err = "none" /\ d.pdu = q
      BY <3>1
    <3> HIDE DEF b
    <3>3. Seen(p) = PDU(p.id, p.status, p.seq, b) /\ q = PDU(p.id, p.status, Header(f, 4), b)
      BY <2>6 DEF b
    <3> HIDE DEF q
    <3>4. Seen(p).seq = p.seq /\ q.seq = Header(f, 4)
      <4> HIDE DEF Seen
      <4> QED BY <3>3 DEF PDU
    <3>5. [q EXCEPT !.seq = p.seq] = PDU(p.id, p.status, p.seq, b)
      BY <3>3 DEF PDU
    <3> QED BY <3>1, <3>2, <3>3, <3>4, <3>5
  <2>9. CASE kind = "as_meant"
    BY <2>4, <2>5, <2>9 DEF f, p, kind, d
  <2>10. CASE kind = "unknown_command_id"
    BY <2>4, <2>5, <2>10 DEF f, p, kind, d
  <2>11. CASE kind = "bad_sequence"
    BY <2>8, <2>11 DEF f, p, kind, d
  <2>12. CASE kind = "bad_length"
    BY <2>7, <2>12 DEF f, p, kind, d
  <2> QED BY <2>3, <2>9, <2>10, <2>11, <2>12 DEF SentKinds
<1>2. Init => FrameInv /\ StreamInv
  BY FrameInit, StreamInit
<1>3. FrameInv /\ StreamInv /\ [Next]_vars => FrameInv' /\ StreamInv'
  BY FrameNext, StreamNext
<1> QED BY <1>1, <1>2, <1>3, PTL DEF Spec
=============================================================================
