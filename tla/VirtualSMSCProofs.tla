------------------------- MODULE VirtualSMSCProofs --------------------------
(***************************************************************************)
(* A virtual SMSC for any number of connections, binds and submits, for    *)
(* every configuration and every stream of draws: no two binds share an    *)
(* identity; each bind's submits are in the recorder in tick order with    *)
(* none missing; a throughput gate lets by at most twice its cap within a  *)
(* second; the gauge shows the active profile; a seeded bind decides what  *)
(* it would decide alone; edge cases shift none of its draws; and outcomes *)
(* and errors are drawn in the proportion of their weights.                *)
(***************************************************************************)
EXTENDS VirtualSMSC, ScheduleProofs

Points == {"closed", "ordinal", "bound", "transition", "gauge", "commit", "record", "leave"}

\* What a live bind may already have in the recorder: ticks up to its clock, and not the one
\* it is about to record.
RecordedBelow(s) ==
  \A i \in DOMAIN journal : journal[i].bind = id[s] =>
    /\ journal[i].tick <= perBindClock[s]
    /\ pc[s] = "record" => journal[i].tick < perBindClock[s]

IdentityInv ==
  /\ bindSeq \in Nat /\ pc \in [Slots -> Points]
  /\ id \in [Slots -> Nat] /\ perBindClock \in [Slots -> Nat]
  /\ journal \in Seq([bind : Nat, tick : Nat])
  /\ \A s \in Slots : pc[s] # "closed" => id[s] <= bindSeq /\ RecordedBelow(s)
  /\ \A i \in DOMAIN journal : journal[i].bind <= bindSeq
  /\ NoSharedIdentity

USE DEF smscVars, observedVars, bindVars, Points

\* An entry of the recorder is an ordinal and a tick.
LEMMA EntryOfJournal ==
  ASSUME IdentityInv, NEW i \in DOMAIN journal
  PROVE  journal[i].bind \in Nat /\ journal[i].tick \in Nat
<1>1. journal \in Seq([bind : Nat, tick : Nat]) /\ i \in 1..Len(journal)
  BY DEF IdentityInv
<1>2. journal[i] \in [bind : Nat, tick : Nat]
  BY <1>1, ElementOfSeq
<1> QED BY <1>2

\* newVirtualSMSC: nobody is bound and nothing is recorded.
LEMMA IdentityInvInit == Init => IdentityInv
<1> SUFFICES ASSUME Init PROVE IdentityInv
  OBVIOUS
<1>1. journal \in Seq([bind : Nat, tick : Nat]) /\ DOMAIN journal = {}
  BY EmptySeq DEF Init
<1>2. registry = {id[s] : s \in {r \in Slots : Registered(r)}}
  BY DEF Init, Registered
<1> QED BY <1>1, <1>2 DEF Init, IdentityInv, NoSharedIdentity, RecordedBelow

\* The steps of a bind that touch neither ordinals, clocks, registry nor recorder, and keep it
\* registered and short of recording.
LEMMA QuietStepKeepsIdentity ==
  ASSUME IdentityInv, NEW s \in Slots, Registered(s), NEW q \in Points \ {"closed", "ordinal", "record"},
         pc' = [pc EXCEPT ![s] = q],
         UNCHANGED <<bindSeq, registry, journal, id, perBindClock>>
  PROVE  IdentityInv'
<1>1. {r \in Slots : Registered(r)}' = {r \in Slots : Registered(r)}
  BY DEF IdentityInv, Registered
<1>2. registry' = {id[r] : r \in {x \in Slots : Registered(x)}}'
  BY <1>1 DEF IdentityInv, NoSharedIdentity
<1> QED BY <1>2 DEF IdentityInv, NoSharedIdentity, RecordedBelow, Registered

\* handleBind's atomic add: an ordinal no bind has had.
LEMMA TakeOrdinalKeepsIdentity ==
  ASSUME IdentityInv, NEW s \in Slots, TakeOrdinal(s)
  PROVE  IdentityInv'
<1>1. /\ pc[s] = "closed" /\ pc' = [pc EXCEPT ![s] = "ordinal"]
      /\ bindSeq' = bindSeq + 1 /\ id' = [id EXCEPT ![s] = bindSeq + 1]
      /\ UNCHANGED <<registry, journal, perBindClock>>
  BY DEF TakeOrdinal
<1>2. \A r \in Slots : Registered(r)' <=> Registered(r)
  BY <1>1 DEF IdentityInv, Registered
<1>3. {r \in Slots : Registered(r)}' = {r \in Slots : Registered(r)}
  BY <1>2
<1>4. \A r \in Slots : Registered(r) => r # s
  BY <1>1 DEF Registered
<1>5. registry' = {id[r] : r \in {x \in Slots : Registered(x)}}'
  BY <1>1, <1>3, <1>4 DEF IdentityInv, NoSharedIdentity
<1>6. \A i \in DOMAIN journal : journal[i].bind <= bindSeq' /\ journal[i].bind # bindSeq + 1
  BY <1>1, EntryOfJournal DEF IdentityInv
<1>7. \A r \in Slots : pc'[r] # "closed" => id'[r] <= bindSeq' /\ RecordedBelow(r)'
  BY <1>1, <1>6 DEF IdentityInv, RecordedBelow
<1>8. \A r, q \in Slots : (r # q /\ pc'[r] # "closed" /\ pc'[q] # "closed") => id'[r] # id'[q]
  BY <1>1 DEF IdentityInv, NoSharedIdentity
<1>9. /\ bindSeq' \in Nat /\ pc' \in [Slots -> Points] /\ id' \in [Slots -> Nat]
      /\ \A i \in DOMAIN journal' : journal'[i].bind <= bindSeq'
  BY <1>1, <1>6 DEF IdentityInv
<1> QED BY <1>1, <1>5, <1>7, <1>8, <1>9 DEF IdentityInv, NoSharedIdentity

\* bindRegistry.add
LEMMA RegisterKeepsIdentity ==
  ASSUME IdentityInv, NEW s \in Slots, Register(s)
  PROVE  IdentityInv'
<1>1. /\ pc[s] = "ordinal" /\ pc' = [pc EXCEPT ![s] = "bound"]
      /\ registry' = registry \cup {id[s]}
      /\ UNCHANGED <<bindSeq, journal, id, perBindClock>>
  BY DEF Register
<1>2. {r \in Slots : Registered(r)}' = {r \in Slots : Registered(r)} \cup {s}
  BY <1>1 DEF IdentityInv, Registered
<1>3. registry' = {id[r] : r \in {x \in Slots : Registered(x)}}'
  BY <1>1, <1>2 DEF IdentityInv, NoSharedIdentity
<1> QED BY <1>1, <1>3 DEF IdentityInv, NoSharedIdentity, RecordedBelow

\* bindRegistry.remove: it takes out this bind and no other, since no other has its ordinal.
LEMMA LeaveKeepsIdentity ==
  ASSUME IdentityInv, NEW s \in Slots, Leave(s)
  PROVE  IdentityInv'
<1>1. /\ pc[s] \notin {"closed", "ordinal"} /\ pc' = [pc EXCEPT ![s] = "closed"]
      /\ registry' = registry \ {id[s]} /\ id' = [id EXCEPT ![s] = 0]
      /\ perBindClock' = [perBindClock EXCEPT ![s] = 0]
      /\ UNCHANGED <<bindSeq, journal>>
  BY DEF Leave
<1>2. {r \in Slots : Registered(r)}' = {r \in Slots : Registered(r)} \ {s}
  BY <1>1 DEF IdentityInv, Registered
<1>3. \A r \in Slots : Registered(r) /\ r # s => id[r] # id[s] /\ id'[r] = id[r]
  BY <1>1 DEF IdentityInv, NoSharedIdentity, Registered
<1>4. registry' = {id[r] : r \in {x \in Slots : Registered(x)}}'
  <2>1. registry = {id[r] : r \in {x \in Slots : Registered(x)}}
    BY DEF IdentityInv, NoSharedIdentity
  <2>2. registry \ {id[s]} = {id'[r] : r \in {x \in Slots : Registered(x)} \ {s}}
    BY <2>1, <1>3
  <2> QED BY <1>1, <1>2, <2>2
<1>5. \A r \in Slots : pc'[r] # "closed" =>
        r # s /\ pc'[r] = pc[r] /\ id'[r] = id[r] /\ perBindClock'[r] = perBindClock[r]
  BY <1>1 DEF IdentityInv
<1>6. \A r \in Slots : pc'[r] # "closed" => id'[r] <= bindSeq' /\ RecordedBelow(r)'
  BY <1>1, <1>5 DEF IdentityInv, RecordedBelow
<1>7. \A r, q \in Slots : (r # q /\ pc'[r] # "closed" /\ pc'[q] # "closed") => id'[r] # id'[q]
  BY <1>5 DEF IdentityInv, NoSharedIdentity
<1>8. /\ pc' \in [Slots -> Points] /\ id' \in [Slots -> Nat] /\ perBindClock' \in [Slots -> Nat]
  BY <1>1 DEF IdentityInv
<1> QED BY <1>1, <1>4, <1>6, <1>7, <1>8 DEF IdentityInv, NoSharedIdentity

\* handleSubmit: the bind's clock moves past everything it has in the recorder.
LEMMA CommitKeepsIdentity ==
  ASSUME IdentityInv, NEW s \in Slots, Commit(s)
  PROVE  IdentityInv'
<1>1. /\ pc[s] = "commit" /\ pc' = [pc EXCEPT ![s] = "record"]
      /\ perBindClock' = [perBindClock EXCEPT ![s] = @ + 1]
      /\ UNCHANGED <<bindSeq, registry, journal, id>>
  BY DEF Commit
<1>2. {r \in Slots : Registered(r)}' = {r \in Slots : Registered(r)}
  BY <1>1 DEF IdentityInv, Registered
<1>3. registry' = {id[r] : r \in {x \in Slots : Registered(x)}}'
  BY <1>1, <1>2 DEF IdentityInv, NoSharedIdentity
<1>4. \A i \in DOMAIN journal : journal[i].tick \in Nat
  BY EntryOfJournal
<1>5. \A r \in Slots : pc'[r] # "closed" => id'[r] <= bindSeq' /\ RecordedBelow(r)'
  BY <1>1, <1>4 DEF IdentityInv, RecordedBelow
<1>6. pc' \in [Slots -> Points] /\ perBindClock' \in [Slots -> Nat]
  BY <1>1 DEF IdentityInv
<1>7. \A r, q \in Slots : (r # q /\ pc'[r] # "closed" /\ pc'[q] # "closed") => id'[r] # id'[q]
  BY <1>1 DEF IdentityInv, NoSharedIdentity
<1> QED BY <1>1, <1>3, <1>5, <1>6, <1>7 DEF IdentityInv, NoSharedIdentity

\* recorder.Append: the ordinal and the tick make an id that is not there yet.
LEMMA RecordKeepsIdentity ==
  ASSUME IdentityInv, NEW s \in Slots, Record(s)
  PROVE  IdentityInv'
<1> DEFINE e == [bind |-> id[s], tick |-> perBindClock[s]]
<1>1. /\ pc[s] = "record" /\ \E q \in {"leave", "bound"} : pc' = [pc EXCEPT ![s] = q]
      /\ journal' = Append(journal, e)
      /\ UNCHANGED <<bindSeq, registry, id, perBindClock>>
  BY DEF Record
<1>2. {r \in Slots : Registered(r)}' = {r \in Slots : Registered(r)}
  BY <1>1 DEF IdentityInv, Registered
<1>3. registry' = {id[r] : r \in {x \in Slots : Registered(x)}}'
  BY <1>1, <1>2 DEF IdentityInv, NoSharedIdentity
<1>4. e \in [bind : Nat, tick : Nat] /\ journal \in Seq([bind : Nat, tick : Nat])
  BY DEF IdentityInv
<1>5. /\ journal' \in Seq([bind : Nat, tick : Nat])
      /\ DOMAIN journal = 1..Len(journal) /\ DOMAIN journal' = 1..(Len(journal) + 1)
      /\ Len(journal) \in Nat /\ journal'[Len(journal) + 1] = e
      /\ \A i \in DOMAIN journal : journal'[i] = journal[i]
  BY <1>1, <1>4, AppendProperties
<1>6. \A i \in DOMAIN journal' : i \in DOMAIN journal \/ i = Len(journal) + 1
  BY <1>5
<1>7. \A i \in DOMAIN journal : journal[i] # e
  <2> SUFFICES ASSUME NEW i \in DOMAIN journal, journal[i] = e PROVE FALSE
    OBVIOUS
  <2>1. journal[i].bind = id[s] /\ journal[i].tick = perBindClock[s]
    OBVIOUS
  <2>2. journal[i].tick < perBindClock[s]
    BY <1>1, <2>1 DEF IdentityInv, RecordedBelow
  <2> QED BY <2>1, <2>2, EntryOfJournal
<1>8. \A i, j \in DOMAIN journal' : journal'[i] = journal'[j] => i = j
  BY <1>5, <1>6, <1>7 DEF IdentityInv, NoSharedIdentity
<1>9. \A r \in Slots : pc'[r] # "closed" => id'[r] <= bindSeq' /\ RecordedBelow(r)'
  <2> SUFFICES ASSUME NEW r \in Slots, pc'[r] # "closed", NEW i \in DOMAIN journal', journal'[i].bind = id[r]
               PROVE  /\ journal'[i].tick <= perBindClock[r]
                      /\ pc'[r] = "record" => journal'[i].tick < perBindClock[r]
    BY <1>1 DEF IdentityInv, RecordedBelow
  <2>1. pc[r] # "closed" /\ (pc'[r] = "record" => r # s /\ pc[r] = "record")
    BY <1>1 DEF IdentityInv
  <2>2. CASE i \in DOMAIN journal
    BY <2>1, <2>2, <1>5 DEF IdentityInv, RecordedBelow
  <2>3. CASE i = Len(journal) + 1
    <3>1. r = s
      BY <2>1, <2>3, <1>1, <1>5 DEF IdentityInv, NoSharedIdentity
    <3> QED BY <3>1, <2>1, <2>3, <1>5 DEF IdentityInv
  <2> QED BY <2>2, <2>3, <1>6
<1>10. \A i \in DOMAIN journal' : journal'[i].bind <= bindSeq'
  BY <1>1, <1>5, <1>6 DEF IdentityInv
<1>11. pc' \in [Slots -> Points]
      /\ \A r, q \in Slots : (r # q /\ pc'[r] # "closed" /\ pc'[q] # "closed") => id'[r] # id'[q]
  BY <1>1 DEF IdentityInv, NoSharedIdentity
<1> QED BY <1>1, <1>3, <1>5, <1>8, <1>9, <1>10, <1>11 DEF IdentityInv, NoSharedIdentity

\* Every step of a virtual SMSC keeps its identities.
LEMMA IdentityInvStep == IdentityInv /\ [Next]_vars => IdentityInv'
<1> SUFFICES ASSUME IdentityInv, [Next]_vars PROVE IdentityInv'
  OBVIOUS
<1>1. ASSUME UNCHANGED <<bindSeq, registry, journal, pc, id, perBindClock>> PROVE IdentityInv'
  BY <1>1 DEF IdentityInv, NoSharedIdentity, RecordedBelow, Registered
<1>2. CASE Load \/ Elapse \/ UNCHANGED vars
  BY <1>1, <1>2 DEF Load, Elapse, vars
<1>3. ASSUME NEW s \in Slots, Submit(s) \/ ApplyTransition(s) \/ MoveGauge(s) \/ Decide(s)
      PROVE  IdentityInv'
  <2>1. /\ Registered(s)
        /\ \E q \in Points \ {"closed", "ordinal", "record"} : pc' = [pc EXCEPT ![s] = q]
        /\ UNCHANGED <<bindSeq, registry, journal, id, perBindClock>>
    BY <1>3 DEF Submit, ApplyTransition, MoveGauge, Decide, Registered
  <2> QED BY <2>1, QuietStepKeepsIdentity
<1> QED BY <1>2, <1>3, TakeOrdinalKeepsIdentity, RegisterKeepsIdentity, LeaveKeepsIdentity,
           CommitKeepsIdentity, RecordKeepsIdentity DEF Next

\* bindSeq, messageID, bindRegistry: however many binds come and go and however their steps
\* interleave, no two share an ordinal, no two recorded submits share a message id, and the
\* registry holds exactly the registered binds.
THEOREM IdentitiesAreNeverShared == Spec => []NoSharedIdentity
<1>1. IdentityInv => NoSharedIdentity
  BY DEF IdentityInv
<1> QED BY IdentityInvInit, IdentityInvStep, <1>1, PTL DEF Spec
-----------------------------------------------------------------------------
(***************************************************************************)
(* The corpus. A bind's clock counts its entries in the recorder, plus the *)
(* submit it has committed and not recorded yet; the logical clock counts  *)
(* everybody's.                                                            *)
(***************************************************************************)
EntriesOf(log, b, n) == {j \in 1..n : log[j].bind = b}
Recording == {s \in Slots : pc[s] = "record"}
InHand(s) == IF pc[s] = "record" THEN 1 ELSE 0

CorpusInv ==
  /\ IdentityInv
  /\ IsFiniteSet(Recording)
  /\ logicalClock = Len(journal) + Cardinality(Recording)
  /\ \A s \in Slots : pc[s] = "closed" => perBindClock[s] = 0
  /\ \A s \in Slots : pc[s] # "closed" =>
       Cardinality(EntriesOf(journal, id[s], Len(journal))) + InHand(s) = perBindClock[s]
  /\ \A i \in DOMAIN journal : journal[i].tick = Cardinality(EntriesOf(journal, journal[i].bind, i))

\* A bind has finitely many entries.
LEMMA EntriesAreFinite ==
  ASSUME NEW log, NEW b, NEW n \in Nat
  PROVE  IsFiniteSet(EntriesOf(log, b, n)) /\ Cardinality(EntriesOf(log, b, n)) \in Nat
<1>1. IsFiniteSet(1..n) /\ EntriesOf(log, b, n) \subseteq 1..n
  BY FS_Interval DEF EntriesOf
<1>2. IsFiniteSet(EntriesOf(log, b, n))
  BY <1>1, FS_Subset
<1> QED BY <1>2, FS_CardinalityType

\* recorder.Append counts one more entry of its bind and none of any other, and leaves the
\* count at every earlier position.
LEMMA EntriesOfAppend ==
  ASSUME NEW log \in Seq([bind : Nat, tick : Nat]), NEW e \in [bind : Nat, tick : Nat], NEW b
  PROVE  /\ \A i \in 1..Len(log) : EntriesOf(Append(log, e), b, i) = EntriesOf(log, b, i)
         /\ Cardinality(EntriesOf(Append(log, e), b, Len(log) + 1))
              = Cardinality(EntriesOf(log, b, Len(log))) + (IF e.bind = b THEN 1 ELSE 0)
<1> DEFINE more == Append(log, e)
           n == Len(log)
<1>1. n \in Nat /\ more[n + 1] = e /\ \A i \in 1..n : more[i] = log[i]
  BY AppendProperties, LenProperties
<1> HIDE DEF more, n
<1>2. \A i \in 1..n : EntriesOf(more, b, i) = EntriesOf(log, b, i)
  <2> SUFFICES ASSUME NEW i \in 1..n PROVE EntriesOf(more, b, i) = EntriesOf(log, b, i)
    OBVIOUS
  <2>1. \A j \in 1..i : j \in 1..n
    BY <1>1
  <2> QED BY <1>1, <2>1 DEF EntriesOf
<1>3. \A j : j \in 1..(n + 1) <=> (j \in 1..n \/ j = n + 1)
  BY <1>1
<1>4. CASE e.bind = b
  <2>1. EntriesOf(more, b, n + 1) = EntriesOf(log, b, n) \cup {n + 1}
    BY <1>1, <1>3, <1>4 DEF EntriesOf
  <2>2. n + 1 \notin EntriesOf(log, b, n)
    BY <1>1 DEF EntriesOf
  <2>3. Cardinality(EntriesOf(more, b, n + 1)) = Cardinality(EntriesOf(log, b, n)) + 1
    BY <1>1, <2>1, <2>2, EntriesAreFinite, FS_AddElement
  <2> QED BY <1>2, <1>4, <2>3 DEF more, n
<1>5. CASE e.bind # b
  <2>1. EntriesOf(more, b, n + 1) = EntriesOf(log, b, n)
    BY <1>1, <1>3, <1>5 DEF EntriesOf
  <2>2. Cardinality(EntriesOf(log, b, n)) + 0 = Cardinality(EntriesOf(log, b, n))
    BY <1>1, EntriesAreFinite
  <2> QED BY <1>2, <1>5, <2>1, <2>2 DEF more, n
<1> QED BY <1>4, <1>5

\* newVirtualSMSC: both clocks are at 0 and the recorder is empty.
LEMMA CorpusInvInit == Init => CorpusInv
<1> SUFFICES ASSUME Init PROVE CorpusInv
  OBVIOUS
<1>1. IdentityInv
  BY IdentityInvInit
<1>2. Recording = {} /\ \A s \in Slots : pc[s] = "closed" /\ perBindClock[s] = 0
  BY DEF Init, Recording
<1>3. IsFiniteSet(Recording) /\ Cardinality(Recording) = 0
  BY <1>2, FS_EmptySet
<1>4. Len(journal) = 0 /\ DOMAIN journal = {} /\ logicalClock = 0
  BY EmptySeq DEF Init
<1> QED BY <1>1, <1>2, <1>3, <1>4 DEF CorpusInv

\* A step that moves a live bind from one point short of recording to another.
LEMMA QuietStepKeepsCorpus ==
  ASSUME CorpusInv, IdentityInv', NEW s \in Slots, pc[s] \notin {"closed", "record"},
         NEW q \in Points \ {"closed", "record"}, pc' = [pc EXCEPT ![s] = q],
         UNCHANGED <<logicalClock, journal, id, perBindClock>>
  PROVE  CorpusInv'
<1>1. \A r \in Slots : /\ pc'[r] = "record" <=> pc[r] = "record"
                       /\ pc'[r] = "closed" <=> pc[r] = "closed"
  BY DEF CorpusInv, IdentityInv
<1>2. Recording' = Recording
  BY <1>1 DEF Recording
<1>3. \A r \in Slots : InHand(r)' = InHand(r)
  BY <1>1 DEF InHand
<1> QED BY <1>1, <1>2, <1>3 DEF CorpusInv

\* handleBind: the recorder has nothing under an ordinal that was never given.
LEMMA TakeOrdinalKeepsCorpus ==
  ASSUME CorpusInv, IdentityInv', NEW s \in Slots, TakeOrdinal(s)
  PROVE  CorpusInv'
<1>1. /\ pc[s] = "closed" /\ pc' = [pc EXCEPT ![s] = "ordinal"]
      /\ id' = [id EXCEPT ![s] = bindSeq + 1]
      /\ UNCHANGED <<logicalClock, journal, perBindClock>>
  BY DEF TakeOrdinal
<1>2. IdentityInv /\ pc \in [Slots -> Points] /\ id \in [Slots -> Nat] /\ bindSeq \in Nat
  BY DEF CorpusInv, IdentityInv
<1>3. \A r \in Slots : (pc'[r] = "record" <=> pc[r] = "record") /\ (pc'[r] = "closed" => pc[r] = "closed")
  BY <1>1, <1>2
<1>4. Recording' = Recording
  BY <1>3 DEF Recording
<1>5. EntriesOf(journal, bindSeq + 1, Len(journal)) = {}
  <2>1. \A i \in 1..Len(journal) : i \in DOMAIN journal
    BY <1>2 DEF IdentityInv
  <2>2. \A i \in 1..Len(journal) : journal[i].bind \in Nat /\ journal[i].bind <= bindSeq
    BY <1>2, <2>1, EntryOfJournal DEF IdentityInv
  <2> QED BY <1>2, <2>2 DEF EntriesOf
<1>6. Cardinality(EntriesOf(journal, id'[s], Len(journal))) + InHand(s)' = perBindClock[s]
  <2>1. id'[s] = bindSeq + 1 /\ InHand(s)' = 0 /\ perBindClock[s] = 0
    BY <1>1, <1>2 DEF InHand, CorpusInv
  <2>2. Cardinality(EntriesOf(journal, id'[s], Len(journal))) = 0
    BY <1>5, <2>1, FS_EmptySet
  <2> QED BY <2>1, <2>2
<1>7. \A r \in Slots : r # s => pc'[r] = pc[r] /\ id'[r] = id[r] /\ InHand(r)' = InHand(r)
  BY <1>1, <1>2 DEF InHand
<1>8. \A r \in Slots : pc'[r] # "closed" =>
        Cardinality(EntriesOf(journal, id'[r], Len(journal))) + InHand(r)' = perBindClock[r]
  BY <1>6, <1>7 DEF CorpusInv
<1> QED BY <1>1, <1>3, <1>4, <1>8 DEF CorpusInv

\* The session is gone; what it recorded stays.
LEMMA LeaveKeepsCorpus ==
  ASSUME CorpusInv, IdentityInv', NEW s \in Slots, Leave(s)
  PROVE  CorpusInv'
<1>1. /\ pc[s] \in {"bound", "commit", "leave"} /\ pc' = [pc EXCEPT ![s] = "closed"]
      /\ id' = [id EXCEPT ![s] = 0] /\ perBindClock' = [perBindClock EXCEPT ![s] = 0]
      /\ UNCHANGED <<logicalClock, journal>>
  BY DEF Leave
<1>2. pc \in [Slots -> Points] /\ id \in [Slots -> Nat] /\ perBindClock \in [Slots -> Nat]
  BY DEF CorpusInv, IdentityInv
<1>3. \A r \in Slots : (pc'[r] = "record" <=> pc[r] = "record")
  BY <1>1, <1>2
<1>4. Recording' = Recording
  BY <1>3 DEF Recording
<1>5. pc'[s] = "closed" /\ perBindClock'[s] = 0
  BY <1>1, <1>2
<1>6. \A r \in Slots : r # s => pc'[r] = pc[r] /\ id'[r] = id[r] /\ perBindClock'[r] = perBindClock[r]
                                /\ InHand(r)' = InHand(r)
  BY <1>1, <1>2 DEF InHand
<1> QED BY <1>1, <1>4, <1>5, <1>6 DEF CorpusInv

\* handleSubmit: both clocks count the submit before it is recorded.
LEMMA CommitKeepsCorpus ==
  ASSUME CorpusInv, IdentityInv', NEW s \in Slots, Commit(s)
  PROVE  CorpusInv'
<1>1. /\ pc[s] = "commit" /\ pc' = [pc EXCEPT ![s] = "record"]
      /\ perBindClock' = [perBindClock EXCEPT ![s] = @ + 1] /\ logicalClock' = logicalClock + 1
      /\ UNCHANGED <<journal, id>>
  BY DEF Commit
<1>2. /\ pc \in [Slots -> Points] /\ perBindClock \in [Slots -> Nat] /\ Len(journal) \in Nat
  BY LenProperties DEF CorpusInv, IdentityInv
<1>3. Recording' = Recording \cup {s} /\ s \notin Recording
  BY <1>1, <1>2 DEF Recording
<1>4. /\ IsFiniteSet(Recording') /\ Cardinality(Recording') = Cardinality(Recording) + 1
      /\ Cardinality(Recording) \in Nat
  BY <1>3, FS_AddElement, FS_CardinalityType DEF CorpusInv
<1>5. logicalClock' = Len(journal) + Cardinality(Recording')
  BY <1>1, <1>2, <1>4 DEF CorpusInv
<1>6. Cardinality(EntriesOf(journal, id[s], Len(journal))) + InHand(s)' = perBindClock'[s]
  <2>1. InHand(s) = 0 /\ InHand(s)' = 1 /\ perBindClock'[s] = perBindClock[s] + 1
    BY <1>1, <1>2 DEF InHand
  <2>2. Cardinality(EntriesOf(journal, id[s], Len(journal))) + InHand(s) = perBindClock[s]
    BY <1>1 DEF CorpusInv
  <2>3. Cardinality(EntriesOf(journal, id[s], Len(journal))) \in Nat
    BY <1>2, EntriesAreFinite
  <2> QED BY <2>1, <2>2, <2>3
<1>7. \A r \in Slots : r # s => pc'[r] = pc[r] /\ perBindClock'[r] = perBindClock[r] /\ InHand(r)' = InHand(r)
  BY <1>1, <1>2 DEF InHand
<1>8. pc'[s] = "record"
  BY <1>1, <1>2
<1> QED BY <1>1, <1>4, <1>5, <1>6, <1>7, <1>8 DEF CorpusInv

\* recorder.Append: the entry's tick is the number of entries its bind has with it.
LEMMA RecordKeepsCorpus ==
  ASSUME CorpusInv, IdentityInv', NEW s \in Slots, Record(s)
  PROVE  CorpusInv'
<1> DEFINE e == [bind |-> id[s], tick |-> perBindClock[s]]
           n == Len(journal)
           Held(b) == Cardinality(EntriesOf(journal, b, n))
<1>1. /\ pc[s] = "record" /\ \E q \in {"leave", "bound"} : pc' = [pc EXCEPT ![s] = q]
      /\ journal' = Append(journal, e)
      /\ UNCHANGED <<logicalClock, id, perBindClock>>
  BY DEF Record
<1>2. /\ pc \in [Slots -> Points] /\ id \in [Slots -> Nat] /\ perBindClock \in [Slots -> Nat]
      /\ journal \in Seq([bind : Nat, tick : Nat]) /\ e \in [bind : Nat, tick : Nat]
  BY DEF CorpusInv, IdentityInv
<1>3. /\ n \in Nat /\ Len(journal') = n + 1 /\ DOMAIN journal = 1..n /\ DOMAIN journal' = 1..(n + 1)
      /\ journal'[n + 1] = e /\ \A i \in 1..n : journal'[i] = journal[i]
  BY <1>1, <1>2, AppendProperties, LenProperties
<1>4. \A b : /\ \A i \in 1..n : EntriesOf(journal', b, i) = EntriesOf(journal, b, i)
             /\ Cardinality(EntriesOf(journal', b, n + 1)) = Held(b) + (IF id[s] = b THEN 1 ELSE 0)
  BY <1>1, <1>2, EntriesOfAppend
<1>5. \A b : Held(b) \in Nat
  BY <1>3, EntriesAreFinite
<1>6. Held(id[s]) + 1 = perBindClock[s]
  BY <1>1 DEF CorpusInv, InHand
<1> HIDE DEF Held
<1>7. Recording' = Recording \ {s} /\ s \in Recording
  BY <1>1, <1>2 DEF Recording
<1>8. /\ IsFiniteSet(Recording') /\ Cardinality(Recording') = Cardinality(Recording) - 1
      /\ Cardinality(Recording) \in Nat
  BY <1>7, FS_RemoveElement, FS_CardinalityType DEF CorpusInv
<1>9. logicalClock' = Len(journal') + Cardinality(Recording')
  BY <1>1, <1>3, <1>8 DEF CorpusInv
<1>10. \A i \in DOMAIN journal' : journal'[i].tick = Cardinality(EntriesOf(journal', journal'[i].bind, i))
  <2> SUFFICES ASSUME NEW i \in 1..(n + 1)
               PROVE  journal'[i].tick = Cardinality(EntriesOf(journal', journal'[i].bind, i))
    BY <1>3
  <2>1. CASE i \in 1..n
    <3>1. journal[i].tick = Cardinality(EntriesOf(journal, journal[i].bind, i))
      BY <1>3, <2>1 DEF CorpusInv
    <3> QED BY <3>1, <2>1, <1>3, <1>4
  <2>2. CASE i = n + 1
    <3>1. Cardinality(EntriesOf(journal', id[s], n + 1)) = perBindClock[s]
      BY <1>4, <1>6
    <3>2. journal'[i].tick = perBindClock[s] /\ journal'[i].bind = id[s]
      BY <2>2, <1>3
    <3> QED BY <2>2, <3>1, <3>2
  <2> QED BY <1>3, <2>1, <2>2
<1>11. pc'[s] \notin {"closed", "record"}
  BY <1>1, <1>2
<1>12. \A r \in Slots : r # s => pc'[r] = pc[r] /\ InHand(r)' = InHand(r)
  BY <1>1, <1>2 DEF InHand
<1>13. \A r \in Slots : pc'[r] # "closed" =>
         Cardinality(EntriesOf(journal', id[r], n + 1)) + InHand(r)' = perBindClock[r]
  <2> SUFFICES ASSUME NEW r \in Slots, pc'[r] # "closed"
               PROVE  Cardinality(EntriesOf(journal', id[r], n + 1)) + InHand(r)' = perBindClock[r]
    OBVIOUS
  <2>1. CASE r = s
    <3>1. InHand(r)' = 0
      BY <2>1, <1>11 DEF InHand
    <3> QED BY <2>1, <3>1, <1>2, <1>4, <1>5, <1>6
  <2>2. CASE r # s
    <3>1. pc[r] # "closed" /\ InHand(r)' = InHand(r)
      BY <2>2, <1>12
    <3>2. Held(id[r]) + InHand(r) = perBindClock[r]
      BY <3>1 DEF CorpusInv, Held
    <3>3. id[r] # id[s]
      BY <1>1, <2>2, <3>1 DEF CorpusInv, IdentityInv, NoSharedIdentity
    <3>4. Cardinality(EntriesOf(journal', id[r], n + 1)) = Held(id[r])
      BY <1>4, <1>5, <3>3
    <3> QED BY <3>1, <3>2, <3>4
  <2> QED BY <2>1, <2>2
<1>14. \A r \in Slots : pc'[r] = "closed" => perBindClock'[r] = 0
  BY <1>1, <1>11, <1>12 DEF CorpusInv
<1> QED BY <1>1, <1>3, <1>8, <1>9, <1>10, <1>13, <1>14 DEF CorpusInv

\* Every step of a virtual SMSC keeps the corpus of every bind.
LEMMA CorpusInvStep == CorpusInv /\ [Next]_vars => CorpusInv'
<1> SUFFICES ASSUME CorpusInv, [Next]_vars PROVE CorpusInv'
  OBVIOUS
<1>1. IdentityInv'
  BY IdentityInvStep DEF CorpusInv
<1>2. CASE Load \/ Elapse \/ UNCHANGED vars
  <2>1. UNCHANGED <<logicalClock, journal, pc, id, perBindClock>>
    BY <1>2 DEF Load, Elapse, vars
  <2> QED BY <1>1, <2>1 DEF CorpusInv, Recording, InHand
<1>3. ASSUME NEW s \in Slots, Register(s) \/ Submit(s) \/ ApplyTransition(s) \/ MoveGauge(s) \/ Decide(s)
      PROVE  CorpusInv'
  <2>1. /\ pc[s] \notin {"closed", "record"}
        /\ \E q \in Points \ {"closed", "record"} : pc' = [pc EXCEPT ![s] = q]
        /\ UNCHANGED <<logicalClock, journal, id, perBindClock>>
    BY <1>3 DEF Register, Submit, ApplyTransition, MoveGauge, Decide
  <2> QED BY <1>1, <2>1, QuietStepKeepsCorpus
<1> QED BY <1>1, <1>2, <1>3, TakeOrdinalKeepsCorpus, LeaveKeepsCorpus, CommitKeepsCorpus,
           RecordKeepsCorpus DEF Next

\* handleSubmit, recorder.Append: for any number of binds and however their submits interleave
\* in the recorder, each bind's are there in tick order with none missing or repeated, and the
\* logical clock is ahead of the recorder by the submits in hand.
THEOREM CorpusIsCompletePerBind == Spec => []CorpusPerBind
<1>1. CorpusInv => CorpusPerBind
  BY DEF CorpusInv, CorpusPerBind, EntriesOf, Recording
<1> QED BY CorpusInvInit, CorpusInvStep, <1>1, PTL DEF Spec
-----------------------------------------------------------------------------
(***************************************************************************)
(* WallWindow. Of the submits let by so far, the last m belong to the      *)
(* window that is open, the ones before them are older than the window,    *)
(* and all but a cap of those are more than a second older.                *)
(***************************************************************************)
WindowKept(a, cap, start, m) ==
  /\ \A i \in 1..Len(a) : i <= Len(a) - m => a[i] < start
  /\ \A i \in 1..Len(a) : i > Len(a) - m => a[i] < start + Second
  /\ \A i \in 1..Len(a) : i <= Len(a) - m - cap => a[i] + Second < start
  /\ \A i, j \in 1..Len(a) : j = i + 2 * cap => a[j] - a[i] > Second

\* One more submit, let by at time t: where each position of the sequence comes from.
LEMMA OneMore ==
  ASSUME NEW a \in Seq(Nat), NEW t \in Nat
  PROVE  /\ Append(a, t) \in Seq(Nat) /\ Len(a) \in Nat /\ Len(Append(a, t)) = Len(a) + 1
         /\ Append(a, t)[Len(a) + 1] = t
         /\ \A i \in 1..Len(a) : Append(a, t)[i] = a[i] /\ a[i] \in Nat
         /\ \A i \in 1..(Len(a) + 1) : i \in 1..Len(a) \/ i = Len(a) + 1
  BY AppendProperties, ElementOfSeq, LenProperties

\* A submit let by in the open window: as long as the window has let by fewer than the cap, the
\* submit two caps before it is from an older window than the previous one.
LEMMA LetByInWindow ==
  ASSUME NEW a \in Seq(Nat), NEW t \in Nat, NEW cap \in Nat, NEW start \in Int, NEW m \in Nat,
         WindowKept(a, cap, start, m), start <= t, t < start + Second, m < cap
  PROVE  WindowKept(Append(a, t), cap, start, m + 1)
<1> DEFINE b == Append(a, t)
           n == Len(a)
<1>1. /\ n \in Nat /\ Len(b) = n + 1 /\ b[n + 1] = t /\ Second \in Nat
      /\ \A i \in 1..n : b[i] = a[i] /\ a[i] \in Nat
      /\ \A i \in 1..(n + 1) : i \in 1..n \/ i = n + 1
  BY OneMore, SecondAssumption
<1>2. /\ \A i \in 1..n : i <= n - m => a[i] < start
      /\ \A i \in 1..n : i > n - m => a[i] < start + Second
      /\ \A i \in 1..n : i <= n - m - cap => a[i] + Second < start
      /\ \A i, j \in 1..n : j = i + 2 * cap => a[j] - a[i] > Second
  BY DEF WindowKept
<1> HIDE DEF b, n
<1>3. \A i \in 1..(n + 1) : i <= (n + 1) - (m + 1) => b[i] < start
  BY <1>1, <1>2
<1>4. \A i \in 1..(n + 1) : i > (n + 1) - (m + 1) => b[i] < start + Second
  BY <1>1, <1>2
<1>5. \A i \in 1..(n + 1) : i <= (n + 1) - (m + 1) - cap => b[i] + Second < start
  BY <1>1, <1>2
<1>6. \A i, j \in 1..(n + 1) : j = i + 2 * cap => b[j] - b[i] > Second
  <2> SUFFICES ASSUME NEW i \in 1..(n + 1), NEW j \in 1..(n + 1), j = i + 2 * cap PROVE b[j] - b[i] > Second
    OBVIOUS
  <2>1. i \in 1..n
    BY <1>1
  <2>2. CASE j \in 1..n
    BY <2>1, <2>2, <1>1, <1>2
  <2>3. CASE j = n + 1
    <3>1. i <= n - m - cap
      BY <1>1, <2>1, <2>3
    <3>2. a[i] + Second < start
      BY <1>2, <2>1, <3>1
    <3>3. b[j] = t /\ b[i] = a[i] /\ a[i] \in Nat /\ Second \in Nat
      BY <1>1, <2>1, <2>3
    <3>4. t - a[i] > Second
      BY <3>2, <3>3
    <3> QED BY <3>3, <3>4
  <2> QED BY <2>2, <2>3, <1>1
<1> QED BY <1>1, <1>3, <1>4, <1>5, <1>6 DEF WindowKept, b, n

\* A submit that opens a window: all that the previous one let by is behind it, and what is
\* older than the previous one is more than a second behind.
LEMMA LetByAfresh ==
  ASSUME NEW a \in Seq(Nat), NEW t \in Nat, NEW cap \in Nat, NEW start \in Int, NEW m \in Nat,
         WindowKept(a, cap, start, m), start + Second <= t, m <= cap, cap >= 1
  PROVE  WindowKept(Append(a, t), cap, t, 1)
<1> DEFINE b == Append(a, t)
           n == Len(a)
<1>1. /\ n \in Nat /\ Len(b) = n + 1 /\ b[n + 1] = t /\ Second \in Nat \ {0}
      /\ \A i \in 1..n : b[i] = a[i] /\ a[i] \in Nat
      /\ \A i \in 1..(n + 1) : i \in 1..n \/ i = n + 1
  BY OneMore, SecondAssumption
<1>2. /\ \A i \in 1..n : i <= n - m => a[i] < start
      /\ \A i \in 1..n : i > n - m => a[i] < start + Second
      /\ \A i, j \in 1..n : j = i + 2 * cap => a[j] - a[i] > Second
  BY DEF WindowKept
<1> HIDE DEF b, n
<1>3. \A i \in 1..n : a[i] < t /\ (i <= n - cap => a[i] + Second < t)
  <2> TAKE i \in 1..n
  <2>1. i \in Int /\ n \in Int /\ m \in Int /\ cap \in Int /\ a[i] \in Int /\ Second \in Nat \ {0}
    BY <1>1
  <2>2. CASE i <= n - m
    <3>1. a[i] < start BY <1>2, <2>2
    <3> QED BY <2>1, <3>1
  <2>3. CASE i > n - m
    <3>1. a[i] < start + Second BY <1>2, <2>3
    <3>2. ~(i <= n - cap) BY <2>1, <2>3
    <3> QED BY <2>1, <3>1, <3>2
  <2> QED BY <2>1, <2>2, <2>3
<1>4. \A i \in 1..(n + 1) : i <= (n + 1) - 1 => b[i] < t
  BY <1>1, <1>3
<1>5. \A i \in 1..(n + 1) : i > (n + 1) - 1 => b[i] < t + Second
  BY <1>1
<1>6. \A i \in 1..(n + 1) : i <= (n + 1) - 1 - cap => b[i] + Second < t
  BY <1>1, <1>3
<1>7. \A i, j \in 1..(n + 1) : j = i + 2 * cap => b[j] - b[i] > Second
  <2> SUFFICES ASSUME NEW i \in 1..(n + 1), NEW j \in 1..(n + 1), j = i + 2 * cap PROVE b[j] - b[i] > Second
    OBVIOUS
  <2>1. i \in 1..n
    BY <1>1
  <2>2. CASE j \in 1..n
    BY <2>1, <2>2, <1>1, <1>2
  <2>3. CASE j = n + 1
    <3>1. i <= n - cap
      BY <1>1, <2>1, <2>3
    <3>2. a[i] + Second < t
      BY <1>3, <2>1, <3>1
    <3>3. b[j] = t /\ b[i] = a[i] /\ a[i] \in Nat /\ Second \in Nat
      BY <1>1, <2>1, <2>3
    <3>4. t - a[i] > Second
      BY <3>2, <3>3
    <3> QED BY <3>3, <3>4
  <2> QED BY <2>2, <2>3, <1>1
<1> QED BY <1>1, <1>4, <1>5, <1>6, <1>7 DEF WindowKept, b, n

Gate == [capPerSec : Int, windowStart : Int, count : Nat]
\* How many of the submits let by belong to the open window.
InWindow(g) == IF g.count <= g.capPerSec THEN g.count ELSE g.capPerSec

\* What holds of a gate, the times it let a submit by, and the time now.
GateKept(g, a, t) ==
  /\ g \in Gate /\ a \in Seq(Nat) /\ g.windowStart <= t
  /\ IF g.capPerSec <= 0 THEN a = <<>>
     ELSE WindowKept(a, g.capPerSec, g.windowStart, InWindow(g))

\* Counted, field by field.
LEMMA CountedFields ==
  ASSUME NEW g \in Gate, NEW t \in Nat
  PROVE  LET h == Counted(g, t)
             fresh == t - g.windowStart >= Second
         IN  /\ h \in Gate /\ h.capPerSec = g.capPerSec
             /\ h.windowStart = IF fresh THEN t ELSE g.windowStart
             /\ h.count = (IF fresh THEN 0 ELSE g.count) + 1
             /\ Allow(g, t) <=> h.count <= g.capPerSec
<1> DEFINE h == Counted(g, t)
           fresh == t - g.windowStart >= Second
<1>1. g.capPerSec \in Int /\ g.windowStart \in Int /\ g.count \in Nat
  BY DEF Gate
<1>2. /\ h = [[g EXCEPT !.windowStart = IF fresh THEN t ELSE g.windowStart]
               EXCEPT !.count = (IF fresh THEN 0 ELSE g.count) + 1]
  BY DEF Counted, Gate
<1>3. h.capPerSec = g.capPerSec
  BY <1>2 DEF Gate
<1>4. h.windowStart = IF fresh THEN t ELSE g.windowStart
  BY <1>2 DEF Gate
<1>5. h.count = (IF fresh THEN 0 ELSE g.count) + 1
  BY <1>2 DEF Gate
<1>6. h \in Gate
  <2>1. (IF fresh THEN t ELSE g.windowStart) \in Int /\ (IF fresh THEN 0 ELSE g.count) + 1 \in Nat
    BY <1>1
  <2>2. [g EXCEPT !.windowStart = IF fresh THEN t ELSE g.windowStart] \in Gate
    BY <2>1 DEF Gate
  <2> QED BY <1>2, <2>1, <2>2 DEF Gate
<1>7. Allow(g, t) <=> h.count <= g.capPerSec
  BY DEF Allow
<1> QED BY <1>3, <1>4, <1>5, <1>6, <1>7

\* Allow keeps it, whether it lets the submit by or not.
LEMMA AllowKeepsGate ==
  ASSUME NEW g, NEW a, NEW t \in Nat, GateKept(g, a, t)
  PROVE  GateKept(Counted(g, t), IF Allow(g, t) THEN Append(a, t) ELSE a, t)
<1> DEFINE h == Counted(g, t)
           fresh == t - g.windowStart >= Second
<1>1. /\ g \in Gate /\ a \in Seq(Nat) /\ Append(a, t) \in Seq(Nat) /\ g.windowStart <= t
      /\ g.capPerSec \in Int /\ g.windowStart \in Int /\ g.count \in Nat /\ Second \in Nat
  BY OneMore, SecondAssumption DEF GateKept, Gate
<1>2. /\ h \in Gate /\ h.capPerSec = g.capPerSec
      /\ h.windowStart = IF fresh THEN t ELSE g.windowStart
      /\ h.count = (IF fresh THEN 0 ELSE g.count) + 1
      /\ Allow(g, t) <=> h.count <= g.capPerSec
  BY <1>1, CountedFields
<1> HIDE DEF h
<1>3. h.windowStart <= t
  BY <1>1, <1>2
<1>4. CASE g.capPerSec <= 0
  <2>1. ~Allow(g, t) /\ a = <<>>
    BY <1>1, <1>2, <1>4 DEF GateKept
  <2> QED BY <1>1, <1>2, <1>3, <1>4, <2>1 DEF GateKept, h
<1>5. CASE g.capPerSec > 0 /\ fresh
  <2>1. Allow(g, t) /\ InWindow(h) = 1 /\ h.windowStart = t
    BY <1>1, <1>2, <1>5 DEF InWindow
  <2>2. InWindow(g) \in Nat /\ InWindow(g) <= g.capPerSec /\ g.capPerSec \in Nat /\ g.capPerSec >= 1
    BY <1>1, <1>5 DEF InWindow
  <2>3. WindowKept(a, g.capPerSec, g.windowStart, InWindow(g))
    BY <1>1, <1>5 DEF GateKept
  <2>4. g.windowStart + Second <= t
    BY <1>1, <1>5
  <2>5. WindowKept(Append(a, t), g.capPerSec, t, 1)
    BY <1>1, <2>2, <2>3, <2>4, LetByAfresh
  <2> QED BY <1>1, <1>2, <1>3, <1>5, <2>1, <2>5 DEF GateKept, h
<1>6. CASE g.capPerSec > 0 /\ ~fresh
  <2>1. WindowKept(a, g.capPerSec, g.windowStart, InWindow(g)) /\ h.windowStart = g.windowStart
    BY <1>1, <1>2, <1>6 DEF GateKept
  <2>2. CASE Allow(g, t)
    <3>1. /\ InWindow(h) = InWindow(g) + 1 /\ InWindow(g) \in Nat /\ InWindow(g) < g.capPerSec
          /\ g.capPerSec \in Nat /\ t < g.windowStart + Second
      BY <1>1, <1>2, <1>6, <2>2 DEF InWindow
    <3>2. WindowKept(Append(a, t), g.capPerSec, g.windowStart, InWindow(g) + 1)
      BY <1>1, <2>1, <3>1, LetByInWindow
    <3> QED BY <1>1, <1>2, <1>3, <1>6, <2>1, <2>2, <3>1, <3>2 DEF GateKept, h
  <2>3. CASE ~Allow(g, t)
    <3>1. InWindow(h) = InWindow(g)
      BY <1>1, <1>2, <1>6, <2>3 DEF InWindow
    <3> QED BY <1>1, <1>2, <1>3, <1>6, <2>1, <2>3, <3>1 DEF GateKept, h
  <2> QED BY <2>2, <2>3
<1> QED BY <1>1, <1>4, <1>5, <1>6

\* A gate that has let nobody by yet.
LEMMA FreshGateKept ==
  ASSUME NEW g \in Gate, NEW t \in Nat, g.windowStart <= t
  PROVE  GateKept(g, <<>>, t)
<1>1. <<>> \in Seq(Nat) /\ Len(<<>>) = 0
  BY EmptySeq
<1> QED BY <1>1 DEF GateKept, WindowKept

GateInv ==
  /\ cfg \in Configs /\ now \in Nat
  /\ pc \in [Slots -> Points] /\ gate \in [Slots -> Gate] /\ admitted \in [Slots -> Seq(Nat)]
  /\ \A s \in Slots : GateKept(gate[s], admitted[s], now)
  /\ \A s \in Slots : pc[s] = "closed" => admitted[s] = <<>>

\* effectiveCap: what a gate is built with is one of the configured limits, a number.
LEMMA CapIsNumber ==
  ASSUME cfg \in Configs, NEW c \in EffectiveCap(Engines[Initial])
  PROVE  c \in Int
<1> DEFINE e == Engines[Initial]
           sc == vs.scenario
           own == IF ThroughputExempt(e.profile) /\ Has(e.params, "throughput_cap_per_sec")
                  THEN {e.params.throughput_cap_per_sec} ELSE {}
           caps == e.limitPerSec \cup own
<1>1. e = New(sc, Limit)
  BY DEF Engines, Initial
<1>2. /\ e.limitPerSec = Limit
      /\ e.params = IF Has(sc, "params") THEN sc["params"] ELSE <<>>
  BY <1>1 DEF New
<1>3. Limit \subseteq Int
  BY LimitsAreNumbers DEF Limit, vs
<1>4. own \subseteq Int
  <2>1. CASE Has(sc, "params")
    BY <2>1, <1>2, LimitsAreNumbers DEF vs
  <2>2. CASE ~Has(sc, "params")
    BY <2>2, <1>2 DEF Has
  <2> QED BY <2>1, <2>2
<1>5. caps \subseteq Int
  BY <1>2, <1>3, <1>4
<1>6. EffectiveCap(e) = IF caps = {} THEN {} ELSE {Min(caps)}
  BY DEF EffectiveCap
<1>7. caps # {} /\ c = Min(caps)
  BY <1>6
<1>8. \E x, y \in caps : caps = {x, y}
  <2>1. Limit = {} \/ \E x : Limit = {x}
    BY DEF Limit
  <2>2. own = {} \/ \E y : own = {y}
    OBVIOUS
  <2> HIDE DEF own
  <2> QED BY <1>2, <1>7, <2>1, <2>2
<1> HIDE DEF caps
<1>9. \E x \in caps : \A y \in caps : x <= y
  <2>1. PICK x \in caps, y \in caps : caps = {x, y}
    BY <1>8
  <2>2. x \in Int /\ y \in Int
    BY <1>5
  <2>3. CASE x <= y
    BY <2>1, <2>2, <2>3
  <2>4. CASE y <= x
    BY <2>1, <2>2, <2>4
  <2> QED BY <2>2, <2>3, <2>4
<1>10. Min(caps) \in caps
  BY <1>9 DEF Min
<1> QED BY <1>5, <1>7, <1>10

\* newVirtualSMSC: nobody has a gate.
LEMMA GateInvInit == Init => GateInv
<1> SUFFICES ASSUME Init PROVE GateInv
  OBVIOUS
<1>1. NoGate \in Gate /\ NoGate.windowStart = 0 /\ <<>> \in Seq(Nat)
  BY EmptySeq DEF NoGate, Gate
<1>2. GateKept(NoGate, <<>>, 0)
  BY <1>1, FreshGateKept
<1> QED BY <1>1, <1>2 DEF Init, GateInv

\* A step that leaves gates and times alone, and closes no slot.
LEMMA QuietStepKeepsGates ==
  ASSUME GateInv, UNCHANGED <<cfg, now, gate, admitted>>, pc' \in [Slots -> Points],
         \A s \in Slots : pc'[s] = "closed" => pc[s] = "closed"
  PROVE  GateInv'
  BY DEF GateInv

\* The wall clock goes on: what a gate knows of the past stays true.
LEMMA ElapseKeepsGates ==
  ASSUME GateInv, Elapse
  PROVE  GateInv'
<1>1. now' = now + 1 /\ UNCHANGED <<cfg, gate, admitted, pc>> /\ now \in Nat
  BY DEF Elapse, GateInv
<1>2. ASSUME NEW s \in Slots PROVE GateKept(gate[s], admitted[s], now')
  <2>1. GateKept(gate[s], admitted[s], now) /\ gate[s].windowStart \in Int
    BY DEF GateInv, Gate
  <2>2. gate[s].windowStart <= now'
    BY <1>1, <2>1 DEF GateKept
  <2> QED BY <2>1, <2>2 DEF GateKept
<1> QED BY <1>1, <1>2 DEF GateInv

\* NewBindState: the gate, if a cap applies, has an empty past.
LEMMA TakeOrdinalKeepsGates ==
  ASSUME GateInv, NEW s \in Slots, TakeOrdinal(s)
  PROVE  GateInv'
<1> DEFINE cap == EffectiveCap(Engines[Initial])
           g == IF cap = {} THEN NoGate ELSE NewWallWindow(CHOOSE c \in cap : TRUE)
<1>1. /\ pc[s] = "closed" /\ pc' = [pc EXCEPT ![s] = "ordinal"] /\ gate' = [gate EXCEPT ![s] = g]
      /\ UNCHANGED <<cfg, now, admitted>>
  BY DEF TakeOrdinal
<1>2. now \in Nat /\ Second \in Nat /\ cfg \in Configs
  BY SecondAssumption DEF GateInv
<1>3. g \in Gate /\ g.windowStart <= now
  <2>1. CASE cap = {}
    BY <2>1, <1>2 DEF NoGate, Gate
  <2>2. CASE cap # {}
    <3>1. (CHOOSE c \in cap : TRUE) \in cap
      BY <2>2
    <3>2. (CHOOSE c \in cap : TRUE) \in Int
      BY <1>2, <3>1, CapIsNumber
    <3> QED BY <2>2, <3>2, <1>2 DEF NewWallWindow, Gate
  <2> QED BY <2>1, <2>2
<1> HIDE DEF g
<1>4. admitted[s] = <<>> /\ GateKept(g, <<>>, now)
  BY <1>1, <1>2, <1>3, FreshGateKept DEF GateInv
<1>5. \A r \in Slots : GateKept(gate'[r], admitted[r], now)
  BY <1>1, <1>4 DEF GateInv
<1>6. gate' \in [Slots -> Gate] /\ pc' \in [Slots -> Points]
  BY <1>1, <1>3 DEF GateInv
<1>7. \A r \in Slots : pc'[r] = "closed" => pc[r] = "closed"
  BY <1>1 DEF GateInv
<1> QED BY <1>1, <1>5, <1>6, <1>7 DEF GateInv

\* The session is gone, and its gate with it.
LEMMA LeaveKeepsGates ==
  ASSUME GateInv, NEW s \in Slots, Leave(s)
  PROVE  GateInv'
<1>1. /\ pc' = [pc EXCEPT ![s] = "closed"] /\ gate' = [gate EXCEPT ![s] = NoGate]
      /\ admitted' = [admitted EXCEPT ![s] = <<>>] /\ UNCHANGED <<cfg, now>>
  BY DEF Leave
<1>2. NoGate \in Gate /\ NoGate.windowStart <= now /\ now \in Nat /\ <<>> \in Seq(Nat)
  BY EmptySeq DEF NoGate, Gate, GateInv
<1>3. GateKept(NoGate, <<>>, now)
  BY <1>2, FreshGateKept
<1>4. \A r \in Slots : GateKept(gate'[r], admitted'[r], now)
  BY <1>1, <1>3 DEF GateInv
<1>5. /\ pc' \in [Slots -> Points] /\ gate' \in [Slots -> Gate] /\ admitted' \in [Slots -> Seq(Nat)]
      /\ \A r \in Slots : pc'[r] = "closed" => admitted'[r] = <<>>
  BY <1>1, <1>2 DEF GateInv
<1> QED BY <1>1, <1>4, <1>5 DEF GateInv

\* Evaluate asks the gate once.
LEMMA DecideKeepsGates ==
  ASSUME GateInv, NEW s \in Slots, Decide(s)
  PROVE  GateInv'
<1> DEFINE h == Counted(gate[s], now)
           b == IF Allow(gate[s], now) THEN Append(admitted[s], now) ELSE admitted[s]
<1>1. pc[s] # "closed" /\ pc' = [pc EXCEPT ![s] = "commit"] /\ UNCHANGED <<cfg, now>>
  BY DEF Decide
<1>2. CASE gate[s] = NoGate
  <2>1. UNCHANGED <<gate, admitted>>
    BY <1>2 DEF Decide
  <2>2. pc' \in [Slots -> Points] /\ \A r \in Slots : pc'[r] = "closed" => pc[r] = "closed"
    BY <1>1 DEF GateInv
  <2> QED BY <1>1, <2>1, <2>2, QuietStepKeepsGates
<1>3. CASE gate[s] # NoGate
  <2>1. gate' = [gate EXCEPT ![s] = h]
    BY <1>3 DEF Decide
  <2>2. admitted' = IF Allow(gate[s], now) THEN [admitted EXCEPT ![s] = Append(@, now)] ELSE admitted
    BY <1>3 DEF Decide
  <2>3. admitted' = [admitted EXCEPT ![s] = b]
    BY <2>2 DEF GateInv
  <2>4. GateKept(h, b, now)
    BY AllowKeepsGate DEF GateInv
  <2>5. h \in Gate /\ b \in Seq(Nat)
    BY <2>4 DEF GateKept
  <2> HIDE DEF h, b
  <2>6. \A r \in Slots : GateKept(gate'[r], admitted'[r], now)
    BY <2>1, <2>3, <2>4 DEF GateInv
  <2>7. /\ pc' \in [Slots -> Points] /\ gate' \in [Slots -> Gate] /\ admitted' \in [Slots -> Seq(Nat)]
        /\ \A r \in Slots : pc'[r] = "closed" => admitted'[r] = <<>>
    BY <1>1, <2>1, <2>3, <2>5 DEF GateInv
  <2> QED BY <1>1, <2>6, <2>7 DEF GateInv
<1> QED BY <1>2, <1>3

\* Every step keeps what every gate knows of its past.
LEMMA GateInvStep == GateInv /\ [Next]_vars => GateInv'
<1> SUFFICES ASSUME GateInv, [Next]_vars PROVE GateInv'
  OBVIOUS
<1>1. CASE Load \/ UNCHANGED vars
  <2>1. UNCHANGED <<cfg, now, gate, admitted, pc>>
    BY <1>1 DEF Load, vars
  <2> QED BY <2>1, QuietStepKeepsGates DEF GateInv
<1>2. ASSUME NEW s \in Slots,
             Register(s) \/ Submit(s) \/ ApplyTransition(s) \/ MoveGauge(s) \/ Commit(s) \/ Record(s)
      PROVE  GateInv'
  <2>1. /\ \E q \in Points \ {"closed"} : pc' = [pc EXCEPT ![s] = q]
        /\ UNCHANGED <<cfg, now, gate, admitted>>
    BY <1>2 DEF Register, Submit, ApplyTransition, MoveGauge, Commit, Record
  <2>2. pc' \in [Slots -> Points] /\ \A r \in Slots : pc'[r] = "closed" => pc[r] = "closed"
    BY <2>1 DEF GateInv
  <2> QED BY <2>1, <2>2, QuietStepKeepsGates
<1> QED BY <1>1, <1>2, ElapseKeepsGates, TakeOrdinalKeepsGates, LeaveKeepsGates, DecideKeepsGates DEF Next

\* WallWindow.Allow: for every cap and however the submits of a bind are spread over time, of
\* any 2*cap + 1 that were let by the first and the last are more than a second apart.
THEOREM GateAdmitsTwiceCap == Spec => []TwiceCapPerSecond
<1>1. GateInv => TwiceCapPerSecond
  <2> SUFFICES ASSUME GateInv, NEW s \in Slots, NEW i \in DOMAIN admitted[s], NEW j \in DOMAIN admitted[s],
                      j = i + 2 * gate[s].capPerSec
               PROVE  admitted[s][j] - admitted[s][i] > Second
    BY DEF TwiceCapPerSecond
  <2>1. GateKept(gate[s], admitted[s], now) /\ admitted[s] \in Seq(Nat)
    BY DEF GateInv
  <2>2. DOMAIN admitted[s] = 1..Len(admitted[s]) /\ admitted[s] # <<>>
    BY <2>1
  <2> QED BY <2>1, <2>2 DEF GateKept, WindowKept
<1> QED BY GateInvInit, GateInvStep, <1>1, PTL DEF Spec
-----------------------------------------------------------------------------
(***************************************************************************)
(* The observed profile. The gauge is always that of one label, a profile  *)
(* of the catalogue; as long as no two binds have applied transitions at   *)
(* the same time, the label is the observed profile, or the one bind that  *)
(* is between the two stores is about to make it so.                       *)
(***************************************************************************)
GaugeOf(label) == [q \in KnownProfiles |-> IF q = label THEN 1 ELSE 0]
Between == {s \in Slots : pc[s] = "gauge"}

LabelFollows ==
  \/ Between = {} /\ scenarioLabel = activeProfile
  \/ \E s \in Slots : Between = {s} /\ profile[s] = activeProfile

ObservedInv ==
  /\ cfg \in Configs
  /\ pc \in [Slots -> Points] /\ cursor \in [Slots -> Nat]
  /\ profile \in [Slots -> KnownProfiles \cup {"none"}]
  /\ phase # "serving" => \A s \in Slots : pc[s] = "closed"
  /\ phase = "boot" => gauge = [q \in KnownProfiles |-> 0]
  /\ phase = "serving" =>
       /\ Validate(cfg) = {}
       /\ scenarioLabel \in KnownProfiles /\ gauge = GaugeOf(scenarioLabel)
       /\ \A s \in Between : profile[s] \in KnownProfiles
       /\ ~overlapped => LabelFollows

\* validateVirtualSMSC: one without a fault has a profile of the catalogue, and so has each of
\* its transitions.
LEMMA FaultlessProfiles ==
  ASSUME NEW v, ValidateVirtualSMSC(v) = {}
  PROVE  /\ v.scenario.profile \in KnownProfiles
         /\ \A i \in DOMAIN v.scheduled_transitions : v.scheduled_transitions[i].to \in KnownProfiles
<1>1. ValidateScenario(v.scenario) \subseteq ValidateVirtualSMSC(v)
  BY Zenon DEF ValidateVirtualSMSC
<1>2. TransitionTargets(v) \subseteq ValidateVirtualSMSC(v)
  BY Zenon DEF ValidateVirtualSMSC
<1>3. ValidateScenario(v.scenario) = {} /\ TransitionTargets(v) = {}
  BY <1>1, <1>2, Zenon
<1>4. v.scenario.profile \in KnownProfiles
  BY <1>3 DEF ValidateScenario
<1>5. \A i \in DOMAIN v.scheduled_transitions : v.scheduled_transitions[i].to \in KnownProfiles
  BY <1>3 DEF TransitionTargets, Unless
<1> QED BY <1>4, <1>5

\* validate: in a configuration that Load accepts, the configured profile and the target of
\* every transition are in the catalogue.
LEMMA AcceptedProfiles ==
  ASSUME cfg \in Configs, Validate(cfg) = {}
  PROVE  /\ Initial \in KnownProfiles
         /\ \A i \in DOMAIN vs.scheduled_transitions : vs.scheduled_transitions[i].to \in KnownProfiles
<1>1. 1 \in DOMAIN cfg.virtual_smscs
  BY TransitionsAreEvents
<1>2. UNION {ValidateVirtualSMSC(cfg.virtual_smscs[i]) : i \in DOMAIN cfg.virtual_smscs} = {}
  BY DEF Validate
<1>3. ValidateVirtualSMSC(cfg.virtual_smscs[1]) = {}
  BY <1>1, <1>2
<1> QED BY <1>3, FaultlessProfiles DEF vs, Initial

\* sortedByTick: the transition a cursor points at is one of the configured ones.
LEMMA DueTargetIsKnown ==
  ASSUME ObservedInv, phase = "serving", NEW s \in Slots, Due(s)
  PROVE  Schedules[cursor[s] + 1].to \in KnownProfiles
<1> DEFINE all == vs.scheduled_transitions
           E == [at : Nat, to : STRING]
           k == cursor[s] + 1
<1>1. all \in Seq(E) /\ \A x \in E : x.at \in Int
  BY TransitionsAreEvents DEF ObservedInv, vs
<1>2. Len(SortedByTick(all)) = Len(all) /\ Len(all) \in Nat /\ DOMAIN all = 1..Len(all)
  BY <1>1, SortedEntries, LenProperties
<1>3. k \in 1..Len(all)
  <2>1. cursor[s] \in Nat /\ cursor[s] < Len(Schedules)
    BY DEF ObservedInv, Due
  <2> QED BY <2>1, <1>2 DEF Schedules
<1>4. PICK i \in 1..Len(all) : SortedByTick(all)[k] = all[i]
  BY <1>1, <1>3, SortedEntries
<1>5. all[i].to \in KnownProfiles
  BY <1>2, <1>4, AcceptedProfiles DEF ObservedInv
<1> QED BY <1>4, <1>5 DEF Schedules

\* SetActiveScenario moves the gauge from one label to another.
LEMMA GaugeFollowsLabel ==
  ASSUME NEW p \in KnownProfiles, SetActiveScenario(p),
         gauge = GaugeOf(scenarioLabel) \/ gauge = [q \in KnownProfiles |-> 0]
  PROVE  scenarioLabel' = p /\ gauge' = GaugeOf(scenarioLabel')
<1>1. /\ scenarioLabel' = p
      /\ gauge' = [q \in KnownProfiles |-> IF q = p THEN 1 ELSE IF q = scenarioLabel THEN 0 ELSE gauge[q]]
  BY DEF SetActiveScenario
<1>2. \A q \in KnownProfiles : q # scenarioLabel => gauge[q] = 0
  BY DEF GaugeOf
<1>3. gauge' = [q \in KnownProfiles |-> IF q = p THEN 1 ELSE 0]
  BY <1>1, <1>2
<1> QED BY <1>1, <1>3 DEF GaugeOf

\* Nobody is bound before Load, and no series is raised.
LEMMA ObservedInvInit == Init => ObservedInv
  BY DEF Init, ObservedInv

\* A step of a bind that is not between the two stores, before or after.
LEMMA QuietStepKeepsObserved ==
  ASSUME ObservedInv, phase = "serving", NEW s \in Slots, pc[s] # "gauge",
         NEW q \in Points \ {"gauge"}, pc' = [pc EXCEPT ![s] = q],
         NEW p \in KnownProfiles \cup {"none"},
         profile' = [profile EXCEPT ![s] = p],
         cursor' \in [Slots -> Nat], UNCHANGED <<cfg, phase, observedVars>>
  PROVE  ObservedInv'
<1>1. pc \in [Slots -> Points] /\ profile \in [Slots -> KnownProfiles \cup {"none"}]
  BY DEF ObservedInv
<1>2. \A r \in Slots : pc'[r] = "gauge" <=> pc[r] = "gauge"
  BY <1>1
<1>3. Between' = Between
  BY <1>2 DEF Between
<1>4. \A r \in Between : r \in Slots /\ profile'[r] = profile[r]
  BY <1>1 DEF Between
<1>5. LabelFollows => LabelFollows'
  BY <1>3, <1>4 DEF LabelFollows
<1>6. pc' \in [Slots -> Points] /\ profile' \in [Slots -> KnownProfiles \cup {"none"}]
  BY <1>1
<1> QED BY <1>3, <1>4, <1>5, <1>6 DEF ObservedInv

\* newVirtualSMSC: the configured profile, in both places.
LEMMA LoadKeepsObserved ==
  ASSUME ObservedInv, Load
  PROVE  ObservedInv'
<1>1. phase = "boot" /\ UNCHANGED <<cfg, pc, profile, cursor>>
  BY DEF Load
<1>2. gauge = [q \in KnownProfiles |-> 0] /\ \A s \in Slots : pc[s] = "closed"
  BY <1>1 DEF ObservedInv
<1>3. CASE Validate(cfg) = {}
  <2>1. phase' = "serving" /\ activeProfile' = Initial /\ SetActiveScenario(Initial) /\ Initial \in KnownProfiles
    BY <1>3, AcceptedProfiles DEF Load, ObservedInv
  <2>2. scenarioLabel' = Initial /\ gauge' = GaugeOf(scenarioLabel')
    BY <1>2, <2>1, GaugeFollowsLabel
  <2>3. Between' = {}
    BY <1>1, <1>2 DEF Between
  <2>4. LabelFollows'
    BY <2>1, <2>2, <2>3 DEF LabelFollows
  <2>5. Validate(cfg)' = {}
    BY <1>1, <1>3
  <2> QED BY <1>1, <1>2, <2>1, <2>2, <2>3, <2>4, <2>5 DEF ObservedInv
<1>4. CASE Validate(cfg) # {}
  <2>1. phase' = "rejected"
    BY <1>4 DEF Load
  <2> QED BY <1>1, <1>2, <2>1 DEF ObservedInv
<1> QED BY <1>3, <1>4

\* applyTransition, the first store.
LEMMA ApplyTransitionKeepsObserved ==
  ASSUME ObservedInv, NEW s \in Slots, ApplyTransition(s)
  PROVE  ObservedInv'
<1> DEFINE to == Schedules[cursor[s] + 1].to
<1>1. /\ pc[s] = "transition" /\ Due(s) /\ pc' = [pc EXCEPT ![s] = "gauge"]
      /\ profile' = [profile EXCEPT ![s] = to] /\ activeProfile' = to
      /\ cursor' = [cursor EXCEPT ![s] = @ + 1]
      /\ UNCHANGED <<cfg, phase, gauge, scenarioLabel>>
  BY DEF ApplyTransition
<1>2. overlapped' = (overlapped \/ \E r \in Slots : pc[r] = "gauge")
  BY DEF ApplyTransition
<1>3. phase = "serving"
  BY <1>1 DEF ObservedInv
<1>4. to \in KnownProfiles
  BY <1>1, <1>3, DueTargetIsKnown
<1> HIDE DEF to
<1>5. /\ pc \in [Slots -> Points] /\ cursor \in [Slots -> Nat]
      /\ profile \in [Slots -> KnownProfiles \cup {"none"}]
  BY DEF ObservedInv
<1>6. /\ pc' \in [Slots -> Points] /\ cursor' \in [Slots -> Nat]
      /\ profile' \in [Slots -> KnownProfiles \cup {"none"}] /\ profile'[s] = to
  BY <1>1, <1>4, <1>5
<1>7. Between' = Between \cup {s}
  BY <1>1, <1>5 DEF Between
<1>8. \A r \in Between' : profile'[r] \in KnownProfiles
  BY <1>1, <1>3, <1>4, <1>5, <1>7 DEF ObservedInv, Between
<1>9. ~overlapped' => Between = {}
  BY <1>2, Zenon DEF Between
<1>10. ~overlapped' => LabelFollows'
  BY <1>1, <1>6, <1>7, <1>9 DEF LabelFollows
<1> QED BY <1>1, <1>3, <1>6, <1>8, <1>10 DEF ObservedInv

\* applyTransition, the second store.
LEMMA MoveGaugeKeepsObserved ==
  ASSUME ObservedInv, NEW s \in Slots, MoveGauge(s)
  PROVE  ObservedInv'
<1>1. /\ pc[s] = "gauge" /\ SetActiveScenario(profile[s]) /\ pc' = [pc EXCEPT ![s] = "transition"]
      /\ UNCHANGED <<cfg, phase, activeProfile, overlapped, profile, cursor>>
  BY DEF MoveGauge
<1>2. phase = "serving" /\ pc \in [Slots -> Points]
  BY <1>1 DEF ObservedInv
<1>3. s \in Between /\ Between' = Between \ {s}
  BY <1>1, <1>2 DEF Between
<1>4. profile[s] \in KnownProfiles /\ gauge = GaugeOf(scenarioLabel)
  BY <1>2, <1>3 DEF ObservedInv
<1>5. scenarioLabel' = profile[s] /\ gauge' = GaugeOf(scenarioLabel')
  BY <1>1, <1>4, GaugeFollowsLabel
<1>6. LabelFollows => LabelFollows'
  BY <1>1, <1>3, <1>5 DEF LabelFollows
<1>7. pc' \in [Slots -> Points]
  BY <1>1, <1>2
<1> QED BY <1>1, <1>2, <1>3, <1>4, <1>5, <1>6, <1>7 DEF ObservedInv

\* Every step keeps the label and the observed profile together.
LEMMA ObservedInvStep == ObservedInv /\ [Next]_vars => ObservedInv'
<1> SUFFICES ASSUME ObservedInv, [Next]_vars PROVE ObservedInv'
  OBVIOUS
<1>1. CASE Elapse \/ UNCHANGED vars
  <2>1. UNCHANGED <<cfg, phase, observedVars, pc, profile, cursor>>
    BY <1>1 DEF Elapse, vars
  <2> QED BY <2>1 DEF ObservedInv, LabelFollows, Between
<1>2. ASSUME NEW s \in Slots, TakeOrdinal(s) PROVE ObservedInv'
  <2>1. /\ phase = "serving" /\ pc[s] = "closed" /\ pc' = [pc EXCEPT ![s] = "ordinal"]
        /\ profile' = [profile EXCEPT ![s] = Initial] /\ UNCHANGED <<cfg, phase, observedVars, cursor>>
    BY <1>2 DEF TakeOrdinal
  <2>2. Initial \in KnownProfiles /\ cursor' \in [Slots -> Nat]
    BY <2>1, AcceptedProfiles DEF ObservedInv
  <2> QED BY <2>1, <2>2, QuietStepKeepsObserved
<1>3. ASSUME NEW s \in Slots, Leave(s) PROVE ObservedInv'
  <2>1. /\ pc[s] \notin {"closed", "gauge"} /\ pc' = [pc EXCEPT ![s] = "closed"]
        /\ profile' = [profile EXCEPT ![s] = "none"] /\ cursor' = [cursor EXCEPT ![s] = 0]
        /\ UNCHANGED <<cfg, phase, observedVars>>
    BY <1>3 DEF Leave
  <2>2. phase = "serving" /\ cursor' \in [Slots -> Nat]
    BY <2>1 DEF ObservedInv
  <2> QED BY <2>1, <2>2, QuietStepKeepsObserved
<1>4. ASSUME NEW s \in Slots, Register(s) \/ Submit(s) \/ Decide(s) \/ Commit(s) \/ Record(s)
      PROVE  ObservedInv'
  <2>1. /\ pc[s] \notin {"closed", "gauge"}
        /\ \E q \in Points \ {"gauge"} : pc' = [pc EXCEPT ![s] = q]
        /\ UNCHANGED <<cfg, phase, observedVars, profile, cursor>>
    BY <1>4 DEF Register, Submit, Decide, Commit, Record
  <2>2. phase = "serving" /\ cursor' \in [Slots -> Nat] /\ profile[s] \in KnownProfiles \cup {"none"}
    BY <2>1 DEF ObservedInv
  <2>3. profile' = [profile EXCEPT ![s] = profile[s]]
    BY <2>1 DEF ObservedInv
  <2> QED BY <2>1, <2>2, <2>3, QuietStepKeepsObserved
<1> QED BY <1>1, <1>2, <1>3, <1>4, LoadKeepsObserved, ApplyTransitionKeepsObserved,
           MoveGaugeKeepsObserved DEF Next

\* setActiveProfile, SetActiveScenario: whatever the configuration and however many binds apply
\* transitions, exactly one series of a serving virtual SMSC reads 1, and it is the observed
\* profile's whenever nobody is between the two stores, unless two binds have been there at
\* the same time.
THEOREM GaugeShowsActiveProfile == Spec => []ObservedProfilesAgree
<1>1. ObservedInv => ObservedProfilesAgree
  <2> SUFFICES ASSUME ObservedInv, phase = "serving"
               PROVE  /\ Cardinality({p \in KnownProfiles : gauge[p] = 1}) = 1
                      /\ (~overlapped /\ \A s \in Slots : pc[s] # "gauge") => gauge[activeProfile] = 1
    BY DEF ObservedProfilesAgree
  <2>1. scenarioLabel \in KnownProfiles /\ gauge = GaugeOf(scenarioLabel) /\ (~overlapped => LabelFollows)
    BY DEF ObservedInv
  <2>2. {p \in KnownProfiles : gauge[p] = 1} = {scenarioLabel}
    BY <2>1 DEF GaugeOf
  <2>3. Cardinality({scenarioLabel}) = 1
    BY FS_Singleton
  <2>4. ASSUME \A s \in Slots : pc[s] # "gauge", LabelFollows PROVE gauge[activeProfile] = 1
    BY <2>1, <2>4 DEF GaugeOf, LabelFollows, Between
  <2> QED BY <2>1, <2>2, <2>3, <2>4
<1> QED BY ObservedInvInit, ObservedInvStep, <1>1, PTL DEF Spec
-----------------------------------------------------------------------------
(***************************************************************************)
(* The bound on submits. Whoever decides a submit has a tick in reserve.   *)
(***************************************************************************)
Busy == {s \in Slots : pc[s] \notin {"closed", "ordinal", "bound"}}
Deciding == {s \in Slots : pc[s] \in {"transition", "gauge", "commit"}}

BudgetInv ==
  /\ IsFiniteSet(Busy)
  /\ logicalClock + Cardinality(Deciding) <= MaxSubmits

\* The logical clock is a number no bind's clock is ahead of.
LEMMA LogicalClockLeads ==
  ASSUME CorpusInv
  PROVE  /\ logicalClock \in Nat
         /\ \A s \in Slots : pc[s] # "closed" => perBindClock[s] <= logicalClock
<1> DEFINE n == Len(journal)
<1>1. n \in Nat /\ perBindClock \in [Slots -> Nat] /\ IsFiniteSet(Recording)
  BY LenProperties DEF CorpusInv, IdentityInv
<1>2. Cardinality(Recording) \in Nat /\ logicalClock = n + Cardinality(Recording)
  BY <1>1, FS_CardinalityType DEF CorpusInv
<1>3. ASSUME NEW s \in Slots, pc[s] # "closed" PROVE perBindClock[s] <= logicalClock
  <2> DEFINE mine == EntriesOf(journal, id[s], n)
  <2>1. IsFiniteSet(1..n) /\ Cardinality(1..n) = n /\ mine \in SUBSET (1..n)
    <3> HIDE DEF n
    <3>1. IsFiniteSet(1..n) /\ Cardinality(1..n) = IF 1 > n THEN 0 ELSE n - 1 + 1
      BY <1>1, FS_Interval
    <3>2. mine \in SUBSET (1..n)
      BY DEF EntriesOf
    <3> QED BY <1>1, <3>1, <3>2
  <2>2. Cardinality(mine) <= n /\ Cardinality(mine) \in Nat
    BY <1>1, <2>1, FS_Subset, EntriesAreFinite
  <2>3. Cardinality(mine) + InHand(s) = perBindClock[s]
    BY <1>3 DEF CorpusInv
  <2> HIDE DEF mine, n
  <2>4. InHand(s) <= Cardinality(Recording) /\ InHand(s) \in Nat
    <3>1. CASE pc[s] = "record"
      <4>1. Recording # {}
        BY <3>1 DEF Recording
      <4>2. Cardinality(Recording) # 0
        BY <1>1, <4>1, FS_EmptySet
      <4> QED BY <1>2, <3>1, <4>2 DEF InHand
    <3>2. CASE pc[s] # "record"
      BY <1>2, <3>2 DEF InHand
    <3> QED BY <3>1, <3>2
  <2> QED BY <1>1, <1>2, <2>2, <2>3, <2>4
<1> QED BY <1>1, <1>2, <1>3

\* The counts of Deciding are numbers, below those of Busy.
LEMMA DecidingIsFinite ==
  ASSUME BudgetInv
  PROVE  /\ IsFiniteSet(Deciding) /\ Cardinality(Deciding) \in Nat /\ Cardinality(Busy) \in Nat
         /\ Cardinality(Deciding) <= Cardinality(Busy)
<1>1. Deciding \in SUBSET Busy /\ IsFiniteSet(Busy)
  BY DEF Deciding, Busy, BudgetInv
<1>2. IsFiniteSet(Deciding) /\ Cardinality(Deciding) <= Cardinality(Busy)
  BY <1>1, FS_Subset
<1> QED BY <1>1, <1>2, FS_CardinalityType

\* Every step of a bind keeps the submits of all binds within the bound.
LEMMA BudgetInvStep == CorpusInv /\ BudgetInv /\ [Next]_vars => BudgetInv'
<1> SUFFICES ASSUME CorpusInv, BudgetInv, [Next]_vars PROVE BudgetInv'
  OBVIOUS
<1>1. pc \in [Slots -> Points] /\ logicalClock \in Nat /\ MaxSubmits \in Nat
  BY LogicalClockLeads, VirtualSMSCConfig DEF CorpusInv, IdentityInv
<1>2. /\ IsFiniteSet(Deciding) /\ Cardinality(Deciding) \in Nat /\ Cardinality(Busy) \in Nat
      /\ Cardinality(Deciding) <= Cardinality(Busy)
      /\ logicalClock + Cardinality(Deciding) <= MaxSubmits
  BY DecidingIsFinite DEF BudgetInv
<1>3. ASSUME NEW s \in Slots, NEW q \in Points, pc' = [pc EXCEPT ![s] = q] PROVE IsFiniteSet(Busy')
  <2>1. Busy' \in SUBSET (Busy \cup {s})
    BY <1>1, <1>3 DEF Busy
  <2>2. IsFiniteSet(Busy \cup {s})
    BY FS_AddElement DEF BudgetInv
  <2> QED BY <2>1, <2>2, FS_Subset
<1>4. CASE Load \/ Elapse \/ UNCHANGED vars
  <2>1. UNCHANGED <<logicalClock, pc>>
    BY <1>4 DEF Load, Elapse, vars
  <2> QED BY <2>1 DEF BudgetInv, Busy, Deciding
<1>5. ASSUME NEW s \in Slots, TakeOrdinal(s) \/ Register(s) \/ ApplyTransition(s) \/ MoveGauge(s)
                                \/ Decide(s) \/ Record(s)
      PROVE  BudgetInv'
  <2>1. /\ \E q \in Points : /\ pc' = [pc EXCEPT ![s] = q]
                             /\ q \in {"transition", "gauge", "commit"}
                                  <=> pc[s] \in {"transition", "gauge", "commit"}
        /\ UNCHANGED logicalClock
    BY <1>5 DEF TakeOrdinal, Register, ApplyTransition, MoveGauge, Decide, Record
  <2>2. Deciding' = Deciding
    BY <1>1, <2>1 DEF Deciding
  <2> QED BY <1>2, <1>3, <2>1, <2>2 DEF BudgetInv
<1>6. ASSUME NEW s \in Slots, Leave(s) PROVE BudgetInv'
  <2>1. pc' = [pc EXCEPT ![s] = "closed"] /\ UNCHANGED logicalClock
    BY <1>6 DEF Leave
  <2>2. Deciding' \in SUBSET Deciding
    BY <1>1, <2>1 DEF Deciding
  <2>3. IsFiniteSet(Deciding') /\ Cardinality(Deciding') <= Cardinality(Deciding)
    BY <1>2, <2>2, FS_Subset
  <2>4. Cardinality(Deciding') \in Nat
    BY <2>3, FS_CardinalityType
  <2>5. logicalClock' + Cardinality(Deciding') <= MaxSubmits
    BY <1>1, <1>2, <2>1, <2>3, <2>4
  <2> QED BY <1>3, <2>1, <2>5 DEF BudgetInv
<1>7. ASSUME NEW s \in Slots, Submit(s) PROVE BudgetInv'
  <2>1. /\ pc[s] = "bound" /\ pc' = [pc EXCEPT ![s] = "transition"] /\ UNCHANGED logicalClock
        /\ logicalClock + Cardinality(Busy) < IF bindSeq = 1 THEN MaxSubmits ELSE MaxShared
    BY <1>7 DEF Submit, Busy
  <2>2. Deciding' = Deciding \cup {s} /\ s \notin Deciding
    BY <1>1, <2>1 DEF Deciding
  <2>3. Cardinality(Deciding') = Cardinality(Deciding) + 1
    BY <1>2, <2>2, FS_AddElement
  <2>4. logicalClock' + Cardinality(Deciding') <= MaxSubmits
    BY <1>1, <1>2, <2>1, <2>3, VirtualSMSCConfig
  <2> QED BY <1>3, <2>1, <2>4 DEF BudgetInv
<1>8. ASSUME NEW s \in Slots, Commit(s) PROVE BudgetInv'
  <2>1. pc[s] = "commit" /\ pc' = [pc EXCEPT ![s] = "record"] /\ logicalClock' = logicalClock + 1
    BY <1>8 DEF Commit
  <2>2. Deciding' = Deciding \ {s} /\ s \in Deciding
    BY <1>1, <2>1 DEF Deciding
  <2>3. Cardinality(Deciding') = Cardinality(Deciding) - 1
    BY <1>2, <2>2, FS_RemoveElement
  <2>4. logicalClock' + Cardinality(Deciding') <= MaxSubmits
    BY <1>1, <1>2, <2>1, <2>3
  <2> QED BY <1>3, <2>1, <2>4 DEF BudgetInv
<1> QED BY <1>4, <1>5, <1>6, <1>7, <1>8 DEF Next

\* The tick a bind is at, and the one it is deciding, are within the bound.
LEMMA TicksAreInBudget ==
  ASSUME CorpusInv, BudgetInv, NEW s \in Slots, pc[s] # "closed"
  PROVE  /\ perBindClock[s] \in 0..MaxSubmits
         /\ s \in Deciding => perBindClock[s] + 1 \in 1..MaxSubmits
<1>1. /\ logicalClock \in Nat /\ perBindClock[s] <= logicalClock /\ perBindClock[s] \in Nat /\ MaxSubmits \in Nat
  BY LogicalClockLeads, VirtualSMSCConfig DEF CorpusInv, IdentityInv
<1>2. /\ IsFiniteSet(Deciding) /\ Cardinality(Deciding) \in Nat
      /\ logicalClock + Cardinality(Deciding) <= MaxSubmits
  BY DecidingIsFinite DEF BudgetInv
<1>3. s \in Deciding => Cardinality(Deciding) # 0
  BY <1>2, FS_EmptySet
<1> QED BY <1>1, <1>2, <1>3
-----------------------------------------------------------------------------
(***************************************************************************)
(* The transitions of one bind. Its cursor is past only what is due at its *)
(* next tick, and its profile is that of the last entry it passed.         *)
(***************************************************************************)
CursorInv ==
  \A s \in Slots :
    /\ pc[s] = "closed" => cursor[s] = 0
    /\ cursor[s] <= Len(Schedules)
    /\ \A k \in 1..cursor[s] : Schedules[k].at <= perBindClock[s] + 1
    /\ pc[s] # "closed" => profile[s] = IF cursor[s] = 0 THEN Initial ELSE Schedules[cursor[s]].to

\* The sorted transitions, by tick.
LEMMA SchedulesSorted ==
  ASSUME cfg \in Configs
  PROVE  /\ Len(Schedules) \in Nat /\ Len(Schedules) = Len(vs.scheduled_transitions)
         /\ \A k \in 1..Len(Schedules) : Schedules[k].at \in Nat
         /\ \A k, m \in 1..Len(Schedules) : k <= m => Schedules[k].at <= Schedules[m].at
<1> DEFINE E == [at : Nat, to : STRING]
           all == vs.scheduled_transitions
<1>1. all \in Seq(E) /\ \A x \in E : x.at \in Int /\ x.at \in Nat
  BY TransitionsAreEvents DEF vs
<1> HIDE DEF E, all
<1>2. /\ SortedByTick(all) \in Seq(E) /\ Len(SortedByTick(all)) = Len(all) /\ Len(all) \in Nat
      /\ \A k, m \in 1..Len(all) : k <= m => SortedByTick(all)[k].at <= SortedByTick(all)[m].at
  BY <1>1, SortedEntries, LenProperties
<1>3. \A k \in 1..Len(all) : SortedByTick(all)[k] \in E
  BY <1>2, ElementOfSeq
<1> QED BY <1>1, <1>2, <1>3 DEF Schedules, all

\* Every step of a bind keeps its cursor and its profile together.
LEMMA CursorInvStep == ObservedInv /\ IdentityInv /\ CursorInv /\ [Next]_vars => CursorInv'
<1> SUFFICES ASSUME ObservedInv, IdentityInv, CursorInv, [Next]_vars PROVE CursorInv'
  OBVIOUS
<1>1. /\ pc \in [Slots -> Points] /\ cursor \in [Slots -> Nat] /\ perBindClock \in [Slots -> Nat]
      /\ DOMAIN profile = Slots
  BY DEF ObservedInv, IdentityInv
<1>2. cfg' = cfg /\ Schedules' = Schedules /\ Initial' = Initial
  <2>1. cfg' = cfg
    BY DEF Next, vars, Load, Elapse, TakeOrdinal, Register, Leave, Submit, ApplyTransition, MoveGauge,
           Decide, Commit, Record
  <2> QED BY <2>1 DEF Schedules, Initial, vs
<1>3. /\ Len(Schedules) \in Nat /\ \A k \in 1..Len(Schedules) : Schedules[k].at \in Nat
  BY SchedulesSorted DEF ObservedInv
<1>4. CASE Load \/ Elapse \/ UNCHANGED vars
  <2>1. UNCHANGED <<pc, cursor, perBindClock, profile>>
    BY <1>4 DEF Load, Elapse, vars
  <2> QED BY <1>2, <2>1 DEF CursorInv
<1>5. ASSUME NEW s \in Slots, TakeOrdinal(s) PROVE CursorInv'
  <2>1. /\ pc[s] = "closed" /\ pc' = [pc EXCEPT ![s] = "ordinal"]
        /\ profile' = [profile EXCEPT ![s] = Initial] /\ UNCHANGED <<cursor, perBindClock>>
    BY <1>5 DEF TakeOrdinal
  <2>2. cursor[s] = 0
    BY <2>1 DEF CursorInv
  <2> QED BY <1>1, <1>2, <2>1, <2>2 DEF CursorInv
<1>6. ASSUME NEW s \in Slots, Leave(s) PROVE CursorInv'
  <2>1. /\ pc' = [pc EXCEPT ![s] = "closed"] /\ profile' = [profile EXCEPT ![s] = "none"]
        /\ cursor' = [cursor EXCEPT ![s] = 0] /\ perBindClock' = [perBindClock EXCEPT ![s] = 0]
    BY <1>6 DEF Leave
  <2> QED BY <1>1, <1>2, <1>3, <2>1 DEF CursorInv
<1>7. ASSUME NEW s \in Slots, Register(s) \/ Submit(s) \/ MoveGauge(s) \/ Decide(s) \/ Record(s)
      PROVE  CursorInv'
  <2>1. /\ pc[s] # "closed" /\ \E q \in Points \ {"closed"} : pc' = [pc EXCEPT ![s] = q]
        /\ UNCHANGED <<cursor, perBindClock, profile>>
    BY <1>7 DEF Register, Submit, MoveGauge, Decide, Record
  <2> QED BY <1>1, <1>2, <2>1 DEF CursorInv
<1>8. ASSUME NEW s \in Slots, Commit(s) PROVE CursorInv'
  <2>1. /\ pc[s] # "closed" /\ pc' = [pc EXCEPT ![s] = "record"]
        /\ perBindClock' = [perBindClock EXCEPT ![s] = @ + 1] /\ UNCHANGED <<cursor, profile>>
    BY <1>8 DEF Commit
  <2>2. \A k \in 1..cursor[s] : Schedules[k].at <= perBindClock[s] + 1 + 1
    BY <1>1, <1>3 DEF CursorInv
  <2> QED BY <1>1, <1>2, <2>1, <2>2 DEF CursorInv
<1>9. ASSUME NEW s \in Slots, ApplyTransition(s) PROVE CursorInv'
  <2>1. /\ pc[s] # "closed" /\ pc' = [pc EXCEPT ![s] = "gauge"]
        /\ profile' = [profile EXCEPT ![s] = Schedules[cursor[s] + 1].to]
        /\ cursor' = [cursor EXCEPT ![s] = @ + 1] /\ UNCHANGED perBindClock
        /\ cursor[s] < Len(Schedules) /\ Schedules[cursor[s] + 1].at <= perBindClock[s] + 1
    BY <1>9 DEF ApplyTransition, Due
  <2>2. \A k \in 1..(cursor[s] + 1) : Schedules[k].at <= perBindClock[s] + 1
    BY <1>1, <2>1 DEF CursorInv
  <2>3. cursor[s] + 1 <= Len(Schedules) /\ cursor[s] + 1 # 0
    BY <1>1, <1>3, <2>1
  <2> QED BY <1>1, <1>2, <2>1, <2>2, <2>3 DEF CursorInv
<1> QED BY <1>4, <1>5, <1>6, <1>7, <1>8, <1>9 DEF Next

\* applyDueTransitions, once nothing is due: the bind decides under the profile of its next tick.
LEMMA ProfileGoverns ==
  ASSUME ObservedInv, IdentityInv, CursorInv, NEW s \in Slots, pc[s] # "closed", ~Due(s)
  PROVE  profile[s] = ProfileAt(vs, perBindClock[s] + 1)
<1> DEFINE E == [at : Nat, to : STRING]
           all == vs.scheduled_transitions
           c == cursor[s]
           tick == perBindClock[s] + 1
<1>1. all \in Seq(E) /\ \A x \in E : x.at \in Int
  BY TransitionsAreEvents DEF ObservedInv, vs
<1>2. c \in Nat /\ tick \in Nat /\ c <= Len(Schedules)
  BY DEF ObservedInv, IdentityInv, CursorInv
<1>3. /\ Len(Schedules) \in Nat /\ Len(Schedules) = Len(all)
      /\ \A k \in 1..Len(Schedules) : Schedules[k].at \in Nat
      /\ \A k, m \in 1..Len(Schedules) : k <= m => Schedules[k].at <= Schedules[m].at
  BY SchedulesSorted DEF ObservedInv
<1>4. \A k \in 1..c : Schedules[k].at <= tick
  BY DEF CursorInv
<1>5. c = Len(Schedules) \/ ~(Schedules[c + 1].at <= tick)
  BY <1>2, <1>3 DEF Due
<1>6. profile[s] = IF c = 0 THEN Initial ELSE Schedules[c].to
  BY DEF CursorInv
<1> HIDE DEF E, c, tick
<1>7. \A k \in 1..Len(all) : k <= c <=> Schedules[k].at <= tick
  <2> SUFFICES ASSUME NEW k \in 1..Len(Schedules) PROVE k <= c <=> Schedules[k].at <= tick
    BY <1>3
  <2>1. CASE k <= c
    BY <1>2, <1>4, <2>1
  <2>2. CASE k > c
    <3>1. c + 1 \in 1..Len(Schedules) /\ c + 1 <= k /\ c # Len(Schedules)
      BY <1>2, <1>3, <2>2
    <3>2. Schedules[c + 1].at <= Schedules[k].at /\ Schedules[c + 1].at \in Nat /\ Schedules[k].at \in Nat
      BY <1>3, <3>1
    <3>3. ~(Schedules[k].at <= tick)
      BY <1>2, <1>5, <3>1, <3>2
    <3> QED BY <1>2, <2>2, <3>3
  <2> QED BY <1>2, <2>1, <2>2
<1>8. /\ c = 0 => DueEntries(all, tick) = {}
      /\ c # 0 => /\ DueEntries(all, tick) # {}
                  /\ Schedules[c] = all[CHOOSE i \in LastDue(all, tick) : TRUE]
  <2>1. c \in 0..Len(all)
    BY <1>2, <1>3
  <2>2. \A k \in 1..Len(all) : k <= c <=> SortedByTick(all)[k].at <= tick
    BY <1>7 DEF Schedules
  <2>3. Schedules = SortedByTick(all)
    BY DEF Schedules
  <2> HIDE DEF all
  <2>4. /\ c = 0 => DueEntries(all, tick) = {}
        /\ c # 0 => /\ DueEntries(all, tick) # {}
                    /\ SortedByTick(all)[c] = all[CHOOSE i \in LastDue(all, tick) : TRUE]
    BY <1>1, <2>1, <2>2, CursorAtLastDue
  <2> QED BY <2>3, <2>4
<1>9. ProfileAt(vs, tick) = IF DueEntries(all, tick) = {} THEN vs.scenario.profile
                            ELSE all[CHOOSE i \in LastDue(all, tick) : TRUE].to
  BY DEF ProfileAt, DueEntries, LastDue
<1>10. profile[s] = ProfileAt(vs, tick)
  BY <1>6, <1>8, <1>9 DEF Initial
<1> QED BY <1>10 DEF tick
-----------------------------------------------------------------------------
(***************************************************************************)
(* A bind alone. The function that Solo defines recursively exists, which  *)
(* is shown by looking at the least bound for which it would not.          *)
(***************************************************************************)
NothingDecided == [decisions |-> <<>>, drawn |-> 0]

SoloStep(smsc, engines, o, before, n) ==
  LET d == Evaluate(engines[ProfileAt(smsc, n)], TRUE,
                    [i \in 1..DrawsPerTick |-> Stream[o][before.drawn + i]], n)
  IN  [decisions |-> Append(before.decisions, d), drawn |-> before.drawn + d.used]

IsSolo(run, smsc, engines, o, max) ==
  run = [n \in 0..max |-> IF n = 0 THEN NothingDecided ELSE SoloStep(smsc, engines, o, run[n - 1], n)]

SoloRun(smsc, engines, o) == CHOOSE run : IsSolo(run, smsc, engines, o, MaxSubmits)

\* What the bind decides at a tick, and what it has decided up to one.
SoloDecision(smsc, engines, o, n) ==
  Evaluate(engines[ProfileAt(smsc, n)], TRUE,
           [i \in 1..DrawsPerTick |-> Stream[o][SoloRun(smsc, engines, o)[n - 1].drawn + i]], n)
SoloPrefix(smsc, engines, o, m) == [n \in 1..m |-> SoloDecision(smsc, engines, o, n)]

\* A bind can be run alone up to any tick.
LEMMA SoloExists ==
  ASSUME NEW max \in Nat, NEW smsc, NEW engines, NEW o
  PROVE  \E run : IsSolo(run, smsc, engines, o, max)
<1> DEFINE T == {m \in Nat : ~\E run : IsSolo(run, smsc, engines, o, m)}
           Step(before, n) == SoloStep(smsc, engines, o, before, n)
<1> SUFFICES ASSUME T # {} PROVE FALSE
  OBVIOUS
<1>1. PICK m \in T : \A j \in T : m <= j
  BY LeastNatural
<1>2. m \in Nat /\ ~\E run : IsSolo(run, smsc, engines, o, m)
  OBVIOUS
<1>3. CASE m = 0
  <2> DEFINE g == [n \in 0..0 |-> NothingDecided]
  <2>1. IsSolo(g, smsc, engines, o, 0)
    BY DEF IsSolo
  <2> QED BY <2>1, <1>2, <1>3
<1>4. CASE m # 0
  <2>1. m - 1 \in Nat /\ m - 1 \notin T
    BY <1>1, <1>2, <1>4
  <2>2. PICK h : IsSolo(h, smsc, engines, o, m - 1)
    BY <2>1
  <2> DEFINE g == [n \in 0..m |-> IF n = m THEN Step(h[m - 1], m) ELSE h[n]]
  <2>3. \A n \in 0..(m - 1) : g[n] = h[n]
    BY <1>2, <2>1
  <2>4. ASSUME NEW n \in 0..m
        PROVE  g[n] = IF n = 0 THEN NothingDecided ELSE Step(g[n - 1], n)
    <3>1. CASE n = m
      <4>1. n # 0 /\ n - 1 \in 0..(m - 1) BY <3>1, <1>2, <1>4
      <4>2. g[n - 1] = h[m - 1] BY <4>1, <3>1, <2>3
      <4>3. g[n] = Step(h[m - 1], m) BY <3>1
      <4> QED BY <4>1, <4>2, <4>3, <3>1
    <3>2. CASE n # m
      <4>1. n \in 0..(m - 1) /\ g[n] = h[n] BY <3>2, <1>2, <2>3
      <4>2. h[n] = IF n = 0 THEN NothingDecided ELSE Step(h[n - 1], n)
        BY <4>1, <2>2 DEF IsSolo
      <4>3. CASE n = 0 BY <4>1, <4>2, <4>3
      <4>4. CASE n # 0
        <5>1. n - 1 \in 0..(m - 1) BY <4>1, <4>4, <1>2
        <5>2. g[n - 1] = h[n - 1] BY <5>1, <2>3
        <5> QED BY <5>2, <4>1, <4>2, <4>4
      <4> QED BY <4>3, <4>4
    <3> QED BY <3>1, <3>2
  <2>5. IsSolo(g, smsc, engines, o, m)
    <3> DEFINE rhs == [n \in 0..m |-> IF n = 0 THEN NothingDecided ELSE Step(g[n - 1], n)]
    <3>1. DOMAIN g = 0..m /\ g = [n \in 0..m |-> g[n]] OBVIOUS
    <3> HIDE DEF g
    <3>2. g = rhs BY <3>1, <2>4
    <3> QED BY <3>2 DEF IsSolo
  <2> QED BY <2>5, <1>2
<1> QED BY <1>3, <1>4

\* Its state after each tick.
LEMMA SoloUnfolds ==
  ASSUME NEW smsc, NEW engines, NEW o
  PROVE  LET run == SoloRun(smsc, engines, o)
         IN  /\ Solo(smsc, engines, o) = run[MaxSubmits]
             /\ run[0] = NothingDecided
             /\ \A n \in 1..MaxSubmits :
                  /\ run[n].decisions = Append(run[n - 1].decisions, SoloDecision(smsc, engines, o, n))
                  /\ run[n].drawn = run[n - 1].drawn + SoloDecision(smsc, engines, o, n).used
<1> DEFINE run == SoloRun(smsc, engines, o)
<1>1. MaxSubmits \in Nat
  BY VirtualSMSCConfig
<1>2. IsSolo(run, smsc, engines, o, MaxSubmits)
  BY <1>1, SoloExists DEF SoloRun
<1>3. Solo(smsc, engines, o) = run[MaxSubmits]
  BY DEF Solo, SoloRun, IsSolo, SoloStep, NothingDecided
<1>4. ASSUME NEW n \in 0..MaxSubmits
      PROVE  run[n] = IF n = 0 THEN NothingDecided ELSE SoloStep(smsc, engines, o, run[n - 1], n)
  BY <1>2 DEF IsSolo
<1>5. run[0] = NothingDecided
  BY <1>1, <1>4
<1>6. ASSUME NEW n \in 1..MaxSubmits
      PROVE  /\ run[n].decisions = Append(run[n - 1].decisions, SoloDecision(smsc, engines, o, n))
             /\ run[n].drawn = run[n - 1].drawn + SoloDecision(smsc, engines, o, n).used
  <2>1. run[n] = SoloStep(smsc, engines, o, run[n - 1], n)
    BY <1>1, <1>4
  <2> DEFINE d == SoloDecision(smsc, engines, o, n)
  <2>2. SoloStep(smsc, engines, o, run[n - 1], n)
          = [decisions |-> Append(run[n - 1].decisions, d), drawn |-> run[n - 1].drawn + d.used]
    BY DEF SoloStep, SoloDecision
  <2> HIDE DEF d
  <2>3. run[n].decisions = Append(run[n - 1].decisions, d) /\ run[n].drawn = run[n - 1].drawn + d.used
    BY <2>1, <2>2
  <2> QED BY <2>3 DEF d
<1> QED BY <1>3, <1>5, <1>6

\* One more tick extends what was decided, and changes nothing of it.
LEMMA PrefixGrows ==
  ASSUME NEW smsc, NEW engines, NEW o, NEW m \in Nat
  PROVE  /\ SoloPrefix(smsc, engines, o, 0) = <<>>
         /\ Len(SoloPrefix(smsc, engines, o, m)) = m
         /\ Append(SoloPrefix(smsc, engines, o, m), SoloDecision(smsc, engines, o, m + 1))
              = SoloPrefix(smsc, engines, o, m + 1)
<1> DEFINE Dec(n) == SoloDecision(smsc, engines, o, n)
           S == {Dec(n) : n \in Nat}
           a == [n \in 1..m |-> Dec(n)]
           b == [n \in 1..(m + 1) |-> Dec(n)]
<1>1. a \in Seq(S) /\ Len(a) = m /\ Dec(m + 1) \in S
  OBVIOUS
<1>2. b \in Seq(S) /\ Len(b) = m + 1
  OBVIOUS
<1>3. /\ Append(a, Dec(m + 1)) \in Seq(S) /\ Len(Append(a, Dec(m + 1))) = m + 1
      /\ \A n \in 1..m : Append(a, Dec(m + 1))[n] = a[n]
      /\ Append(a, Dec(m + 1))[m + 1] = Dec(m + 1)
  BY <1>1, AppendProperties
<1>4. \A n \in 1..(m + 1) : Append(a, Dec(m + 1))[n] = b[n]
  BY <1>3
<1>5. Append(a, Dec(m + 1)) = b
  BY <1>2, <1>3, <1>4, SeqEqual
<1>6. [n \in 1..0 |-> Dec(n)] = <<>>
  OBVIOUS
<1> QED BY <1>1, <1>5, <1>6 DEF SoloPrefix

\* What the bind has decided after each tick is what it decides at the ticks up to it.
LEMMA SoloDecisions ==
  ASSUME NEW smsc, NEW engines, NEW o
  PROVE  \A m \in 0..MaxSubmits : SoloRun(smsc, engines, o)[m].decisions = SoloPrefix(smsc, engines, o, m)
<1> DEFINE run == SoloRun(smsc, engines, o)
           pre(m) == SoloPrefix(smsc, engines, o, m)
           T == {m \in 0..MaxSubmits : run[m].decisions # pre(m)}
<1>1. MaxSubmits \in Nat /\ T \subseteq Nat
  BY VirtualSMSCConfig
<1> SUFFICES ASSUME T # {} PROVE FALSE
  OBVIOUS
<1>2. PICK m \in T : \A j \in T : m <= j
  BY <1>1, LeastNatural
<1>3. m \in 0..MaxSubmits /\ run[m].decisions # pre(m)
  BY <1>2
<1>4. m # 0
  BY <1>3, SoloUnfolds, PrefixGrows DEF NothingDecided
<1>5. m - 1 \in 0..MaxSubmits /\ m - 1 \notin T /\ m \in 1..MaxSubmits /\ m - 1 \in Nat /\ (m - 1) + 1 = m
  BY <1>1, <1>2, <1>3, <1>4
<1>6. run[m - 1].decisions = pre(m - 1)
  BY <1>5
<1>7. run[m].decisions = Append(run[m - 1].decisions, SoloDecision(smsc, engines, o, m))
  BY <1>5, SoloUnfolds
<1>8. Append(pre(m - 1), SoloDecision(smsc, engines, o, m)) = pre(m)
  <2>1. Append(pre(m - 1), SoloDecision(smsc, engines, o, (m - 1) + 1)) = pre((m - 1) + 1)
    BY <1>5, PrefixGrows
  <2>2. \A k : k = m => (Append(pre(m - 1), SoloDecision(smsc, engines, o, k)) = pre(k)
                         => Append(pre(m - 1), SoloDecision(smsc, engines, o, m)) = pre(m))
    BY Zenon
  <2> QED BY <1>5, <2>1, <2>2
<1> QED BY <1>3, <1>6, <1>7, <1>8

\* What was decided up to a tick begins what is decided up to a later one.
LEMMA PrefixesNest ==
  ASSUME NEW smsc, NEW engines, NEW o, NEW max \in Nat, NEW m \in 0..max
  PROVE  IsPrefix(SoloPrefix(smsc, engines, o, m), SoloPrefix(smsc, engines, o, max))
<1> DEFINE a == SoloPrefix(smsc, engines, o, m)
           b == SoloPrefix(smsc, engines, o, max)
<1>1. Len(a) = m /\ Len(b) = max
  BY PrefixGrows
<1>2. \A n \in 1..m : a[n] = b[n]
  BY DEF SoloPrefix
<1>3. SubSeq(a, 1, m) = SubSeq(b, 1, m)
  <2>1. SubSeq(a, 1, m) = [n \in 1..m |-> a[n]]
    OBVIOUS
  <2>2. SubSeq(b, 1, m) = [n \in 1..m |-> b[n]]
    OBVIOUS
  <2> HIDE DEF a, b
  <2> QED BY <1>2, <2>1, <2>2
<1> QED BY <1>1, <1>3 DEF IsPrefix
-----------------------------------------------------------------------------
(***************************************************************************)
(* Invariant (a). A bind of a replayed configuration has no gate; what it  *)
(* has decided and drawn so far is what a bind alone with its ordinal has. *)
(***************************************************************************)
Replayed == phase = "serving" /\ Seeded /\ ~ThroughputExempt(Initial)
Decided(s) == IF pc[s] = "commit" THEN perBindClock[s] + 1 ELSE perBindClock[s]

FollowsSolo(s) ==
  /\ decisions[s] = SoloPrefix(vs, Engines, id[s], Decided(s))
  /\ drawn[s] = SoloRun(vs, Engines, id[s])[Decided(s)].drawn

ReplayInv ==
  /\ DOMAIN gate = Slots /\ DOMAIN decisions = Slots /\ DOMAIN drawn = Slots
  /\ \A s \in Slots : pc[s] = "closed" => gate[s] = NoGate /\ decisions[s] = <<>> /\ drawn[s] = 0
  /\ Replayed => \A s \in Slots : gate[s] = NoGate /\ (pc[s] # "closed" => FollowsSolo(s))

\* The configuration does not change, and with it the engines.
LEMMA ConfigurationStays ==
  ASSUME [Next]_vars
  PROVE  cfg' = cfg /\ vs' = vs /\ Engines' = Engines /\ Initial' = Initial /\ Seeded' = Seeded
<1>1. cfg' = cfg
  BY DEF Next, vars, Load, Elapse, TakeOrdinal, Register, Leave, Submit, ApplyTransition, MoveGauge,
         Decide, Commit, Record
<1> QED BY <1>1 DEF vs, Engines, Initial, Seeded, Targets, Limit

\* SeededThroughput, effectiveCap: the wall clock has no say in a replayed bind.
LEMMA ReplayedHasNoCap ==
  ASSUME ObservedInv, Replayed
  PROVE  EffectiveCap(Engines[Initial]) = {}
<1> DEFINE e == Engines[Initial]
<1>1. ValidateVirtualSMSC(vs) = {}
  <2>1. Validate(cfg) = {} /\ 1 \in DOMAIN cfg.virtual_smscs
    BY TransitionsAreEvents DEF ObservedInv, Replayed
  <2>2. UNION {ValidateVirtualSMSC(cfg.virtual_smscs[i]) : i \in DOMAIN cfg.virtual_smscs} = {}
    BY <2>1 DEF Validate
  <2> QED BY <2>1, <2>2 DEF vs
<1>2. SeededThroughput(vs) \subseteq ValidateVirtualSMSC(vs)
  BY Zenon DEF ValidateVirtualSMSC
<1>3. SeededThroughput(vs) = {}
  BY <1>1, <1>2, Zenon
<1>4. ~Has(vs, "throughput_limit_per_sec")
  BY <1>3 DEF SeededThroughput, Unless, Replayed, Seeded, Initial
<1>5. Limit = {}
  BY <1>4 DEF Limit
<1>6. e = New(vs.scenario, Limit)
  BY DEF Engines, Initial
<1>7. e.limitPerSec = {} /\ e.profile = Initial
  BY <1>5, <1>6 DEF New, Initial
<1>8. ~ThroughputExempt(e.profile)
  BY <1>7 DEF Replayed
<1> HIDE DEF e
<1>9. EffectiveCap(e) = {}
  BY <1>7, <1>8 DEF EffectiveCap
<1> QED BY <1>9 DEF e

\* newVirtualSMSC: nobody has decided anything.
LEMMA ReplayInvInit == Init => CursorInv /\ BudgetInv /\ ReplayInv
<1> SUFFICES ASSUME Init PROVE CursorInv /\ BudgetInv /\ ReplayInv
  OBVIOUS
<1>1. \A s \in Slots : pc[s] = "closed" /\ cursor[s] = 0
  BY DEF Init
<1>2. CursorInv
  <2>1. Len(Schedules) \in Nat
    BY SchedulesSorted DEF Init
  <2> QED BY <1>1, <2>1 DEF CursorInv
<1>3. BudgetInv
  <2>1. Busy = {} /\ Deciding = {} /\ logicalClock = 0 /\ MaxSubmits \in Nat
    BY <1>1, VirtualSMSCConfig DEF Busy, Deciding, Init
  <2> QED BY <2>1, FS_EmptySet DEF BudgetInv
<1>4. ReplayInv
  <2>1. /\ DOMAIN gate = Slots /\ DOMAIN decisions = Slots /\ DOMAIN drawn = Slots /\ phase # "serving"
        /\ \A s \in Slots : gate[s] = NoGate /\ decisions[s] = <<>> /\ drawn[s] = 0
    BY DEF Init
  <2> QED BY <2>1 DEF ReplayInv, Replayed
<1> QED BY <1>2, <1>3, <1>4

\* A step that decides nothing: live binds stay live, and count what they counted.
LEMMA QuietStepKeepsReplay ==
  ASSUME ReplayInv, [Next]_vars, UNCHANGED <<phase, gate, decisions, drawn, id>>,
         \A r \in Slots : /\ pc'[r] = "closed" <=> pc[r] = "closed"
                          /\ pc[r] # "closed" => Decided(r)' = Decided(r)
  PROVE  ReplayInv'
<1>1. vs' = vs /\ Engines' = Engines /\ (Replayed' <=> Replayed)
  BY ConfigurationStays DEF Replayed
<1>2. \A r \in Slots : pc[r] # "closed" /\ FollowsSolo(r) => FollowsSolo(r)'
  BY <1>1 DEF FollowsSolo
<1> QED BY <1>1, <1>2 DEF ReplayInv

\* Evaluate: the profile is the tick's, the draws are the ordinal's, and nobody is refused.
LEMMA DecideFollowsSolo ==
  ASSUME ObservedInv, CorpusInv, BudgetInv, CursorInv, ReplayInv, Replayed, NEW s \in Slots, Decide(s)
  PROVE  /\ gate' = gate
         /\ decisions' = [decisions EXCEPT ![s] = SoloPrefix(vs, Engines, id[s], perBindClock[s] + 1)]
         /\ drawn' = [drawn EXCEPT ![s] = SoloRun(vs, Engines, id[s])[perBindClock[s] + 1].drawn]
<1> DEFINE o == id[s]
           n == perBindClock[s]
           run == SoloRun(vs, Engines, o)
           d == SoloDecision(vs, Engines, o, n + 1)
<1>1. pc[s] = "transition" /\ ~Due(s) /\ gate[s] = NoGate
  BY DEF Decide, ReplayInv
<1>2. /\ decisions[s] = SoloPrefix(vs, Engines, o, n) /\ drawn[s] = run[n].drawn
  BY <1>1 DEF ReplayInv, FollowsSolo, Decided
<1>3. profile[s] = ProfileAt(vs, n + 1)
  BY <1>1, ProfileGoverns DEF CorpusInv
<1>4. n \in Nat /\ n + 1 \in 1..MaxSubmits /\ (n + 1) - 1 = n
  <2>1. s \in Deciding /\ n \in Nat
    BY <1>1 DEF Deciding, CorpusInv, IdentityInv
  <2> QED BY <1>1, <2>1, TicksAreInBudget
<1>5. (gate[s] # NoGate => Allow(gate[s], now)) = TRUE
  BY <1>1, Zenon
<1>6. PICK draws \in NextDraws(o, drawn[s]) :
        LET e == Evaluate(Engines[profile[s]], gate[s] # NoGate => Allow(gate[s], now), draws, n + 1)
        IN  /\ decisions' = [decisions EXCEPT ![s] = Append(@, e)]
            /\ drawn' = [drawn EXCEPT ![s] = @ + e.used]
  BY Zenon DEF Decide
<1>7. draws = [i \in 1..DrawsPerTick |-> Stream[o][drawn[s] + i]]
  BY <1>6 DEF NextDraws, Replayed
<1>8. Evaluate(Engines[profile[s]], gate[s] # NoGate => Allow(gate[s], now), draws, n + 1)
        = Evaluate(Engines[ProfileAt(vs, n + 1)], TRUE, [i \in 1..DrawsPerTick |-> Stream[o][run[n].drawn + i]], n + 1)
  BY <1>2, <1>3, <1>5, <1>7, Zenon
<1>9. d = Evaluate(Engines[ProfileAt(vs, n + 1)], TRUE, [i \in 1..DrawsPerTick |-> Stream[o][run[n].drawn + i]], n + 1)
  BY <1>4 DEF SoloDecision
<1>10. /\ decisions' = [decisions EXCEPT ![s] = Append(@, d)]
       /\ drawn' = [drawn EXCEPT ![s] = @ + d.used]
  BY <1>6, <1>8, <1>9, Zenon
<1>11. gate' = gate
  BY <1>1 DEF Decide
<1> HIDE DEF d
<1>12. Append(decisions[s], d) = SoloPrefix(vs, Engines, o, n + 1)
  <2>1. Append(SoloPrefix(vs, Engines, o, n), SoloDecision(vs, Engines, o, n + 1))
          = SoloPrefix(vs, Engines, o, n + 1)
    BY <1>4, PrefixGrows
  <2> QED BY <1>2, <2>1 DEF d
<1>13. drawn[s] + d.used = run[n + 1].drawn
  <2>1. run[n + 1].drawn = run[(n + 1) - 1].drawn + SoloDecision(vs, Engines, o, n + 1).used
    BY <1>4, SoloUnfolds
  <2> QED BY <1>2, <1>4, <2>1 DEF d
<1> QED BY <1>10, <1>11, <1>12, <1>13 DEF ReplayInv

\* Every step of a replayed bind is the step of a bind alone, or leaves what it decided.
LEMMA ReplayInvStep ==
  ObservedInv /\ CorpusInv /\ BudgetInv /\ CursorInv /\ ReplayInv /\ [Next]_vars => ReplayInv'
<1> SUFFICES ASSUME ObservedInv, CorpusInv, BudgetInv, CursorInv, ReplayInv, [Next]_vars
             PROVE  ReplayInv'
  OBVIOUS
<1>1. /\ pc \in [Slots -> Points] /\ id \in [Slots -> Nat] /\ perBindClock \in [Slots -> Nat]
      /\ DOMAIN gate = Slots /\ DOMAIN decisions = Slots /\ DOMAIN drawn = Slots
  BY DEF CorpusInv, IdentityInv, ReplayInv
<1>2. vs' = vs /\ Engines' = Engines /\ Initial' = Initial /\ Seeded' = Seeded
  BY ConfigurationStays
<1>3. CASE Load
  <2>1. phase = "boot" /\ UNCHANGED <<pc, gate, decisions, drawn>>
    BY <1>3 DEF Load
  <2>2. \A s \in Slots : pc[s] = "closed"
    BY <2>1 DEF ObservedInv
  <2> QED BY <2>1, <2>2 DEF ReplayInv
<1>4. CASE Elapse \/ UNCHANGED vars
  <2>1. UNCHANGED <<phase, pc, gate, decisions, drawn, id, perBindClock>>
    BY <1>4 DEF Elapse, vars
  <2>2. \A r \in Slots : Decided(r)' = Decided(r)
    BY <2>1 DEF Decided
  <2> QED BY <2>1, <2>2, QuietStepKeepsReplay
<1>5. ASSUME NEW s \in Slots, TakeOrdinal(s) PROVE ReplayInv'
  <2> DEFINE cap == EffectiveCap(Engines[Initial])
             g == IF cap = {} THEN NoGate ELSE NewWallWindow(CHOOSE c \in cap : TRUE)
  <2>1. /\ pc[s] = "closed" /\ pc' = [pc EXCEPT ![s] = "ordinal"] /\ gate' = [gate EXCEPT ![s] = g]
        /\ id' = [id EXCEPT ![s] = bindSeq + 1] /\ UNCHANGED <<phase, decisions, drawn, perBindClock>>
    BY <1>5 DEF TakeOrdinal
  <2>2. Replayed' <=> Replayed
    BY <1>2, <2>1 DEF Replayed
  <2>3. Replayed => g = NoGate
    BY ReplayedHasNoCap
  <2> HIDE DEF g
  <2>4. \A r \in Slots : r # s => /\ pc'[r] = pc[r] /\ gate'[r] = gate[r] /\ id'[r] = id[r]
                                  /\ Decided(r)' = Decided(r)
    BY <1>1, <2>1 DEF Decided
  <2>5. \A r \in Slots : r # s /\ FollowsSolo(r) => FollowsSolo(r)'
    BY <1>2, <2>1, <2>4 DEF FollowsSolo
  <2>6. FollowsSolo(s)'
    <3>1. decisions[s] = <<>> /\ drawn[s] = 0 /\ perBindClock[s] = 0
      BY <2>1 DEF ReplayInv, CorpusInv
    <3>2. Decided(s)' = 0
      BY <1>1, <2>1, <3>1 DEF Decided
    <3>3. /\ SoloPrefix(vs, Engines, id'[s], 0) = <<>>
          /\ SoloRun(vs, Engines, id'[s])[0].drawn = 0
      BY SoloUnfolds, PrefixGrows DEF NothingDecided
    <3> QED BY <1>2, <2>1, <3>1, <3>2, <3>3 DEF FollowsSolo
  <2>7. pc'[s] = "ordinal" /\ gate'[s] = g /\ DOMAIN gate' = Slots
    BY <1>1, <2>1
  <2> QED BY <2>1, <2>2, <2>3, <2>4, <2>5, <2>6, <2>7 DEF ReplayInv
<1>6. ASSUME NEW s \in Slots, Leave(s) PROVE ReplayInv'
  <2>1. /\ pc' = [pc EXCEPT ![s] = "closed"] /\ gate' = [gate EXCEPT ![s] = NoGate]
        /\ decisions' = [decisions EXCEPT ![s] = <<>>] /\ drawn' = [drawn EXCEPT ![s] = 0]
        /\ id' = [id EXCEPT ![s] = 0] /\ perBindClock' = [perBindClock EXCEPT ![s] = 0] /\ UNCHANGED phase
    BY <1>6 DEF Leave
  <2>2. Replayed' <=> Replayed
    BY <1>2, <2>1 DEF Replayed
  <2>3. \A r \in Slots : r # s => /\ pc'[r] = pc[r] /\ gate'[r] = gate[r] /\ id'[r] = id[r]
                                  /\ decisions'[r] = decisions[r] /\ drawn'[r] = drawn[r]
                                  /\ Decided(r)' = Decided(r)
    BY <1>1, <2>1 DEF Decided
  <2>4. \A r \in Slots : r # s /\ FollowsSolo(r) => FollowsSolo(r)'
    BY <1>2, <2>3 DEF FollowsSolo
  <2>5. /\ pc'[s] = "closed" /\ gate'[s] = NoGate /\ decisions'[s] = <<>> /\ drawn'[s] = 0
        /\ DOMAIN gate' = Slots /\ DOMAIN decisions' = Slots /\ DOMAIN drawn' = Slots
    BY <1>1, <2>1
  <2> QED BY <2>2, <2>3, <2>4, <2>5 DEF ReplayInv
<1>7. ASSUME NEW s \in Slots, Register(s) \/ Submit(s) \/ ApplyTransition(s) \/ MoveGauge(s) \/ Record(s)
      PROVE  ReplayInv'
  <2>1. /\ pc[s] \notin {"closed", "commit"}
        /\ \E q \in Points \ {"closed", "commit"} : pc' = [pc EXCEPT ![s] = q]
        /\ UNCHANGED <<phase, gate, decisions, drawn, id, perBindClock>>
    BY <1>7 DEF Register, Submit, ApplyTransition, MoveGauge, Record
  <2>2. \A r \in Slots : /\ pc'[r] = "closed" <=> pc[r] = "closed"
                         /\ pc'[r] = "commit" <=> pc[r] = "commit"
    BY <1>1, <2>1
  <2>3. \A r \in Slots : Decided(r)' = Decided(r)
    BY <2>1, <2>2 DEF Decided
  <2> QED BY <2>1, <2>2, <2>3, QuietStepKeepsReplay
<1>8. ASSUME NEW s \in Slots, Commit(s) PROVE ReplayInv'
  <2>1. /\ pc[s] = "commit" /\ pc' = [pc EXCEPT ![s] = "record"]
        /\ perBindClock' = [perBindClock EXCEPT ![s] = @ + 1]
        /\ UNCHANGED <<phase, gate, decisions, drawn, id>>
    BY <1>8 DEF Commit
  <2>2. \A r \in Slots : pc'[r] = "closed" <=> pc[r] = "closed"
    BY <1>1, <2>1
  <2>3. \A r \in Slots : Decided(r)' = Decided(r)
    BY <1>1, <2>1 DEF Decided
  <2> QED BY <2>1, <2>2, <2>3, QuietStepKeepsReplay
<1>9. ASSUME NEW s \in Slots, Decide(s) PROVE ReplayInv'
  <2>1. /\ pc[s] # "closed" /\ pc' = [pc EXCEPT ![s] = "commit"]
        /\ UNCHANGED <<phase, id, perBindClock>>
    BY <1>9 DEF Decide
  <2>2. Replayed' <=> Replayed
    BY <1>2, <2>1 DEF Replayed
  <2>3. /\ \E D, w : decisions' = [decisions EXCEPT ![s] = D] /\ drawn' = [drawn EXCEPT ![s] = w]
        /\ gate' = [gate EXCEPT ![s] = Counted(gate[s], now)] \/ gate' = gate
    <3>1. \E D, w : decisions' = [decisions EXCEPT ![s] = D] /\ drawn' = [drawn EXCEPT ![s] = w]
      BY <1>9, Zenon DEF Decide
    <3>2. gate' = [gate EXCEPT ![s] = Counted(gate[s], now)] \/ gate' = gate
      BY <1>9 DEF Decide
    <3> QED BY <3>1, <3>2
  <2>4. \A r \in Slots : r # s => /\ pc'[r] = pc[r] /\ gate'[r] = gate[r] /\ decisions'[r] = decisions[r]
                                  /\ drawn'[r] = drawn[r] /\ Decided(r)' = Decided(r)
    BY <1>1, <2>1, <2>3 DEF Decided
  <2>5. \A r \in Slots : r # s /\ FollowsSolo(r) => FollowsSolo(r)'
    BY <1>2, <2>1, <2>4 DEF FollowsSolo
  <2>6. DOMAIN gate' = Slots /\ DOMAIN decisions' = Slots /\ DOMAIN drawn' = Slots /\ pc'[s] = "commit"
    BY <1>1, <2>1, <2>3
  <2>7. Replayed => gate' = gate /\ FollowsSolo(s)'
    <3> SUFFICES ASSUME Replayed PROVE gate' = gate /\ FollowsSolo(s)'
      OBVIOUS
    <3>1. /\ gate' = gate
          /\ decisions'[s] = SoloPrefix(vs, Engines, id[s], perBindClock[s] + 1)
          /\ drawn'[s] = SoloRun(vs, Engines, id[s])[perBindClock[s] + 1].drawn
      BY <1>1, <1>9, DecideFollowsSolo
    <3>2. Decided(s)' = perBindClock[s] + 1
      BY <2>1, <2>6 DEF Decided
    <3> QED BY <1>2, <2>1, <3>1, <3>2 DEF FollowsSolo
  <2> QED BY <2>1, <2>2, <2>4, <2>5, <2>6, <2>7 DEF ReplayInv
<1> QED BY <1>3, <1>4, <1>5, <1>6, <1>7, <1>8, <1>9 DEF Next

\* Invariant (a) of the simulator: with a seed, on a configuration that Load accepts and whose
\* profile is not a throughput one, whatever the number of binds, however they interleave and
\* however long anything takes, the decisions of a bind are those of a bind alone that has its
\* ordinal.
THEOREM DecisionsAreReplayed == Spec => []DecisionsReplay
<1> DEFINE Inv == ObservedInv /\ CorpusInv /\ BudgetInv /\ CursorInv /\ ReplayInv
<1>1. Init => Inv
  BY ObservedInvInit, CorpusInvInit, ReplayInvInit
<1>2. Inv /\ [Next]_vars => Inv'
  <2> SUFFICES ASSUME Inv, [Next]_vars PROVE Inv'
    OBVIOUS
  <2>1. IdentityInv
    BY DEF CorpusInv
  <2> QED BY <2>1, ObservedInvStep, CorpusInvStep, BudgetInvStep, CursorInvStep, ReplayInvStep
<1>3. Inv => DecisionsReplay
  <2> SUFFICES ASSUME Inv, Replayed, NEW s \in Slots, pc[s] # "closed"
               PROVE  IsPrefix(decisions[s], Solo(vs, Engines, id[s]).decisions)
    BY DEF DecisionsReplay, Replayed
  <2>1. decisions[s] = SoloPrefix(vs, Engines, id[s], Decided(s))
    BY DEF ReplayInv, FollowsSolo
  <2>2. Decided(s) \in 0..MaxSubmits /\ MaxSubmits \in Nat
    <3>1. /\ perBindClock[s] \in 0..MaxSubmits
          /\ s \in Deciding => perBindClock[s] + 1 \in 1..MaxSubmits
      BY TicksAreInBudget
    <3>2. MaxSubmits \in Nat /\ (pc[s] = "commit" => s \in Deciding)
      BY VirtualSMSCConfig DEF Deciding
    <3> QED BY <3>1, <3>2 DEF Decided
  <2>3. Solo(vs, Engines, id[s]).decisions = SoloPrefix(vs, Engines, id[s], MaxSubmits)
    <3>1. Solo(vs, Engines, id[s]) = SoloRun(vs, Engines, id[s])[MaxSubmits]
      BY SoloUnfolds
    <3>2. SoloRun(vs, Engines, id[s])[MaxSubmits].decisions = SoloPrefix(vs, Engines, id[s], MaxSubmits)
      BY <2>2, SoloDecisions
    <3> QED BY <3>1, <3>2
  <2>4. IsPrefix(SoloPrefix(vs, Engines, id[s], Decided(s)), SoloPrefix(vs, Engines, id[s], MaxSubmits))
    BY <2>2, PrefixesNest
  <2> QED BY <2>1, <2>3, <2>4
<1> QED BY <1>1, <1>2, <1>3, PTL DEF Spec
-----------------------------------------------------------------------------
(***************************************************************************)
(* Edge cases. A malformation is a function of the tick that Evaluate lays *)
(* over the decision, so switching it off moves no draw.                   *)
(***************************************************************************)
Strict(engines) == [p \in DOMAIN engines |-> [engines[p] EXCEPT !.edgeEnabled = FALSE]]

\* An engine w that injects nothing and is otherwise e; a decision that is another's without
\* its malformation.
EdgesOff(w, e) ==
  /\ w.edgeEnabled = FALSE /\ w.profile = e.profile /\ w.params = e.params /\ w.latency = e.latency
  /\ w.errorMix = e.errorMix /\ w.dlrEnabled = e.dlrEnabled /\ w.dlrMix = e.dlrMix
EdgeAside(without, with) == without.used = with.used /\ [with EXCEPT !.edge = NoEdge] = without

\* What an engine decides for a submit that its gate lets by, and the profile's part in it.
Profiled(e, draws, t) == EvaluateProfile(e, TRUE, draws, t)
Judged(e, draws, t) == Evaluate(e, TRUE, draws, t)

\* New: switching the edge cases off changes that one field.
LEMMA SwitchedOff ==
  ASSUME NEW sc, NEW limit
  PROVE  EdgesOff([New(sc, limit) EXCEPT !.edgeEnabled = FALSE], New(sc, limit))
  BY DEF New, EdgesOff

\* evaluate: what a profile decides before receipt and edge case are laid over it.
LEMMA ProfileDecision ==
  ASSUME NEW e, NEW draws, NEW t
  PROVE  \E outcome, status, latency : Profiled(e, draws, t) = Outcome(outcome, status, latency)
<1>1. CASE e.profile = "flaky-carrier"
  <2>1. \E outcome, status, latency : EvaluateFlaky(e, draws, t) = Outcome(outcome, status, latency)
    BY Zenon DEF EvaluateFlaky
  <2>2. Profiled(e, draws, t) = EvaluateFlaky(e, draws, t)
    BY <1>1 DEF EvaluateProfile, Profiled
  <2> QED BY <2>1, <2>2
<1>2. CASE e.profile = "dead-carrier"
  <2>1. Profiled(e, draws, t) = Outcome("timeout", "ESME_ROK", [ms |-> 0, used |-> 0])
    BY <1>2 DEF EvaluateProfile, Profiled
  <2> QED BY <2>1
<1>3. CASE e.profile \notin {"flaky-carrier", "dead-carrier"}
  <2>1. Profiled(e, draws, t) = Outcome("success", "ESME_ROK", LatencyMS(e.latency, t, draws[1]))
    BY <1>3 DEF EvaluateProfile, Profiled
  <2> QED BY <2>1
<1> QED BY <1>1, <1>2, <1>3

\* evaluate does not look at the edge cases.
LEMMA ProfileIgnoresEdges ==
  ASSUME NEW w, NEW e, EdgesOff(w, e), NEW draws, NEW t
  PROVE  Profiled(w, draws, t) = Profiled(e, draws, t)
<1>1. w.profile = e.profile /\ w.params = e.params /\ w.latency = e.latency /\ w.errorMix = e.errorMix
  BY DEF EdgesOff
<1>2. EvaluateFlaky(w, draws, t) = EvaluateFlaky(e, draws, t)
  BY <1>1 DEF EvaluateFlaky
<1> QED BY <1>1, <1>2 DEF EvaluateProfile, Profiled

\* Evaluate: the same decision and as many draws, the malformation aside.
LEMMA EdgeLaidOver ==
  ASSUME NEW w, NEW e, EdgesOff(w, e), NEW draws, NEW t
  PROVE  EdgeAside(Judged(w, draws, t), Judged(e, draws, t))
<1> DEFINE d == Profiled(e, draws, t)
           receipt == e.dlrEnabled /\ d.outcome = "success"
           picks == receipt /\ e.dlrMix # <<>>
           dlr == IF picks THEN Pick(e.dlrMix, draws[d.used + 1]) ELSE IF receipt THEN "delivered" ELSE NoDLR
           more == IF picks THEN 1 ELSE 0
<1>1. w.edgeEnabled = FALSE /\ w.dlrEnabled = e.dlrEnabled /\ w.dlrMix = e.dlrMix
  BY DEF EdgesOff
<1>2. Profiled(w, draws, t) = d
  BY ProfileIgnoresEdges
<1>3. EdgeCaseFor(w, t) = NoEdge
  BY <1>1 DEF EdgeCaseFor
<1>4. Judged(e, draws, t) = [d EXCEPT !.dlr = dlr, !.edge = EdgeCaseFor(e, t), !.used = @ + more]
  BY DEF Evaluate, Judged, Profiled
<1>5. Judged(w, draws, t) = [d EXCEPT !.dlr = dlr, !.edge = NoEdge, !.used = @ + more]
  <2> DEFINE dw == EvaluateProfile(w, TRUE, draws, t)
  <2>1. dw = d
    BY <1>2 DEF Profiled
  <2> HIDE DEF d, dw
  <2>2. Evaluate(w, TRUE, draws, t)
          = [dw EXCEPT !.dlr = IF (w.dlrEnabled /\ dw.outcome = "success") /\ w.dlrMix # <<>>
                               THEN Pick(w.dlrMix, draws[dw.used + 1])
                               ELSE IF w.dlrEnabled /\ dw.outcome = "success" THEN "delivered" ELSE NoDLR,
                       !.edge = EdgeCaseFor(w, t),
                       !.used = @ + IF (w.dlrEnabled /\ dw.outcome = "success") /\ w.dlrMix # <<>>
                                    THEN 1 ELSE 0]
    BY DEF Evaluate, dw
  <2> QED BY <1>1, <1>3, <2>1, <2>2 DEF Judged
<1>6. PICK outcome, status, latency : d = Outcome(outcome, status, latency)
  BY ProfileDecision
<1> HIDE DEF d, dlr, more
<1>7. d = [outcome |-> outcome, status |-> status, latency |-> latency.ms, dlr |-> NoDLR, edge |-> NoEdge,
           used |-> latency.used]
  BY <1>6 DEF Outcome
<1>8. EdgeAside([d EXCEPT !.dlr = dlr, !.edge = NoEdge, !.used = @ + more],
                [d EXCEPT !.dlr = dlr, !.edge = EdgeCaseFor(e, t), !.used = @ + more])
  BY <1>7 DEF EdgeAside
<1> QED BY <1>4, <1>5, <1>8

\* buildEngines: whatever profile rules a tick, the virtual SMSC has an engine for it.
LEMMA RulerHasEngine ==
  ASSUME cfg \in Configs, NEW tick \in Nat
  PROVE  ProfileAt(vs, tick) \in DOMAIN Engines
<1> DEFINE E == [at : Nat, to : STRING]
           all == vs.scheduled_transitions
<1>1. all \in Seq(E) /\ \A x \in E : x.at \in Int
  BY TransitionsAreEvents DEF vs
<1>2. ProfileAt(vs, tick) = IF DueEntries(all, tick) = {} THEN vs.scenario.profile
                            ELSE all[CHOOSE i \in LastDue(all, tick) : TRUE].to
  BY DEF ProfileAt, DueEntries, LastDue
<1>3. DOMAIN Engines = {Initial} \cup Targets
  BY DEF Engines
<1>4. \A i \in DOMAIN all : all[i].to \in Targets
  BY DEF Targets
<1> HIDE DEF all, E
<1>5. CASE DueEntries(all, tick) = {}
  BY <1>2, <1>3, <1>5 DEF Initial
<1>6. CASE DueEntries(all, tick) # {}
  <2>1. PICK c \in 0..Len(all) : \A k \in 1..Len(all) : k <= c <=> SortedByTick(all)[k].at <= tick
    <3>1. tick \in Int
      OBVIOUS
    <3>2. \E c \in 0..Len(all) : \A k \in 1..Len(all) : k <= c <=> SortedByTick(all)[k].at <= tick
      BY <1>1, <3>1, SomeCursor, Zenon
    <3> QED BY <3>2
  <2>2. c # 0 /\ SortedByTick(all)[c] = all[CHOOSE i \in LastDue(all, tick) : TRUE]
    BY <1>1, <1>6, <2>1, CursorAtLastDue
  <2>3. c \in 1..Len(all) /\ DOMAIN all = 1..Len(all)
    BY <1>1, <2>1, <2>2, LenProperties
  <2>4. PICK i \in 1..Len(all) : SortedByTick(all)[c] = all[i]
    BY <1>1, <2>3, SortedEntries
  <2>5. ProfileAt(vs, tick) = all[i].to
    BY <1>2, <1>6, <2>2, <2>4
  <2> QED BY <1>3, <1>4, <2>3, <2>4, <2>5
<1> QED BY <1>5, <1>6

\* buildEngines: the engine of that profile, with and without edge cases.
LEMMA RulerWithoutEdges ==
  ASSUME cfg \in Configs, NEW tick \in Nat
  PROVE  EdgesOff(Strict(Engines)[ProfileAt(vs, tick)], Engines[ProfileAt(vs, tick)])
<1>1. ASSUME NEW p \in DOMAIN Engines PROVE EdgesOff(Strict(Engines)[p], Engines[p])
  <2>1. \E sc : Engines[p] = New(sc, Limit)
    BY DEF Engines
  <2>2. PICK sc : Engines[p] = New(sc, Limit)
    BY <2>1
  <2>3. Strict(Engines)[p] = [New(sc, Limit) EXCEPT !.edgeEnabled = FALSE]
    BY <2>2 DEF Strict
  <2> QED BY <2>2, <2>3, SwitchedOff
<1> QED BY <1>1, RulerHasEngine

\* evaluate: from the same position of the stream, a bind alone decides the same with and
\* without edge cases.
LEMMA SameAtATick ==
  ASSUME cfg \in Configs, NEW o, NEW n \in Nat,
         SoloRun(vs, Strict(Engines), o)[n - 1].drawn = SoloRun(vs, Engines, o)[n - 1].drawn
  PROVE  EdgeAside(SoloDecision(vs, Strict(Engines), o, n), SoloDecision(vs, Engines, o, n))
<1> DEFINE w == Strict(Engines)[ProfileAt(vs, n)]
           e == Engines[ProfileAt(vs, n)]
           draws == [i \in 1..DrawsPerTick |-> Stream[o][SoloRun(vs, Engines, o)[n - 1].drawn + i]]
<1>1. EdgesOff(w, e)
  BY RulerWithoutEdges
<1>2. SoloDecision(vs, Engines, o, n) = Judged(e, draws, n)
  BY DEF SoloDecision, Judged
<1>3. SoloDecision(vs, Strict(Engines), o, n) = Judged(w, draws, n)
  BY DEF SoloDecision, Judged
<1> HIDE DEF w, e, draws
<1>4. EdgeAside(Judged(w, draws, n), Judged(e, draws, n))
  BY <1>1, EdgeLaidOver
<1> QED BY <1>2, <1>3, <1>4

\* The stream is at the same position after every tick: at the first where it would not be, the
\* tick before would have taken as many draws.
LEMMA SamePosition ==
  ASSUME cfg \in Configs, NEW o
  PROVE  \A n \in 0..MaxSubmits : SoloRun(vs, Strict(Engines), o)[n].drawn = SoloRun(vs, Engines, o)[n].drawn
<1> DEFINE strict == SoloRun(vs, Strict(Engines), o)
           run == SoloRun(vs, Engines, o)
           T == {n \in 0..MaxSubmits : strict[n].drawn # run[n].drawn}
<1>1. MaxSubmits \in Nat /\ T \subseteq Nat
  BY VirtualSMSCConfig
<1> SUFFICES ASSUME T # {} PROVE FALSE
  OBVIOUS
<1>2. PICK m \in T : \A j \in T : m <= j
  BY <1>1, LeastNatural
<1>3. m \in 0..MaxSubmits /\ strict[m].drawn # run[m].drawn
  BY <1>2
<1>4. m # 0
  <2>1. strict[0] = NothingDecided /\ run[0] = NothingDecided
    BY SoloUnfolds
  <2> QED BY <1>3, <2>1
<1>5. m - 1 \in 0..MaxSubmits /\ m - 1 \notin T /\ m \in 1..MaxSubmits /\ m \in Nat
  BY <1>1, <1>2, <1>3, <1>4
<1>6. strict[m - 1].drawn = run[m - 1].drawn
  BY <1>5
<1>7. SoloDecision(vs, Strict(Engines), o, m).used = SoloDecision(vs, Engines, o, m).used
  BY <1>5, <1>6, SameAtATick DEF EdgeAside
<1>8. /\ strict[m].drawn = strict[m - 1].drawn + SoloDecision(vs, Strict(Engines), o, m).used
      /\ run[m].drawn = run[m - 1].drawn + SoloDecision(vs, Engines, o, m).used
  BY <1>5, SoloUnfolds
<1> QED BY <1>3, <1>6, <1>7, <1>8

\* Evaluate: "enabling it leaves a seeded replay byte-identical". For every configuration that
\* Load accepts and every stream of draws, a bind draws the same numbers with edge cases and
\* without, and decides the same, response malformations aside.
THEOREM EdgeCasesShiftNoDraw == Spec => []EdgeCasesShiftNothing
<1>1. Init => ObservedInv
  BY ObservedInvInit
<1>2. ObservedInv /\ [Next]_vars => ObservedInv'
  BY ObservedInvStep
<1>3. ObservedInv => EdgeCasesShiftNothing
  <2> SUFFICES ASSUME ObservedInv, NEW o \in 1..bindSeq
               PROVE  /\ Solo(vs, Engines, o).drawn = Solo(vs, Strict(Engines), o).drawn
                      /\ \A n \in 1..MaxSubmits :
                           [Solo(vs, Engines, o).decisions[n] EXCEPT !.edge = NoEdge]
                             = Solo(vs, Strict(Engines), o).decisions[n]
    BY Zenon DEF EdgeCasesShiftNothing, Strict
  <2>1. cfg \in Configs /\ MaxSubmits \in Nat
    BY VirtualSMSCConfig DEF ObservedInv
  <2>2. /\ Solo(vs, Engines, o) = SoloRun(vs, Engines, o)[MaxSubmits]
        /\ Solo(vs, Strict(Engines), o) = SoloRun(vs, Strict(Engines), o)[MaxSubmits]
    BY SoloUnfolds
  <2>3. Solo(vs, Engines, o).drawn = Solo(vs, Strict(Engines), o).drawn
    BY <2>1, <2>2, SamePosition
  <2>4. /\ Solo(vs, Engines, o).decisions = SoloPrefix(vs, Engines, o, MaxSubmits)
        /\ Solo(vs, Strict(Engines), o).decisions = SoloPrefix(vs, Strict(Engines), o, MaxSubmits)
    BY <2>1, <2>2, SoloDecisions
  <2>5. ASSUME NEW n \in 1..MaxSubmits
        PROVE  [SoloDecision(vs, Engines, o, n) EXCEPT !.edge = NoEdge] = SoloDecision(vs, Strict(Engines), o, n)
    <3>1. n - 1 \in 0..MaxSubmits /\ n \in Nat
      BY <2>1
    <3>2. SoloRun(vs, Strict(Engines), o)[n - 1].drawn = SoloRun(vs, Engines, o)[n - 1].drawn
      BY <2>1, <3>1, SamePosition
    <3> QED BY <2>1, <3>1, <3>2, SameAtATick DEF EdgeAside
  <2>6. \A n \in 1..MaxSubmits :
          /\ Solo(vs, Engines, o).decisions[n] = SoloDecision(vs, Engines, o, n)
          /\ Solo(vs, Strict(Engines), o).decisions[n] = SoloDecision(vs, Strict(Engines), o, n)
    BY <2>4 DEF SoloPrefix
  <2> QED BY <2>3, <2>5, <2>6
<1> QED BY <1>1, <1>2, <1>3, PTL DEF Spec
-----------------------------------------------------------------------------
(***************************************************************************)
(* The weighted mixes. buildErrorMix and buildDLRMix are one loop, and the *)
(* function that Flatten defines recursively exists for the same reason as *)
(* Solo's. A mix cuts the draws into one interval per outcome, as long as  *)
(* its weight.                                                             *)
(***************************************************************************)
NothingWeighed == [cum |-> 0, mix |-> <<>>]
WeighRound(order, weights, before, i) == Weighed(before, order[i], weights)
IsWeighing(after, order, weights, n) ==
  after = [i \in 0..n |-> IF i = 0 THEN NothingWeighed ELSE WeighRound(order, weights, after[i - 1], i)]

\* The loop runs over any number of outcomes.
LEMMA WeighingExists ==
  ASSUME NEW order, NEW weights, NEW n \in Nat
  PROVE  \E after : IsWeighing(after, order, weights, n)
<1> DEFINE T == {m \in Nat : ~\E after : IsWeighing(after, order, weights, m)}
<1> SUFFICES ASSUME T # {} PROVE FALSE
  OBVIOUS
<1>1. PICK m \in T : \A j \in T : m <= j
  BY LeastNatural
<1>2. m \in Nat /\ ~\E after : IsWeighing(after, order, weights, m)
  OBVIOUS
<1>3. CASE m = 0
  <2> DEFINE g == [i \in 0..0 |-> NothingWeighed]
  <2>1. IsWeighing(g, order, weights, 0)
    BY DEF IsWeighing
  <2> QED BY <2>1, <1>2, <1>3
<1>4. CASE m # 0
  <2>1. m - 1 \in Nat /\ m - 1 \notin T
    BY <1>1, <1>2, <1>4
  <2>2. PICK h : IsWeighing(h, order, weights, m - 1)
    BY <2>1
  <2> DEFINE g == [i \in 0..m |-> IF i = m THEN WeighRound(order, weights, h[m - 1], m) ELSE h[i]]
  <2>3. \A i \in 0..(m - 1) : g[i] = h[i]
    BY <1>2, <2>1
  <2>4. ASSUME NEW i \in 0..m
        PROVE  g[i] = IF i = 0 THEN NothingWeighed ELSE WeighRound(order, weights, g[i - 1], i)
    <3>1. CASE i = m
      <4>1. i # 0 /\ i - 1 \in 0..(m - 1) BY <3>1, <1>2, <1>4
      <4>2. g[i - 1] = h[m - 1] BY <4>1, <3>1, <2>3
      <4>3. g[i] = WeighRound(order, weights, h[m - 1], m) BY <3>1
      <4> QED BY <4>1, <4>2, <4>3, <3>1
    <3>2. CASE i # m
      <4>1. i \in 0..(m - 1) /\ g[i] = h[i] BY <3>2, <1>2, <2>3
      <4>2. h[i] = IF i = 0 THEN NothingWeighed ELSE WeighRound(order, weights, h[i - 1], i)
        BY <4>1, <2>2 DEF IsWeighing
      <4>3. CASE i = 0 BY <4>1, <4>2, <4>3
      <4>4. CASE i # 0
        <5>1. i - 1 \in 0..(m - 1) BY <4>1, <4>4, <1>2
        <5>2. g[i - 1] = h[i - 1] BY <5>1, <2>3
        <5> QED BY <5>2, <4>1, <4>2, <4>4
      <4> QED BY <4>3, <4>4
    <3> QED BY <3>1, <3>2
  <2>5. IsWeighing(g, order, weights, m)
    <3> DEFINE rhs == [i \in 0..m |-> IF i = 0 THEN NothingWeighed ELSE WeighRound(order, weights, g[i - 1], i)]
    <3>1. DOMAIN g = 0..m /\ g = [i \in 0..m |-> g[i]] OBVIOUS
    <3> HIDE DEF g
    <3>2. g = rhs BY <3>1, <2>4
    <3> QED BY <3>2 DEF IsWeighing
  <2> QED BY <2>5, <1>2
<1> QED BY <1>3, <1>4

\* Where the interval of entry k of a mix ends; it begins where the one before it ends.
Upto(mix, k) == IF k = 0 THEN 0 ELSE mix[k].cum

\* A mix of the outcomes in seen: their intervals follow each other, one per positive weight.
Mixes(mix, seen, weights) ==
  /\ Len(mix) \in Nat /\ mix \in Seq([value : seen, cum : Nat])
  /\ \A k \in 1..Len(mix) : /\ mix[k].value \in DOMAIN weights /\ weights[mix[k].value] > 0
                            /\ Upto(mix, k) = Upto(mix, k - 1) + weights[mix[k].value]
  /\ \A j, k \in 0..Len(mix) : j < k => Upto(mix, j) < Upto(mix, k)
  /\ \A j, k \in 1..Len(mix) : mix[j].value = mix[k].value => j = k
  /\ \A x \in seen : x \in DOMAIN weights /\ weights[x] > 0 => \E k \in 1..Len(mix) : mix[k].value = x

\* One round: the next outcome's interval begins where the last one ends.
LEMMA WeighedMixes ==
  ASSUME NEW a, NEW seen, NEW x, NEW weights, x \notin seen, \A w \in DOMAIN weights : weights[w] \in Nat,
         Mixes(a.mix, seen, weights), a.cum = Upto(a.mix, Len(a.mix))
  PROVE  /\ Mixes(Weighed(a, x, weights).mix, seen \cup {x}, weights)
         /\ Weighed(a, x, weights).cum = Upto(Weighed(a, x, weights).mix, Len(Weighed(a, x, weights).mix))
<1> DEFINE s == a.mix
           n == Len(s)
           b == Weighed(a, x, weights)
           S == [value : seen, cum : Nat]
           S2 == [value : seen \cup {x}, cum : Nat]
<1>0. n \in Nat /\ s \in Seq(S) /\ \A k \in 1..n : s[k] \in S /\ s[k].value \in seen /\ s[k].cum \in Nat
  <2>1. n \in Nat /\ s \in Seq(S)
    BY DEF Mixes
  <2> HIDE DEF s, S
  <2>2. \A k \in 1..n : s[k] \in S
    BY <2>1
  <2>3. \A y \in S : y.value \in seen /\ y.cum \in Nat
    BY DEF S
  <2> QED BY <2>1, <2>2, <2>3
<1>00. s \in Seq(S2)
  <2>1. \A y \in S : y \in S2
    OBVIOUS
  <2> HIDE DEF s, S, S2
  <2>2. s \in [1..n -> S2]
    BY <1>0, <2>1
  <2> QED BY <1>0, <2>2
<1>1. CASE ~(x \in DOMAIN weights /\ weights[x] > 0)
  <2>1. b = a
    BY <1>1 DEF Weighed
  <2> QED BY <1>00, <1>1, <2>1 DEF Mixes
<1>2. CASE x \in DOMAIN weights /\ weights[x] > 0
  <2> DEFINE c == a.cum + weights[x]
             e == [value |-> x, cum |-> c]
             t == Append(s, e)
  <2>1. b = [cum |-> c, mix |-> t]
    BY <1>2 DEF Weighed
  <2>2. b.mix = t /\ b.cum = c
    BY <2>1
  <2>3. a.cum \in Nat /\ c \in Nat /\ c > a.cum /\ weights[x] \in Nat
    <3>1. a.cum \in Nat
      BY <1>0 DEF Upto
    <3> QED BY <1>2, <3>1
  <2>4. e \in S2 /\ e.value = x /\ e.cum = c
    BY <2>3
  <2> HIDE DEF e, s, c, S, S2
  <2>5. t \in Seq(S2) /\ Len(t) = n + 1 /\ t[n + 1] = e /\ \A k \in 1..n : t[k] = s[k]
    BY <1>0, <1>00, <2>4
  <2> HIDE DEF t
  <2>6. \A k \in 0..n : Upto(t, k) = Upto(s, k) /\ Upto(s, k) \in Nat
    BY <1>0, <2>5 DEF Upto
  <2>7. Upto(t, n + 1) = c /\ a.cum = Upto(s, n)
    <3>1. n + 1 # 0
      BY <1>0
    <3> QED BY <2>4, <2>5, <3>1 DEF Upto, s
  <2>8. ASSUME NEW k \in 1..Len(t)
        PROVE  /\ t[k].value \in DOMAIN weights /\ weights[t[k].value] > 0
               /\ Upto(t, k) = Upto(t, k - 1) + weights[t[k].value]
    <3>1. CASE k \in 1..n
      <4>1. k - 1 \in 0..n /\ k \in 0..n
        BY <1>0, <3>1
      <4>2. /\ s[k].value \in DOMAIN weights /\ weights[s[k].value] > 0
            /\ Upto(s, k) = Upto(s, k - 1) + weights[s[k].value]
        BY <3>1 DEF Mixes, s
      <4> QED BY <2>5, <2>6, <3>1, <4>1, <4>2
    <3>2. CASE k = n + 1
      <4>1. k - 1 = n /\ n \in 0..n
        BY <1>0, <3>2
      <4>2. Upto(t, k - 1) = Upto(s, n)
        BY <2>6, <4>1
      <4>3. t[k] = e /\ t[k].value = x
        BY <2>4, <2>5, <3>2
      <4> QED BY <1>2, <2>7, <3>2, <4>2, <4>3 DEF c
    <3> QED BY <1>0, <2>5, <3>1, <3>2
  <2>9. ASSUME NEW j \in 0..Len(t), NEW k \in 0..Len(t), j < k PROVE Upto(t, j) < Upto(t, k)
    <3>0. j \in 0..n
      BY <1>0, <2>5, <2>9
    <3>1. CASE k \in 0..n
      BY <2>6, <2>9, <3>0, <3>1 DEF Mixes, s
    <3>2. CASE k = n + 1
      <4>1. Upto(s, j) <= Upto(s, n)
        <5>1. CASE j = n
          BY <2>6, <3>0, <5>1
        <5>2. CASE j < n
          <6>1. n \in 0..n
            BY <1>0
          <6>2. \A i, l \in 0..n : i < l => Upto(s, i) < Upto(s, l)
            BY DEF Mixes, s
          <6>3. Upto(s, j) < Upto(s, n) /\ Upto(s, j) \in Nat /\ Upto(s, n) \in Nat
            BY <2>6, <3>0, <5>2, <6>1, <6>2
          <6> QED BY <6>3
        <5> QED BY <1>0, <3>0, <5>1, <5>2
      <4>2. Upto(t, j) \in Nat /\ Upto(t, j) <= a.cum
        BY <2>6, <2>7, <3>0, <4>1
      <4> QED BY <2>3, <2>7, <3>2, <4>2
    <3> QED BY <1>0, <2>5, <3>1, <3>2
  <2>10. ASSUME NEW j \in 1..Len(t), NEW k \in 1..Len(t), t[j].value = t[k].value PROVE j = k
    <3>1. \A i \in 1..n : t[i].value \in seen /\ t[i] = s[i]
      BY <1>0, <2>5
    <3>2. t[n + 1].value \notin seen
      BY <2>4, <2>5
    <3>3. (j \in 1..n \/ j = n + 1) /\ (k \in 1..n \/ k = n + 1)
      BY <1>0, <2>5
    <3>4. \A i, l \in 1..n : s[i].value = s[l].value => i = l
      BY DEF Mixes, s
    <3> QED BY <2>10, <3>1, <3>2, <3>3, <3>4
  <2>11. ASSUME NEW y \in seen \cup {x}, y \in DOMAIN weights, weights[y] > 0
         PROVE  \E k \in 1..Len(t) : t[k].value = y
    <3>1. CASE y = x
      <4>1. n + 1 \in 1..Len(t)
        BY <1>0, <2>5
      <4> QED BY <2>4, <2>5, <3>1, <4>1
    <3>2. CASE y \in seen
      <4>1. PICK k \in 1..n : s[k].value = y
        BY <2>11, <3>2 DEF Mixes, s
      <4>2. k \in 1..Len(t) /\ t[k] = s[k]
        BY <1>0, <2>5
      <4> QED BY <4>1, <4>2
    <3> QED BY <3>1, <3>2
  <2>12. Len(t) \in Nat /\ c = Upto(t, Len(t))
    BY <1>0, <2>5, <2>7
  <2> QED BY <2>2, <2>5, <2>8, <2>9, <2>10, <2>11, <2>12 DEF Mixes, S2
<1> QED BY <1>1, <1>2

\* buildErrorMix, buildDLRMix: whatever the weights, the result is a mix of the outcomes in the order.
LEMMA FlattenMixes ==
  ASSUME NEW order, Len(order) \in Nat, NEW weights, \A w \in DOMAIN weights : weights[w] \in Nat,
         \A i, j \in 1..Len(order) : order[i] = order[j] => i = j
  PROVE  Mixes(Flatten(order, weights), {order[i] : i \in 1..Len(order)}, weights)
<1> DEFINE n == Len(order)
           f == CHOOSE g : IsWeighing(g, order, weights, n)
           Seen(i) == {order[j] : j \in 1..i}
           Good(i) == Mixes(f[i].mix, Seen(i), weights) /\ f[i].cum = Upto(f[i].mix, Len(f[i].mix))
<1>1. IsWeighing(f, order, weights, n)
  BY WeighingExists
<1>2. Flatten(order, weights) = f[n].mix
  BY DEF Flatten, IsWeighing, WeighRound, NothingWeighed
<1> HIDE DEF f
<1>3. f[0] = NothingWeighed /\ \A i \in 1..n : f[i] = Weighed(f[i - 1], order[i], weights)
  BY <1>1 DEF IsWeighing, WeighRound
<1>4. Good(n)
  <2> DEFINE T == {m \in 0..n : ~Good(m)}
  <2> HIDE DEF Good
  <2>0. n \in Nat /\ n \in 0..n
    OBVIOUS
  <2> HIDE DEF n
  <2> SUFFICES ASSUME T # {} PROVE FALSE
    BY <2>0
  <2>1. T \subseteq Nat
    BY <2>0
  <2>2. PICK m \in T : \A j \in T : m <= j
    BY <2>1, LeastNatural
  <2>3. m \in 0..n /\ ~Good(m)
    BY <2>2
  <2>4. Good(0)
    <3>1. f[0].mix = <<>> /\ f[0].cum = 0
      BY <1>3 DEF NothingWeighed
    <3>2. Len(<<>>) = 0 /\ Seen(0) = {}
      OBVIOUS
    <3>3. <<>> \in Seq([value : Seen(0), cum : Nat])
      OBVIOUS
    <3> HIDE DEF Seen
    <3> QED BY <3>1, <3>2, <3>3 DEF Good, Mixes, Upto
  <2>5. m # 0
    BY <2>3, <2>4
  <2>6. m - 1 \in 0..n /\ m - 1 \notin T /\ m \in 1..n
    BY <2>0, <2>2, <2>3, <2>5
  <2>7. Good(m - 1)
    BY <2>6
  <2>8. order[m] \notin Seen(m - 1) /\ Seen(m) = Seen(m - 1) \cup {order[m]}
    <3>1. \A j \in 1..(m - 1) : j \in 1..n /\ j # m
      BY <2>0, <2>3, <2>6
    <3>2. 1..m = (1..(m - 1)) \cup {m}
      BY <2>6
    <3> QED BY <2>6, <3>1, <3>2 DEF n
  <2>9. f[m] = Weighed(f[m - 1], order[m], weights)
    BY <1>3, <2>6
  <2>10. Mixes(f[m - 1].mix, Seen(m - 1), weights) /\ f[m - 1].cum = Upto(f[m - 1].mix, Len(f[m - 1].mix))
    BY <2>7 DEF Good
  <2> HIDE DEF Seen, T
  <2> DEFINE a == f[m - 1]
             x == order[m]
             b == Weighed(a, x, weights)
             old == Seen(m - 1)
  <2>11. Mixes(b.mix, Seen(m - 1) \cup {order[m]}, weights) /\ b.cum = Upto(b.mix, Len(b.mix))
    <3>1. x \notin old /\ Mixes(a.mix, old, weights) /\ a.cum = Upto(a.mix, Len(a.mix))
      BY <2>8, <2>10
    <3> HIDE DEF a, x, old
    <3>2. Mixes(b.mix, old \cup {x}, weights) /\ b.cum = Upto(b.mix, Len(b.mix))
      BY <3>1, WeighedMixes
    <3> QED BY <3>2 DEF old, x
  <2>12. Good(m)
    BY <2>8, <2>9, <2>11 DEF Good
  <2> QED BY <2>3, <2>12
<1> QED BY <1>2, <1>4

\* rand.Uint64N on a draw below the total is that draw.
LEMMA DrawInRange ==
  ASSUME NEW n \in Nat, NEW total \in Nat, n < total
  PROVE  Uint64N(n, total) = n
  BY DEF Uint64N

\* pickErrorStatus, pickDLROutcome: a draw selects the entry in whose interval it lies.
LEMMA PickedByInterval ==
  ASSUME NEW mix, NEW seen, NEW weights, Mixes(mix, seen, weights), NEW n \in Nat, NEW k \in 1..Len(mix),
         Upto(mix, k - 1) <= n, n < Upto(mix, k)
  PROVE  Pick(mix, n) = mix[k].value
<1> DEFINE total == mix[Len(mix)].cum
           Found(i) == n < mix[i].cum /\ \A j \in 1..(i - 1) : n >= mix[j].cum
<1>1. /\ Len(mix) \in Nat /\ Len(mix) \in 1..Len(mix)
      /\ \A i \in 1..Len(mix) : Upto(mix, i) = mix[i].cum /\ mix[i].cum \in Nat /\ i \in 0..Len(mix)
  <2> DEFINE S == [value : seen, cum : Nat]
  <2>1. Len(mix) \in Nat /\ mix \in Seq(S) /\ \A y \in S : y.cum \in Nat
    BY DEF Mixes
  <2> HIDE DEF S
  <2>2. \A i \in 1..Len(mix) : mix[i] \in S
    BY <2>1
  <2>3. \A i \in 1..Len(mix) : mix[i].cum \in Nat /\ i # 0
    BY <2>1, <2>2
  <2> QED BY <2>1, <2>3 DEF Upto
<1>2. \A i, j \in 0..Len(mix) : i < j => Upto(mix, i) < Upto(mix, j)
  BY DEF Mixes
<1>3. \A i, j \in 1..Len(mix) : i < j => mix[i].cum < mix[j].cum
  BY <1>1, <1>2
<1>4. DOMAIN mix = 1..Len(mix)
  BY DEF Mixes
<1>5. n < total /\ total \in Nat
  <2>1. CASE k = Len(mix)
    BY <1>1, <2>1
  <2>2. CASE k < Len(mix)
    <3>1. mix[k].cum < mix[Len(mix)].cum /\ mix[k].cum \in Nat /\ mix[Len(mix)].cum \in Nat
      BY <1>1, <1>3, <2>2
    <3> QED BY <1>1, <3>1
  <2> QED BY <1>1, <2>1, <2>2
<1>6. Found(k)
  <2>1. n < mix[k].cum
    BY <1>1
  <2>2. ASSUME NEW j \in 1..(k - 1) PROVE n >= mix[j].cum
    <3>1. k - 1 \in 1..Len(mix) /\ j \in 1..Len(mix) /\ j <= k - 1
      BY <1>1
    <3>2. mix[k - 1].cum <= n /\ mix[k - 1].cum \in Nat /\ mix[j].cum \in Nat
      BY <1>1, <3>1
    <3>3. mix[j].cum <= mix[k - 1].cum
      <4>1. CASE j = k - 1
        BY <3>2, <4>1
      <4>2. CASE j < k - 1
        <5>1. mix[j].cum < mix[k - 1].cum
          BY <1>3, <3>1, <4>2
        <5> QED BY <3>2, <5>1
      <4> QED BY <1>1, <3>1, <4>1, <4>2
    <3> QED BY <3>2, <3>3
  <2> QED BY <2>1, <2>2
<1>7. ASSUME NEW i \in 1..Len(mix), Found(i) PROVE i = k
  <2>1. CASE i < k
    <3>1. i \in 1..(k - 1) /\ mix[i].cum \in Nat
      BY <1>1, <2>1
    <3>2. n >= mix[i].cum
      BY <1>6, <3>1
    <3> QED BY <1>7, <3>1, <3>2
  <2>2. CASE k < i
    <3>1. k \in 1..(i - 1) /\ mix[k].cum \in Nat
      BY <1>1, <2>2
    <3>2. n >= mix[k].cum
      BY <1>7, <3>1
    <3> QED BY <1>1, <3>1, <3>2
  <2> QED BY <1>1, <2>1, <2>2
<1>8. Uint64N(n, total) = n
  BY <1>5, DrawInRange
<1>9. (CHOOSE i \in DOMAIN mix : Found(i)) = k
  <2> HIDE DEF Found
  <2> QED BY <1>4, <1>6, <1>7
<1> QED BY <1>8, <1>9 DEF Pick

\* Every draw below the total lies in the interval of an entry.
LEMMA DrawHasInterval ==
  ASSUME NEW mix, NEW seen, NEW weights, Mixes(mix, seen, weights), Len(mix) > 0, NEW n \in 0..(mix[Len(mix)].cum - 1)
  PROVE  \E k \in 1..Len(mix) : Upto(mix, k - 1) <= n /\ n < Upto(mix, k)
<1>1. /\ Len(mix) \in Nat /\ Len(mix) \in 1..Len(mix) /\ 0 \in 0..Len(mix)
      /\ \A i \in 1..Len(mix) : Upto(mix, i) = mix[i].cum /\ i - 1 \in 0..Len(mix)
      /\ \A i \in 0..Len(mix) : Upto(mix, i) \in Nat
  <2> DEFINE S == [value : seen, cum : Nat]
  <2>1. Len(mix) \in Nat /\ mix \in Seq(S) /\ \A y \in S : y.cum \in Nat
    BY DEF Mixes
  <2> HIDE DEF S
  <2>2. \A i \in 1..Len(mix) : mix[i] \in S /\ i # 0
    BY <2>1
  <2>3. \A i \in 1..Len(mix) : mix[i].cum \in Nat
    BY <2>1, <2>2
  <2>4. \A i \in 0..Len(mix) : i = 0 \/ i \in 1..Len(mix)
    BY <2>1
  <2>5. \A i \in 0..Len(mix) : Upto(mix, i) \in Nat
    BY <2>3, <2>4 DEF Upto
  <2>6. \A i \in 1..Len(mix) : Upto(mix, i) = mix[i].cum
    BY <2>2 DEF Upto
  <2> QED BY <2>1, <2>5, <2>6
<1> DEFINE T == {i \in 1..Len(mix) : n < Upto(mix, i)}
<1>2. n \in Nat /\ n < Upto(mix, Len(mix))
  BY <1>1
<1>3. T \subseteq Nat /\ Len(mix) \in T
  BY <1>1, <1>2
<1>4. PICK k \in T : \A j \in T : k <= j
  BY <1>3, LeastNatural
<1>5. k \in 1..Len(mix) /\ n < Upto(mix, k)
  BY <1>4
<1>6. Upto(mix, k - 1) <= n
  <2>1. CASE k = 1
    <3>1. k - 1 = 0
      BY <2>1
    <3>2. Upto(mix, k - 1) = 0
      BY <3>1 DEF Upto
    <3> QED BY <1>2, <3>2
  <2>2. CASE k # 1
    <3>1. k - 1 \in 1..Len(mix) /\ k - 1 \notin T
      BY <1>1, <1>4, <1>5, <2>2
    <3>2. ~(n < Upto(mix, k - 1)) /\ Upto(mix, k - 1) \in Nat
      BY <1>1, <1>5, <3>1
    <3> QED BY <1>2, <3>2
  <2> QED BY <2>1, <2>2
<1> QED BY <1>5, <1>6

\* How often an outcome is drawn.
LEMMA WeightsAreShares ==
  ASSUME NEW mix, NEW seen, NEW weights, Mixes(mix, seen, weights), Len(mix) > 0, DOMAIN weights \subseteq seen,
         \A w \in DOMAIN weights : weights[w] \in Nat, NEW o \in DOMAIN weights
  PROVE  Cardinality({n \in 0..(mix[Len(mix)].cum - 1) : Pick(mix, n) = o}) = weights[o]
<1> DEFINE total == mix[Len(mix)].cum
           Drawn == {n \in 0..(total - 1) : Pick(mix, n) = o}
<1>1. /\ Len(mix) \in Nat /\ Len(mix) \in 1..Len(mix)
      /\ \A i \in 1..Len(mix) : i \in 0..Len(mix) /\ i - 1 \in 0..Len(mix)
      /\ \A i \in 0..Len(mix) : Upto(mix, i) \in Nat
      /\ Upto(mix, Len(mix)) = total
  <2> DEFINE S == [value : seen, cum : Nat]
  <2>1. Len(mix) \in Nat /\ mix \in Seq(S) /\ \A y \in S : y.cum \in Nat
    BY DEF Mixes
  <2> HIDE DEF S
  <2>2. \A i \in 1..Len(mix) : mix[i] \in S /\ i # 0
    BY <2>1
  <2>3. \A i \in 1..Len(mix) : mix[i].cum \in Nat
    BY <2>1, <2>2
  <2>4. \A i \in 0..Len(mix) : i = 0 \/ i \in 1..Len(mix)
    BY <2>1
  <2>5. \A i \in 0..Len(mix) : Upto(mix, i) \in Nat
    BY <2>3, <2>4 DEF Upto
  <2>6. Upto(mix, Len(mix)) = total
    BY <2>1 DEF Upto
  <2> QED BY <2>1, <2>5, <2>6
<1>2. \A k \in 1..Len(mix) : /\ mix[k].value \in DOMAIN weights /\ weights[mix[k].value] > 0
                             /\ Upto(mix, k) = Upto(mix, k - 1) + weights[mix[k].value]
  BY DEF Mixes
<1>3. ASSUME NEW n \in 0..(total - 1)
      PROVE  \E k \in 1..Len(mix) : Upto(mix, k - 1) <= n /\ n < Upto(mix, k) /\ Pick(mix, n) = mix[k].value
  <2>1. PICK k \in 1..Len(mix) : Upto(mix, k - 1) <= n /\ n < Upto(mix, k)
    BY DrawHasInterval
  <2>2. n \in Nat
    BY <1>1
  <2> QED BY <2>1, <2>2, PickedByInterval
<1>4. CASE weights[o] = 0
  <2>1. Drawn = {}
    <3> SUFFICES ASSUME NEW n \in Drawn PROVE FALSE
      OBVIOUS
    <3>1. PICK k \in 1..Len(mix) : Pick(mix, n) = mix[k].value
      BY <1>3
    <3>2. mix[k].value = o
      BY <3>1
    <3> QED BY <1>2, <1>4, <3>2
  <2> QED BY <1>4, <2>1, FS_EmptySet
<1>5. CASE weights[o] > 0
  <2>1. PICK k \in 1..Len(mix) : mix[k].value = o
    BY <1>5 DEF Mixes
  <2> DEFINE lo == Upto(mix, k - 1)
             hi == Upto(mix, k)
  <2>2. lo \in Nat /\ hi \in Nat /\ hi = lo + weights[o] /\ weights[o] \in Nat
    BY <1>1, <1>2, <2>1
  <2>3. hi <= total
    <3>1. CASE k = Len(mix)
      BY <1>1, <2>2, <3>1
    <3>2. CASE k < Len(mix)
      <4>1. \A i, j \in 0..Len(mix) : i < j => Upto(mix, i) < Upto(mix, j)
        BY DEF Mixes
      <4>2. Upto(mix, k) < Upto(mix, Len(mix)) /\ Upto(mix, Len(mix)) \in Nat
        BY <1>1, <3>2, <4>1
      <4>3. hi < total /\ total \in Nat
        BY <1>1, <4>2
      <4> HIDE DEF hi, total
      <4> QED BY <2>2, <4>3
    <3> QED BY <1>1, <3>1, <3>2
  <2>4. ASSUME NEW n \in Drawn PROVE n \in lo..(hi - 1)
    <3>1. n \in 0..(total - 1) /\ Pick(mix, n) = o /\ n \in Int
      BY <1>1
    <3>2. PICK j \in 1..Len(mix) : Upto(mix, j - 1) <= n /\ n < Upto(mix, j) /\ Pick(mix, n) = mix[j].value
      BY <1>3, <3>1
    <3>3. j = k
      BY <2>1, <3>1, <3>2 DEF Mixes
    <3> QED BY <2>2, <3>1, <3>2, <3>3
  <2>5. ASSUME NEW n \in lo..(hi - 1) PROVE n \in Drawn
    <3>1. n \in Nat /\ lo <= n /\ n < hi
      BY <2>2
    <3>2. Pick(mix, n) = mix[k].value
      BY <3>1, PickedByInterval
    <3>3. total \in Nat /\ n \in 0..(total - 1)
      <4>1. total \in Nat
        BY <1>1
      <4> HIDE DEF total, lo, hi
      <4> QED BY <2>2, <2>3, <3>1, <4>1
    <3> QED BY <2>1, <3>2, <3>3
  <2>6. Drawn = lo..(hi - 1)
    <3> HIDE DEF Drawn, lo, hi
    <3> QED BY <2>2, <2>4, <2>5
  <2>7. Cardinality(lo..(hi - 1)) = weights[o]
    <3>1. lo \in Int /\ hi - 1 \in Int
      BY <2>2
    <3> HIDE DEF lo, hi
    <3>2. Cardinality(lo..(hi - 1)) = IF lo > hi - 1 THEN 0 ELSE (hi - 1) - lo + 1
      BY <3>1, FS_Interval
    <3> QED BY <1>5, <2>2, <3>2
  <2> QED BY <2>6, <2>7
<1>6. weights[o] \in Nat
  OBVIOUS
<1> QED BY <1>4, <1>5, <1>6

\* validateWeights
LEMMA DrawableWeights ==
  ASSUME NEW weights, ValidateWeights(weights) = {}
  PROVE  \E w \in DOMAIN weights : weights[w] > 0
  BY DEF ValidateWeights, Unless

\* validateDLR, validateScenarioParams: what an accepted scenario says of its mixes.
LEMMA FaultlessMixes ==
  ASSUME NEW sc, ValidateScenario(sc) = {}
  PROVE  /\ Has(sc, "dlr") => /\ Has(sc.dlr, "ticks") /\ sc.dlr.ticks >= 1
                              /\ \E w \in DOMAIN sc.dlr.outcome_weights : sc.dlr.outcome_weights[w] > 0
         /\ Has(sc.params, "error_mix") =>
              /\ DOMAIN sc.params.error_mix \subseteq ValidErrors
              /\ \E w \in DOMAIN sc.params.error_mix : sc.params.error_mix[w] > 0
<1>0. sc.profile \in KnownProfiles
  BY DEF ValidateScenario
<1>1. ASSUME Has(sc, "dlr")
      PROVE  /\ Has(sc.dlr, "ticks") /\ sc.dlr.ticks >= 1
             /\ \E w \in DOMAIN sc.dlr.outcome_weights : sc.dlr.outcome_weights[w] > 0
  <2>1. ValidateDLR(sc.dlr) \subseteq ValidateScenario(sc)
    BY <1>0, <1>1, Zenon DEF ValidateScenario
  <2>2. ValidateDLR(sc.dlr) = {}
    BY <2>1, Zenon
  <2>3. ValidateWeights(sc.dlr.outcome_weights) = {}
    BY <2>2, Zenon DEF ValidateDLR
  <2>4. (IF sc.dlr.distribution # "fixed" THEN {"ErrInvalidEnum"}
         ELSE IF ~Has(sc.dlr, "ticks") THEN {"ErrMissingParam"}
         ELSE Unless(sc.dlr.ticks >= 1, "ErrParamOutOfBounds")) = {}
    BY <2>2, Zenon DEF ValidateDLR
  <2>5. Has(sc.dlr, "ticks") /\ sc.dlr.ticks >= 1
    BY <2>4 DEF Unless
  <2> QED BY <2>3, <2>5, DrawableWeights
<1>2. ASSUME Has(sc.params, "error_mix")
      PROVE  /\ DOMAIN sc.params.error_mix \subseteq ValidErrors
             /\ \E w \in DOMAIN sc.params.error_mix : sc.params.error_mix[w] > 0
  <2> DEFINE spec == ProfileCatalogue[sc.profile]
             set == DOMAIN sc.params
             shown == [k \in set \cap spec.exposes |-> sc.params[k]]
  <2>1. ValidateScenarioParams(sc.params, spec) \subseteq ValidateScenario(sc)
    BY <1>0, Zenon DEF ValidateScenario
  <2>2. ValidateScenarioParams(sc.params, spec) = {}
    BY <2>1, Zenon
  <2> HIDE DEF spec
  <2>3. Exposed(set, spec.exposes) = {}
    BY <2>2, Zenon DEF ValidateScenarioParams
  <2>4. set \subseteq spec.exposes
    BY <2>3 DEF Exposed, Unless
  <2>5. Has(shown, "error_mix") /\ shown.error_mix = sc.params.error_mix
    BY <1>2, <2>4 DEF Has
  <2>6. (IF Has(shown, "error_mix")
         THEN Unless(DOMAIN shown.error_mix \subseteq ValidErrors, "ErrInvalidEnum") \cup ValidateWeights(shown.error_mix)
         ELSE {}) = {}
    BY <2>2, Zenon DEF ValidateScenarioParams
  <2> HIDE DEF shown
  <2>7. Unless(DOMAIN shown.error_mix \subseteq ValidErrors, "ErrInvalidEnum") = {} /\ ValidateWeights(shown.error_mix) = {}
    BY <2>5, <2>6, Zenon
  <2>8. DOMAIN shown.error_mix \subseteq ValidErrors
    BY <2>7 DEF Unless
  <2> QED BY <2>5, <2>7, <2>8, DrawableWeights
<1> QED BY <1>1, <1>2

\* The mix of a set of weights that validate accepts: not empty, and drawn by the weights.
LEMMA FlattenedFaithfully ==
  ASSUME NEW order, Len(order) \in Nat, NEW weights, \A w \in DOMAIN weights : weights[w] \in Nat,
         \A i, j \in 1..Len(order) : order[i] = order[j] => i = j,
         \A w \in DOMAIN weights : \E i \in 1..Len(order) : order[i] = w,
         \E w \in DOMAIN weights : weights[w] > 0,
         NEW mix, mix = Flatten(order, weights)
  PROVE  /\ mix # <<>>
         /\ \A o \in DOMAIN weights :
              Cardinality({n \in 0..(mix[Len(mix)].cum - 1) : Pick(mix, n) = o}) = weights[o]
<1> DEFINE seen == {order[i] : i \in 1..Len(order)}
<1>1. Mixes(mix, seen, weights)
  BY FlattenMixes
<1>2. DOMAIN weights \subseteq seen
  OBVIOUS
<1> HIDE DEF seen
<1>3. Len(mix) > 0
  <2>1. PICK w \in DOMAIN weights : weights[w] > 0
    OBVIOUS
  <2>2. PICK k \in 1..Len(mix) : mix[k].value = w
    BY <1>1, <1>2, <2>1 DEF Mixes
  <2>3. Len(mix) \in Nat
    BY <1>1 DEF Mixes
  <2> QED BY <2>2, <2>3
<1>4. mix # <<>>
  BY <1>3
<1> QED BY <1>1, <1>2, <1>3, <1>4, WeightsAreShares

\* The two orders: every outcome once.
LEMMA OrdersAreComplete ==
  /\ Len(ErrorCodes) \in Nat /\ Len(DLROutcomes) \in Nat
  /\ \A i, j \in 1..Len(ErrorCodes) : ErrorCodes[i] = ErrorCodes[j] => i = j
  /\ \A i, j \in 1..Len(DLROutcomes) : DLROutcomes[i] = DLROutcomes[j] => i = j
  /\ \A w \in ValidErrors : \E i \in 1..Len(ErrorCodes) : ErrorCodes[i] = w
  /\ ToSet(DLROutcomes) = {DLROutcomes[i] : i \in 1..Len(DLROutcomes)}
<1>1. Len(ErrorCodes) = 7 /\ Len(DLROutcomes) = 3 /\ DOMAIN DLROutcomes = 1..3
  BY DEF ErrorCodes, DLROutcomes
<1>2. \A i, j \in 1..7 : ErrorCodes[i] = ErrorCodes[j] => i = j
  BY DEF ErrorCodes
<1>3. \A i, j \in 1..3 : DLROutcomes[i] = DLROutcomes[j] => i = j
  BY DEF DLROutcomes
<1>4. ASSUME NEW w \in ValidErrors PROVE \E i \in 1..7 : ErrorCodes[i] = w
  BY DEF ValidErrors, ErrorCodes
<1>5. ToSet(DLROutcomes) = {DLROutcomes[i] : i \in 1..3}
  BY <1>1 DEF ToSet
<1> QED BY <1>1, <1>2, <1>3, <1>4, <1>5

\* pickErrorStatus, pickDLROutcome on an accepted configuration, for any weights: every draw resolves,
\* a receipt is due at least one tick later, and an outcome is drawn exactly as often as its weight says.
THEOREM OutcomesFollowWeights == Spec => []PicksFollowWeights
<1>1. ObservedInv => PicksFollowWeights
  <2> SUFFICES ASSUME ObservedInv, phase = "serving"
      PROVE  LET Faithful(mix, weights) ==
                   /\ mix # <<>>
                   /\ \A o \in DOMAIN weights :
                        Cardinality({n \in 0..(mix[Len(mix)].cum - 1) : Pick(mix, n) = o}) = weights[o]
                 e == Engines[Initial]
             IN  /\ e.dlrEnabled => e.dlrDelayTicks >= 1 /\ Faithful(e.dlrMix, vs.scenario.dlr.outcome_weights)
                 /\ Has(e.params, "error_mix") => Faithful(e.errorMix, e.params.error_mix)
    BY DEF PicksFollowWeights
  <2> DEFINE sc == vs.scenario
             e == Engines[Initial]
             Faithful(mix, weights) ==
               /\ mix # <<>>
               /\ \A o \in DOMAIN weights :
                    Cardinality({n \in 0..(mix[Len(mix)].cum - 1) : Pick(mix, n) = o}) = weights[o]
  <2>1. cfg \in Configs /\ Validate(cfg) = {}
    BY DEF ObservedInv
  <2>2. ValidateScenario(sc) = {}
    <3>1. 1 \in DOMAIN cfg.virtual_smscs
      BY <2>1, TransitionsAreEvents
    <3>2. UNION {ValidateVirtualSMSC(cfg.virtual_smscs[i]) : i \in DOMAIN cfg.virtual_smscs} = {}
      BY <2>1 DEF Validate
    <3>3. ValidateVirtualSMSC(vs) = {}
      BY <3>1, <3>2 DEF vs
    <3>4. ValidateScenario(sc) \subseteq ValidateVirtualSMSC(vs)
      BY Zenon DEF ValidateVirtualSMSC
    <3> QED BY <3>3, <3>4, Zenon
  <2>3. e = New(sc, Limit)
    BY DEF Engines, Initial
  <2>4. /\ e.params = IF Has(sc, "params") THEN sc.params ELSE <<>>
        /\ e.dlrEnabled = Has(sc, "dlr")
        /\ e.dlrMix = IF Has(sc, "dlr") THEN Flatten(DLROutcomes, sc.dlr.outcome_weights) ELSE <<>>
        /\ e.dlrDelayTicks = IF Has(sc, "dlr") /\ Has(sc.dlr, "ticks") THEN sc.dlr.ticks ELSE 0
        /\ e.errorMix = IF Has(e.params, "error_mix") THEN Flatten(ErrorCodes, e.params.error_mix) ELSE <<>>
    BY <2>3 DEF New
  <2> HIDE DEF e
  <2>5. ASSUME e.dlrEnabled PROVE e.dlrDelayTicks >= 1 /\ Faithful(e.dlrMix, sc.dlr.outcome_weights)
    <3> DEFINE weights == sc.dlr.outcome_weights
    <3>1. Has(sc, "dlr")
      BY <2>4, <2>5
    <3>2. Has(sc.dlr, "ticks") /\ sc.dlr.ticks >= 1 /\ \E w \in DOMAIN weights : weights[w] > 0
      BY <2>2, <3>1, FaultlessMixes
    <3>3. weights \in [ToSet(DLROutcomes) -> Nat]
      BY <2>1, <3>1, WeightsAreNumbers DEF vs
    <3>4. e.dlrMix = Flatten(DLROutcomes, weights) /\ e.dlrDelayTicks = sc.dlr.ticks
      BY <2>4, <3>1, <3>2
    <3> HIDE DEF weights
    <3>5. /\ \A w \in DOMAIN weights : weights[w] \in Nat
          /\ \A w \in DOMAIN weights : \E i \in 1..Len(DLROutcomes) : DLROutcomes[i] = w
      BY <3>3, OrdersAreComplete
    <3>6. Faithful(e.dlrMix, weights)
      BY <3>2, <3>4, <3>5, OrdersAreComplete, FlattenedFaithfully
    <3> QED BY <3>2, <3>4, <3>6 DEF weights
  <2>6. ASSUME Has(e.params, "error_mix") PROVE Faithful(e.errorMix, e.params.error_mix)
    <3> DEFINE weights == e.params.error_mix
    <3>1. Has(sc, "params") /\ e.params = sc.params
      <4>1. ~("error_mix" \in DOMAIN <<>>)
        OBVIOUS
      <4> QED BY <2>4, <2>6, <4>1 DEF Has
    <3>2. DOMAIN weights \subseteq ValidErrors /\ \E w \in DOMAIN weights : weights[w] > 0
      BY <2>2, <2>6, <3>1, FaultlessMixes
    <3>3. \A w \in DOMAIN weights : weights[w] \in Nat
      BY <2>1, <2>6, <3>1, WeightsAreNumbers DEF vs
    <3>4. e.errorMix = Flatten(ErrorCodes, weights)
      BY <2>4, <2>6
    <3> HIDE DEF weights
    <3>5. \A w \in DOMAIN weights : \E i \in 1..Len(ErrorCodes) : ErrorCodes[i] = w
      BY <3>2, OrdersAreComplete
    <3>6. Faithful(e.errorMix, weights)
      BY <3>2, <3>3, <3>4, <3>5, OrdersAreComplete, FlattenedFaithfully
    <3> QED BY <3>6 DEF weights
  <2> QED BY <2>5, <2>6 DEF e
<1> QED BY <1>1, ObservedInvInit, ObservedInvStep, PTL DEF Spec
=============================================================================
