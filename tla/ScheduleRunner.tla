--------------------------- MODULE ScheduleRunner ---------------------------
(***************************************************************************)
(* internal/schedule/schedule.go: one bind's pending events, a slice kept  *)
(* sorted by (DueTick, Seq). The payload is opaque to the Runner, so an    *)
(* event is its due tick and its insertion number. The session drives it:  *)
(* events are scheduled for a tick its clock has not drained yet (at bind  *)
(* time, for any tick), and each submit drains the next tick.              *)
(***************************************************************************)
EXTENDS Naturals, Sequences, SequencesExt, Schedule

CONSTANTS MaxTick,    \* bound: highest due tick a model schedules
          MaxEvents   \* bound: number of events a model schedules

ASSUME ScheduleBounds == MaxTick \in Nat /\ MaxEvents \in Nat

VARIABLES pending,    \* Runner.pending
          seq,        \* Runner.seq
          clock,      \* the tick of the last DrainDue (the session's per_bind_clock)
          released,   \* history: every event drained, in the order it was handed over
          flushed     \* history: Len(released) when DrainAll last ran

vars == <<pending, seq, clock, released, flushed>>

Event == [due : Nat, seq : Nat]

Init == pending = <<>> /\ seq = 0 /\ clock = 0 /\ released = <<>> /\ flushed = 0

\* Definitions marked "faulty variant" are the plausible bugs the properties below must
\* notice; the specification never uses them.
\* Faulty variant: the insertion counter restarts at every flush.
ScheduleReusingSeq(dueTick) ==
  LET e == [due |-> dueTick, seq |-> seq - flushed]
  IN  /\ \E i \in 1..(Len(pending) + 1) :
           InsertPosition(pending, e, i) /\ pending' = InsertAt(pending, i, e)
      /\ seq' = seq + 1
      /\ UNCHANGED <<clock, released, flushed>>

Schedule(dueTick) ==
  LET e == [due |-> dueTick, seq |-> seq]
  IN  /\ \E i \in 1..(Len(pending) + 1) :
           InsertPosition(pending, e, i) /\ pending' = InsertAt(pending, i, e)
      /\ seq' = seq + 1
      /\ UNCHANGED <<clock, released, flushed>>

\* Faulty variant: the event after the due prefix is cut off with it.
DrainDueOneTooMany ==
  /\ clock' = clock + 1
  /\ \E i \in 1..(Len(pending) + 1) :
       /\ FirstLater(pending, clock', i)
       /\ released' = released \o SubSeq(pending, 1, i - 1)
       /\ pending' = SubSeq(pending, i + 1, Len(pending))
  /\ UNCHANGED <<seq, flushed>>

DrainDue ==
  /\ clock' = clock + 1
  /\ \E i \in 1..(Len(pending) + 1) :
       /\ FirstLater(pending, clock', i)
       /\ released' = released \o SubSeq(pending, 1, i - 1)
       /\ pending' = SubSeq(pending, i, Len(pending))
  /\ UNCHANGED <<seq, flushed>>

DrainAll ==
  /\ released' = released \o pending
  /\ flushed' = Len(released')
  /\ pending' = <<>>
  /\ UNCHANGED <<seq, clock>>

\* The session schedules at bind time (before any drain) for any tick, and later only for
\* the tick it is about to drain or a later one (originTick + DelayTicks, dlr.go).
Next ==
  \/ \E dueTick \in 0..MaxTick :
       /\ seq < MaxEvents
       /\ clock = 0 \/ dueTick > clock
       /\ Schedule(dueTick)
  \/ clock < MaxTick /\ DrainDue
  \/ pending # <<>> /\ DrainAll

Spec == Init /\ [][Next]_vars
-----------------------------------------------------------------------------
\* Type invariant; the counter of Schedule is the number of events ever scheduled.
TypeOK ==
  /\ pending \in Seq(Event)
  /\ released \in Seq(Event)
  /\ seq = Len(pending) + Len(released)
  /\ clock \in Nat
  /\ flushed \in 0..Len(released)

\* The slice is strictly sorted by (DueTick, Seq): what makes both binary searches find
\* the unique right place, and the due events a prefix (schedule.go:56).
Sorted == \A i, j \in 1..Len(pending) : i < j => SortsAfter(pending[j], pending[i])

\* Every insertion number handed out belongs to exactly one event, still pending or
\* already released: no drain loses an event or hands it over twice.
NoEventLostOrDuplicated ==
  /\ \A k \in 0..(seq - 1) :
       \/ \E i \in 1..Len(pending) : pending[i].seq = k
       \/ \E i \in 1..Len(released) : released[i].seq = k
  /\ \A i \in 1..Len(pending) : pending[i].seq < seq
  /\ \A i \in 1..Len(released) : released[i].seq < seq
  /\ \A i, j \in 1..Len(pending) : pending[i].seq = pending[j].seq => i = j
  /\ \A i, j \in 1..Len(released) : released[i].seq = released[j].seq => i = j
  /\ \A i \in 1..Len(pending), j \in 1..Len(released) : pending[i].seq # released[j].seq

\* Nothing due is left behind: once the clock has passed a tick, no event of that tick
\* stays pending (other than the ones scheduled at bind time, before the first drain).
NothingDueLeft == clock > 0 => \A i \in 1..Len(pending) : pending[i].due > clock

\* An event leaves before its tick only through a quiescence flush: everything released
\* since the last flush had come due, and nothing had before the first drain.
OnlyFlushReleasesEarly ==
  /\ clock = 0 => flushed = Len(released)
  /\ \A i \in (flushed + 1)..Len(released) : released[i].due <= clock

\* DrainDue, DrainAll: an event is released neither late nor, but for a flush, early.
ReleasedOnTime == NothingDueLeft /\ OnlyFlushReleasesEarly

\* Since the last quiescence flush, events came out in (DueTick, Seq) order across drains,
\* not only within one: a later drain never releases an event that sorts before one an
\* earlier drain released.
ReleaseOrder ==
  \A i, j \in (flushed + 1)..Len(released) : i < j => SortsAfter(released[j], released[i])

Abstract == INSTANCE ScheduleSpec
              WITH waiting <- ToSet(pending), issued <- seq, Ticks <- 0..MaxTick

\* The sorted slice implements the set of waiting events of ScheduleSpec: every operation
\* releases exactly the right events, in the right order.
ImplementsScheduleSpec == Abstract!Spec
=============================================================================
