---------------------------- MODULE ScheduleSpec ----------------------------
(***************************************************************************)
(* What the per-bind Schedule Runner promises its session, without saying  *)
(* how it is stored: a set of waiting events, each identified by the       *)
(* insertion number it was given, and the sequence of events released so   *)
(* far. Releasing takes exactly the events that are due (or, at a          *)
(* quiescence flush, all of them) and hands them over in (due, seq) order. *)
(***************************************************************************)
EXTENDS Naturals, Sequences

CONSTANT Ticks   \* the due ticks events are scheduled for

VARIABLES waiting,   \* the events scheduled and not yet released
          issued,    \* how many events were ever scheduled
          clock,     \* the tick of the last DrainDue
          released   \* every event handed back to the session, in order

vars == <<waiting, issued, clock, released>>

Before(e, f) == e.due < f.due \/ (e.due = f.due /\ e.seq < f.seq)

\* t lists the events of S in (due, seq) order, each exactly once.
Lists(t, S) ==
  /\ \A i \in 1..Len(t) : t[i] \in S
  /\ \A e \in S : \E i \in 1..Len(t) : t[i] = e
  /\ \A i, j \in 1..Len(t) : i < j => Before(t[i], t[j])

\* What a step appends to the released sequence.
Appended == SubSeq(released', Len(released) + 1, Len(released'))

Init == waiting = {} /\ issued = 0 /\ clock = 0 /\ released = <<>>

Schedule ==
  /\ \E due \in Ticks : waiting' = waiting \cup {[due |-> due, seq |-> issued]}
  /\ issued' = issued + 1
  /\ UNCHANGED <<clock, released>>

\* Hand over the events of S: append them, in order, to what was released.
Release(S) ==
  /\ waiting' = waiting \ S
  /\ released' = released \o Appended
  /\ Lists(Appended, S)

DrainDue ==
  /\ clock' = clock + 1
  /\ Release({e \in waiting : e.due <= clock'})
  /\ UNCHANGED issued

DrainAll == Release(waiting) /\ UNCHANGED <<issued, clock>>

Next == Schedule \/ DrainDue \/ DrainAll

Spec == Init /\ [][Next]_vars
=============================================================================
