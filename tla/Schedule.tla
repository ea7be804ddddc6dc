------------------------------ MODULE Schedule ------------------------------
(***************************************************************************)
(* The slice operations of internal/schedule/schedule.go: how an event     *)
(* finds its place and where the due events end. Used by the model of the  *)
(* Runner itself and by the session that owns one; and the stable sort of  *)
(* the configured transitions and disconnects (schedule_events.go).        *)
(***************************************************************************)
EXTENDS Naturals, Sequences, FiniteSets, SequencesExt

(***************************************************************************)
(* sort.Search(n, P), 0-based in Go and 1-based here: on any input the     *)
(* binary search stops where P is false just below and true just above.    *)
(* Only a monotone P makes that place unique, and only a sorted slice      *)
(* makes the searched predicates monotone.                                 *)
(***************************************************************************)
IsSearchResult(i, n, P(_)) ==
  /\ i \in 1..(n + 1)
  /\ i > 1 => ~P(i - 1)
  /\ i <= n => P(i)

\* The total order (DueTick, Seq) the slice is kept in.
SortsAfter(p, e) == p.due > e.due \/ (p.due = e.due /\ p.seq > e.seq)

(***************************************************************************)
(* The searches on a slice s: i is the position sort.Search returns.       *)
(* Definitions marked "faulty variant" are the plausible bugs the          *)
(* properties below must notice; the specification never uses them.        *)
(***************************************************************************)
\* Faulty variant: ties go before the events already waiting for the tick.
InsertBeforeTies(s, e, i) == IsSearchResult(i, Len(s), LAMBDA k : s[k].due >= e.due)
InsertPosition(s, e, i) == IsSearchResult(i, Len(s), LAMBDA k : SortsAfter(s[k], e))

\* Faulty variant: an event due exactly now is not released.
FirstDue(s, c, i) == IsSearchResult(i, Len(s), LAMBDA k : s[k].due >= c)
FirstLater(s, c, i) == IsSearchResult(i, Len(s), LAMBDA k : s[k].due > c)

\* The slice after Schedule(e): e goes where sort.Search puts it.
Inserted(s, e) == InsertAt(s, CHOOSE i \in 1..(Len(s) + 1) : InsertPosition(s, e, i), e)

\* How many events DrainDue(c) takes from the front of the slice.
DueCount(s, c) == (CHOOSE i \in 1..(Len(s) + 1) : FirstLater(s, c, i)) - 1
-----------------------------------------------------------------------------
\* Faulty variant: the configured order is taken for the tick order.
Unsorted(s) == s

\* sortedByTick: a stable sort of the configured entries. An entry's place counts the ones
\* that come before it: those of an earlier tick, and of its tick those configured earlier.
ComesBefore(s, i, j) == s[i].at < s[j].at \/ (s[i].at = s[j].at /\ i < j)
Place(s, i) == Cardinality({j \in DOMAIN s : ComesBefore(s, j, i)}) + 1
SortedByTick(s) == [k \in DOMAIN s |-> s[CHOOSE i \in DOMAIN s : Place(s, i) = k]]
=============================================================================
