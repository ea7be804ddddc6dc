--------------------------- MODULE RecorderWindow ---------------------------
(***************************************************************************)
(* What the recorder promises its readers: the most recent Cap records, in *)
(* arrival order, each carrying an index that is never reused.             *)
(***************************************************************************)
EXTENDS Naturals, Sequences

CONSTANTS Cap,       \* how many records are retained
          Payloads   \* what a record carries beside its index

VARIABLES window,    \* the retained records, oldest first
          next       \* the index the next record gets

vars == <<window, next>>

Init == window = <<>> /\ next = 0

\* The last Cap elements of s.
LastCap(s) == IF Len(s) <= Cap THEN s ELSE SubSeq(s, Len(s) - Cap + 1, Len(s))

Append1 ==
  /\ \E p \in Payloads : window' = LastCap(Append(window, [index |-> next, body |-> p]))
  /\ next' = next + 1

Spec == Init /\ [][Append1]_vars
=============================================================================
