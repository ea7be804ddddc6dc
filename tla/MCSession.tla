----------------------------- MODULE MCSession ------------------------------
(***************************************************************************)
(* Instances of Session for TLC: the configurations of the virtual SMSC    *)
(* and the scenarios the runs use.                                         *)
(***************************************************************************)
EXTENDS SessionProperties

Does(outcome, slow, dlr, when) == [outcome |-> outcome, slow |-> slow, dlr |-> dlr, when |-> when]

NoMOs == <<>>
NoTransitions == <<>>
NoDisconnects == <<>>

\* Slow successes with an immediate receipt, fast ones with a later one, and disconnects that
\* serve a latency.
SlowAndCut == [healthy |-> {Does("success", TRUE, 0, "before"), Does("success", FALSE, 1, "before"),
                            Does("disconnect", TRUE, NoDLR, "before")}]

\* A response that is held back, or a receipt that waits for silence.
SlowOrReceipt == [healthy |-> {Does("success", TRUE, NoDLR, "before"), Does("success", FALSE, 1, "before")}]

\* The outcomes a tick-anchored schedule meets; responses are held back, receipts are not.
ScheduleOutcomes ==
  [healthy |-> {Does("success", TRUE, 0, "before"), Does("error", FALSE, NoDLR, "before")},
   flaky |-> {Does("timeout", FALSE, NoDLR, "before"), Does("disconnect", FALSE, NoDLR, "after"),
              Does("success", TRUE, 1, "before")}]

\* Configured out of tick order, with a tie that the later entry wins.
TransitionsOutOfOrder == <<[at |-> 2, to |-> "flaky"], [at |-> 1, to |-> "healthy"],
                           [at |-> 1, to |-> "flaky"], [at |-> 3, to |-> "healthy"]>>
MOsOutOfOrder == <<2, 1>>
Cuts == <<[at |-> 3, when |-> "after", scope |-> "all"], [at |-> 1, when |-> "before", scope |-> "random"],
          [at |-> 2, when |-> "before", scope |-> "oldest"]>>
OneMO == <<1>>
OldestBefore == <<[at |-> 1, when |-> "before", scope |-> "oldest"]>>
=============================================================================
