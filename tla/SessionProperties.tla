------------------------- MODULE SessionProperties --------------------------
(***************************************************************************)
(* What a session promises: the invariants, action and liveness properties *)
(* the runs check, and the statements of the repository's comments and     *)
(* docs that the code does not keep.                                       *)
(***************************************************************************)
EXTENDS Session

ReaderPCs == {"arm", "checkQuit", "read", "gotByte", "extended", "midFrame", "handle", "incBind",
              "storeBound", "latency", "commit", "record", "do", "select", "teardown", "joinCloser",
              "joinDeferred", "joinWriter", "deregister", "ended"}
CloseReasons == {"client_unbind", "client_eof", "read_error", "write_error", "write_timeout",
                 "idle_timeout", "partial_frame_timeout", "protocol_error", "auth_failed",
                 "bind_rejected", "fault_injection", "scheduled_disconnect", "shutdown", "panic"}
\* The read loop between two frames, nothing left of the previous one.
BetweenFrames == rpc \in {"arm", "checkQuit", "read"}

\* Type invariant. The close record names one of the reasons of close_reason.go, and
\* closeReason never holds one that only recordClose may choose.
TypeOK ==
  /\ \A x \in {quit, older, rejects, registered, canSubmit, canReceive, quiet, bound, outboundClosed, done,
               stopDeferred, failedFirst} : x \in BOOLEAN
  /\ rpc \in ReaderPCs
  /\ cmd \in Commands \cup {"none"}
  /\ decision = <<>> \/ decision \in Decision
  /\ state \in {"open", "bound", "closed"}
  /\ perBindClock \in 0..MaxTick /\ logicalClock \in 0..MaxTick /\ recorded \in 0..MaxTick
  /\ transitionCursor \in 0..Len(Transitions) /\ disconnectCursor \in 0..Len(Disconnects)
  /\ profile \in DOMAIN DecisionsOf
  /\ \A i \in DOMAIN pending : pending[i].kind \in {"mo", "dlr"} /\ pending[i].seq < seq
  /\ closeReason \in (CloseReasons \cup {"unset"}) \ {"panic", "write_error", "write_timeout"}
  /\ (closeReason # "unset") <=> (state = "closed")
  /\ IF rpc \in {"deregister", "ended"} THEN recordedReason \in CloseReasons ELSE recordedReason = "unset"
  /\ deadline \in {"none", "idle", "quiescence", "past"}
  /\ Len(outbound) <= OutboundCap
  /\ wpc \in {"receive", "write", "exited"}
  /\ writeErr \in WriteFaults \cup {"unset"}
  /\ cpc \in {"wait", "unbind", "select", "ended"}
  /\ deferred \in [Deferrable -> {"none", "wait", "select", "ended"}]
  /\ sent \subseteq 1..MaxTick
-----------------------------------------------------------------------------
\* run's teardown: once outbound is closed no goroutine can still send on it (Go panics on a
\* send to a closed channel, even one blocked since before the close).
NoSendAfterClose ==
  outboundClosed => /\ rpc \notin {"do", "select"}
                    /\ cpc = "ended"
                    /\ \A p \in Deferrable : deferred[p] \in {"none", "ended"}

Selecting == Cardinality({p \in Deferrable : deferred[p] = "select"})
             + (IF rpc = "select" THEN 1 ELSE 0) + (IF cpc = "select" THEN 1 ELSE 0)

\* sendBytes, writeLoop, drop: the queue-depth gauge is the queue plus the callers blocked on
\* it, and every PDU handed over is queued, being written, written, or counted as dropped.
\* A session that ended has taken all it added to the gauge back out.
OutboundAccounted ==
  /\ depth = Len(outbound) + Selecting
  /\ owed = depth + (IF wpc = "write" THEN 1 ELSE 0)
  /\ rpc = "ended" => depth = 0 /\ owed = 0

\* respond, emitDLR: no receipt reaches the client before the submit_sm_resp it is about.
DLRAfterResponse == \A t \in 1..MaxTick : PDU("dlr", t) \in wire => PDU("resp", t) \in wire

\* readLoop, frameReader: from the moment the closer has set its past deadline, a reader that
\* blocks has that deadline in force; no re-arm or extension may outlive it.
ShutdownDeadlineHolds ==
  (cpc # "wait" /\ rpc \in {"read", "midFrame"}) => deadline = "past"

\* frameReader: the quiescence wake-up is never in force inside a frame, so it cannot cut one
\* in two; only the idle window or a shutdown can.
QuiescenceNeverCutsFrame ==
  rpc = "midFrame" => deadline = "idle" \/ (deadline = "past" /\ quit)

\* handleBind, teardown: the active-binds gauge counts this bind at most once, never goes
\* negative, and returns to what it was; the registry forgets the bind with it.
BindsBalanced ==
  /\ activeBinds \in 0..1
  /\ bound => (activeBinds = 1 \/ rpc = "ended")
  /\ rpc = "ended" => activeBinds = 0 /\ ~registered

\* handleSubmit: logical_clock never counts a PDU that the recorder did not store, not even
\* when shutdown interrupts a served latency.
JournalMatchesClock ==
  /\ logicalClock = perBindClock
  /\ rpc # "record" => recorded = logicalClock

-----------------------------------------------------------------------------
\* The profile that governs a tick: the last transition at or before it, the later config
\* entry on a tie.
ProfileAt(tick) ==
  LET due == {i \in DOMAIN Transitions : Transitions[i].at <= tick}
      last == {i \in due : \A j \in due : \/ Transitions[j].at < Transitions[i].at
                                          \/ Transitions[j].at = Transitions[i].at /\ j <= i}
  IN  IF tick = 0 \/ due = {} THEN InitialProfile ELSE Transitions[CHOOSE i \in last : TRUE].to

\* applyDueTransitions: the submit at a tick is decided under that tick's profile, and nothing
\* but the clock (no silence, no flush) moves a bind to another one.
TransitionsFollowTheClock ==
  /\ \/ closeReason = "shutdown"      \* the submit at the next tick was abandoned
     \/ profile = ProfileAt(IF rpc \in {"latency", "commit"} THEN perBindClock + 1 ELSE perBindClock)
  /\ rpc \in {"latency", "commit"} => decision \in DecisionsOf[profile]

\* applyDueDisconnects: a bind is cut at the very tick of an entry that may target it, and no
\* bind reads on past an entry that surely did.
ScheduledCutAtItsTick ==
  LET Sure(d) == d.scope = "all" \/ (d.scope = "random" /\ d.at \in RandomHits)
      FirstTick(d) == IF d.at = 0 THEN 1 ELSE d.at
  IN  /\ closeReason = "scheduled_disconnect" =>
           \E i \in DOMAIN Disconnects : /\ FirstTick(Disconnects[i]) = perBindClock
                                         /\ Sure(Disconnects[i]) \/ Disconnects[i].scope = "oldest"
      /\ (BetweenFrames /\ perBindClock > 0) =>
           \A i \in DOMAIN Disconnects : Sure(Disconnects[i]) => Disconnects[i].at > perBindClock

\* handleSubmit: whatever the outcome, a committed submit releases what its tick made due, so
\* the loop never waits for the next frame with a due event in hand.
NothingDueKept ==
  (BetweenFrames /\ perBindClock > 0) => \A i \in DOMAIN pending : pending[i].due > perBindClock

(***************************************************************************)
(* The events of the bind's schedule (configured MOs, planned receipts)    *)
(* and the places one can be: waiting on the Runner, drained but not yet   *)
(* handed over, held by a goroutine, queued, being written, written. seq   *)
(* counts those that were ever scheduled.                                  *)
(***************************************************************************)
IsEvent(p) == p.kind \in {"mo", "dlr"}
Receipts == {p \in Deferrable : p.kind = "dlr"}
Drained == SelectSeq(todo, LAMBDA step : step.op \in {"mo", "receipt"})
HeldBack == {p \in Receipts : deferred[p] \in {"wait", "select"}}
Queued == SelectSeq(Append(outbound, writing), IsEvent)
Written == {p \in wire : IsEvent(p)}
InPlaces == Len(pending) + Len(Drained) + Cardinality(HeldBack) + Len(Queued) + Cardinality(Written)
\* Their goroutines were told to stop (teardown's close(stopDeferred)) before they were sent.
Stopped ==
  IF stopDeferred THEN {p \in Receipts : deferred[p] = "ended"} \ (Written \cup ToSet(Queued)) ELSE {}

\* Schedule, drainDue, flushSchedule, sendWhen, writeLoop: on its way from the Runner to the
\* client, through drains, flushes, goroutines and the bounded queue, no event is lost or doubled
\* while writes succeed. A session that ends lets go only of what still waited for its tick or
\* for a held response; one reaped as idle, only of the latter. A bind that cannot receive is
\* sent none.
EventsConserved ==
  /\ (canReceive /\ writeErr = "unset") => InPlaces + Cardinality(Stopped) = seq
  /\ (canReceive /\ writeErr = "unset" /\ rpc = "ended") =>
       InPlaces = Cardinality(Written) + (IF closeReason = "idle_timeout" THEN 0 ELSE Len(pending))
  /\ ~canReceive => Written = {}
-----------------------------------------------------------------------------
\* Shutdown: once quit is closed the session ends, whatever the client does or does not do,
\* and even if its writer is dead and the queue full.
ShutdownEnds == quit ~> rpc = "ended"

\* teardown: a session that has decided to close gets rid of all its goroutines.
CloseCompletes == closeReason # "unset" ~> rpc = "ended"

\* armReadDeadline, flushSchedule: a client that stops submitting but keeps the link alive
\* still gets its pending receipts and MOs.
PendingEventuallyReleased == pending # <<>> ~> (pending = <<>> \/ state = "closed")
-----------------------------------------------------------------------------
(***************************************************************************)
(* What the repository says and the code does not keep.                    *)
(***************************************************************************)
\* Spec 5.2.1: on shutdown an unbind is sent to every active bind. Here: when the reader of an
\* active bind leaves because of the shutdown, and the closer has done its part, the unbind is
\* on its way or written.
ShutdownUnbinds ==
  (rpc = "teardown" /\ closeReason = "shutdown" /\ bound /\ cpc = "ended" /\ writeErr = "unset")
    => PDU("unbind", 0) \in wire \cup ToSet(outbound) \cup {writing}

\* writeLoop: "the deadline turns it into a write error and teardown": a session whose writer
\* failed on a client that stopped reading is torn down.
WriteFailureEndsSession == writeErr # "unset" ~> rpc = "ended"

\* A scheduled disconnect with when: before_response cuts before the submit is answered.
BeforeResponseCutsFirst ==
  (closeReason = "scheduled_disconnect" /\ \A i \in DOMAIN Disconnects : Disconnects[i].when = "before")
    => PDU("resp", perBindClock) \notin wire
=============================================================================
