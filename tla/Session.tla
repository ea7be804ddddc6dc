------------------------------ MODULE Session -------------------------------
(***************************************************************************)
(* internal/smsc/session.go, dlr.go, schedule_events.go: one client        *)
(* connection of a virtual SMSC and its goroutines.                        *)
(*                                                                         *)
(*   reader    readLoop and the handlers, then run's deferred teardown;    *)
(*   writer    writeLoop, sole writer of the connection;                   *)
(*   closer    wakes the reader and queues an unbind when quit closes;     *)
(*   deferred  one goroutine per response held back for its latency, and   *)
(*             per receipt waiting on such a response (sendWhen).          *)
(*                                                                         *)
(* They share the bounded channel outbound, the connection's read deadline *)
(* and the channels quit, done, stopDeferred and writerClosed. Time is     *)
(* abstract: a deadline is named after what set it, `quiet` says whether   *)
(* the quiescence window since the last submit has elapsed, and an idle    *)
(* deadline or a latency timer may fire at any moment. Payloads are        *)
(* abstract: a PDU is its kind and, for a response or a receipt, the tick  *)
(* of its submit. Everything else of the virtual SMSC that the session     *)
(* changes is kept as the session's own contribution to it.                *)
(***************************************************************************)
EXTENDS Integers, Sequences, FiniteSets, SequencesExt, Schedule

CONSTANTS
  OutboundCap,     \* capacity of outbound (8 in the code)
  MaxTick,         \* bound: submits committed on the bind
  MOTicks,         \* mo_injection.events: the at_tick of each, in config order
  Transitions,     \* scheduled_transitions: [at, to], in config order
  Disconnects,     \* scheduled_disconnects: [at, when, scope], in config order
  RandomHits,      \* ticks at which this bind's scope: random coin says cut
  InitialProfile,  \* scenario.profile
  DecisionsOf,     \* what Evaluate may decide under each profile
  RejectModes,     \* whether the SMSC may be a dead-carrier in reject_bind mode
  Commands,        \* what the client may send
  ReadFaults,      \* how the client's side may end: eof, reset, bad_length
  WriteFaults,     \* how a write may fail: write_error, write_timeout
  MayPanic,        \* whether a handler may panic
  OlderBinds       \* whether the virtual SMSC may already have, or lack, an older bind

NoDLR == -1
Decision == [outcome : {"success", "error", "timeout", "disconnect"},
             slow : BOOLEAN,                  \* latency > 0
             dlr : {NoDLR} \cup Nat,          \* DLRPlan.DelayTicks
             when : {"before", "after"}]      \* DisconnectWhen

ASSUME SessionConfig ==
  /\ OutboundCap \in Nat \ {0}
  /\ MaxTick \in Nat
  /\ WriteFaults \subseteq {"write_error", "write_timeout"}
  /\ ReadFaults \subseteq {"eof", "reset", "bad_length"}
  /\ MayPanic \in BOOLEAN /\ RejectModes \subseteq BOOLEAN /\ OlderBinds \subseteq BOOLEAN

\* What the schema's types and validate grant: ticks are unsigned, and buildEngines has an engine
\* for the initial profile and for every transition target.
ASSUME ScheduleConfig ==
  /\ MOTicks \in Seq(Nat)
  /\ Transitions \in Seq([at : Nat, to : DOMAIN DecisionsOf])
  /\ Disconnects \in Seq([at : Nat, when : {"before", "after"}, scope : {"all", "oldest", "random"}])
  /\ InitialProfile \in DOMAIN DecisionsOf
  /\ \A q \in DOMAIN DecisionsOf : DecisionsOf[q] \subseteq Decision

VARIABLES
  \* shared with the engine and the other binds
  quit,            \* the engine closed quit
  older,           \* an older bind is still registered
  rejects,         \* scenario.RejectBind(), fixed by the configuration
  registered, activeBinds, logicalClock, recorded,
  \* owned by the reader
  rpc,             \* where the reader is
  cmd,             \* the PDU being handled
  decision,        \* the scenario's decision for the submit being handled
  todo,            \* what the handler still has to send, in order
  state, canSubmit, canReceive, perBindClock, profile,
  transitionCursor, disconnectCursor,
  pending, seq,    \* the bind's schedule.Runner
  quiet,           \* the quiescence window since lastSubmit has elapsed
  closeReason,
  \* the connection and the channels
  deadline,        \* the read deadline in force
  bound,           \* the atomic flag the closer reads
  outbound, outboundClosed, done, stopDeferred,
  \* the other goroutines
  wpc, writing, writeErr, cpc, deferred, sent,
  \* metrics, the close record, and history
  depth,           \* smsc_outbound_queue_depth
  owed,            \* PDUs given to sendBytes and not yet written or counted as dropped
  wire,            \* PDUs written to the client
  failedFirst,     \* teardown's sample: the writer had exited by itself
  recordedReason   \* the reason of the close record once it is emitted

engineVars == <<quit, older, rejects>>
smscVars == <<registered, activeBinds, logicalClock, recorded>>
bindVars == <<canSubmit, canReceive, profile, transitionCursor, disconnectCursor>>
scheduleVars == <<pending, seq>>
closeVars == <<state, closeReason>>
queueVars == <<outbound, depth, owed>>
writerVars == <<wpc, writing, writeErr, wire>>
deferredVars == <<deferred, sent>>
teardownVars == <<outboundClosed, done, stopDeferred, failedFirst, recordedReason>>
vars == <<engineVars, smscVars, rpc, cmd, decision, todo, bindVars, perBindClock, scheduleVars,
          quiet, closeVars, deadline, bound, queueVars, writerVars, cpc, deferredVars, teardownVars>>

PDU(kind, tick) == [kind |-> kind, tick |-> tick]
\* The PDUs a goroutine may hold back: responses and receipts, one of each per tick.
Deferrable == {PDU(k, t) : k \in {"resp", "dlr"}, t \in 1..MaxTick}

\* What a handler still has to do, in program order, once it has decided.
Send(p) == [op |-> "send", arg |-> p]
Hold(p) == [op |-> "hold", arg |-> p]
Receipt(t) == [op |-> "receipt", arg |-> PDU("dlr", t)]
MO(i) == [op |-> "mo", arg |-> PDU("mo", i)]
Close(reason) == [op |-> "close", arg |-> reason]
Cut == [op |-> "cut", arg |-> "scheduled_disconnect"]

\* "unset" is the empty string of a reason or an error that was never assigned.
Init ==
  /\ quit = FALSE /\ older \in OlderBinds /\ rejects \in RejectModes
  /\ registered = FALSE /\ activeBinds = 0 /\ logicalClock = 0 /\ recorded = 0
  /\ rpc = "arm" /\ cmd = "none" /\ decision = <<>> /\ todo = <<>>
  /\ state = "open" /\ canSubmit = FALSE /\ canReceive = FALSE /\ perBindClock = 0
  /\ profile = InitialProfile /\ transitionCursor = 0 /\ disconnectCursor = 0
  /\ pending = <<>> /\ seq = 0 /\ quiet = FALSE /\ closeReason = "unset"
  /\ deadline = "none" /\ bound = FALSE
  /\ outbound = <<>> /\ outboundClosed = FALSE /\ done = FALSE /\ stopDeferred = FALSE
  /\ wpc = "receive" /\ writing = PDU("none", 0) /\ writeErr = "unset"
  /\ cpc = "wait" /\ deferred = [p \in Deferrable |-> "none"] /\ sent = {}
  /\ depth = 0 /\ owed = 0 /\ wire = {}
  /\ failedFirst = FALSE /\ recordedReason = "unset"
-----------------------------------------------------------------------------
(***************************************************************************)
(* sendBytes, in two steps: the gauge goes up, then the select either      *)
(* queues the PDU or, once the writer is gone, drops and counts it. With a *)
(* full channel and a live writer neither branch is ready: the caller      *)
(* blocks.                                                                 *)
(***************************************************************************)
BeginSend == depth' = depth + 1 /\ owed' = owed + 1 /\ UNCHANGED outbound

Queue(p) ==
  /\ Len(outbound) < OutboundCap
  /\ outbound' = Append(outbound, p)
  /\ UNCHANGED <<depth, owed>>

\* Faulty variant: no way out of a full channel when the writer is gone.
NoDropSend == FALSE /\ UNCHANGED <<outbound, depth, owed>>

DropSend ==
  /\ wpc = "exited"
  /\ depth' = depth - 1
  /\ owed' = owed - 1
  /\ UNCHANGED outbound

EndSend(p) == Queue(p) \/ DropSend

\* closeWith
CloseWith(reason) == state' = "closed" /\ closeReason' = reason

-----------------------------------------------------------------------------
(***************************************************************************)
(* readLoop: arm the deadline, look at quit, read one frame, handle it.    *)
(***************************************************************************)
\* What a step of the read loop itself leaves alone.
LoopUnchanged == UNCHANGED <<engineVars, smscVars, bindVars, perBindClock, decision, bound, queueVars,
                             writerVars, cpc, deferredVars, teardownVars>>

\* Faulty variant: a keepalive postpones the quiescence flush.
ArmIdleOnly ==
  /\ rpc = "arm"
  /\ deadline' = "idle"
  /\ rpc' = "checkQuit"
  /\ LoopUnchanged /\ UNCHANGED <<cmd, todo, scheduleVars, quiet, closeVars>>

\* armReadDeadline: the idle window, or the quiescence deadline when events are pending and
\* it is the sooner of the two (as it surely is once the window has elapsed).
ArmReadDeadline ==
  /\ rpc = "arm"
  /\ deadline' \in IF pending = <<>> THEN {"idle"} ELSE IF quiet THEN {"quiescence"}
                   ELSE {"idle", "quiescence"}
  /\ rpc' = "checkQuit"
  /\ LoopUnchanged /\ UNCHANGED <<cmd, todo, scheduleVars, quiet, closeVars>>

\* The quit check between arming and blocking.
CheckQuit ==
  /\ rpc = "checkQuit"
  /\ IF quit THEN CloseWith("shutdown") /\ rpc' = "teardown"
             ELSE UNCHANGED closeVars /\ rpc' = "read"
  /\ LoopUnchanged /\ UNCHANGED <<cmd, todo, scheduleVars, quiet, deadline>>

\* A deadline that has passed fails the read, data or not.
Passed == deadline = "past" \/ (deadline = "quiescence" /\ quiet)
MayExpire == Passed \/ deadline = "idle"

\* dispatch, for each event of a drain in turn.
Dispatch(e) == IF e.kind = "dlr" THEN Receipt(e.tick) ELSE MO(e.tick)
Emit(events) == [i \in 1..Len(events) |-> Dispatch(events[i])]

\* Faulty variant: the flush sends the pending events and leaves them on the Runner.
ReadTimeoutPeeking ==
  /\ rpc = "read" /\ MayExpire
  /\ \/ quit /\ CloseWith("shutdown") /\ rpc' = "teardown" /\ UNCHANGED todo
     \/ ~quit /\ pending # <<>> /\ quiet /\ todo' = Emit(pending) /\ rpc' = "do" /\ UNCHANGED closeVars
     \/ ~quit /\ pending # <<>> /\ ~quiet /\ rpc' = "arm" /\ UNCHANGED <<todo, closeVars>>
     \/ ~quit /\ pending = <<>> /\ CloseWith("idle_timeout") /\ rpc' = "teardown" /\ UNCHANGED todo
  /\ LoopUnchanged /\ UNCHANGED <<cmd, deadline, quiet, scheduleVars>>

\* A read that timed out between frames: shutdown, a quiescence wake-up, or an idle reap.
ReadTimeout ==
  /\ rpc = "read" /\ MayExpire
  /\ \/ /\ quit
        /\ CloseWith("shutdown") /\ rpc' = "teardown"
        /\ UNCHANGED <<todo, scheduleVars>>
     \/ /\ ~quit /\ pending # <<>> /\ quiet      \* flushSchedule: DrainAll
        /\ todo' = Emit(pending) /\ pending' = <<>> /\ rpc' = "do"
        /\ UNCHANGED <<seq, closeVars>>
     \/ /\ ~quit /\ pending # <<>> /\ ~quiet
        /\ rpc' = "arm"
        /\ UNCHANGED <<todo, scheduleVars, closeVars>>
     \/ /\ ~quit /\ pending = <<>>
        /\ CloseWith("idle_timeout") /\ rpc' = "teardown"
        /\ UNCHANGED <<todo, scheduleVars>>
  /\ LoopUnchanged /\ UNCHANGED <<cmd, deadline, quiet>>

\* frameReader.Read: the first byte of a frame arrives, ...
FirstByte ==
  /\ rpc = "read" /\ ~Passed
  /\ rpc' = "gotByte"
  /\ LoopUnchanged /\ UNCHANGED <<cmd, todo, scheduleVars, quiet, closeVars, deadline>>

\* Faulty variant: the quiescence wake-up stays armed while the frame arrives.
ExtendNothing ==
  /\ rpc = "gotByte"
  /\ rpc' = "extended"
  /\ LoopUnchanged /\ UNCHANGED <<cmd, todo, scheduleVars, quiet, closeVars, deadline>>

\* ... the rest of the frame gets the idle window, ...
ExtendDeadline ==
  /\ rpc = "gotByte"
  /\ deadline' = "idle" /\ rpc' = "extended"
  /\ LoopUnchanged /\ UNCHANGED <<cmd, todo, scheduleVars, quiet, closeVars>>

\* Faulty variant: quit is not looked at again after the extension.
RecheckNothing ==
  /\ rpc = "extended"
  /\ rpc' = "midFrame"
  /\ LoopUnchanged /\ UNCHANGED <<cmd, todo, scheduleVars, quiet, closeVars, deadline>>

\* ... unless the engine is stopping.
RecheckQuit ==
  /\ rpc = "extended"
  /\ deadline' = IF quit THEN "past" ELSE deadline
  /\ rpc' = "midFrame"
  /\ LoopUnchanged /\ UNCHANGED <<cmd, todo, scheduleVars, quiet, closeVars>>

\* The bound on submits is a bound on what the client sends.
FrameComplete ==
  /\ rpc = "midFrame" /\ ~Passed
  /\ cmd' \in Commands /\ (cmd' = "submit_sm" => perBindClock < MaxTick)
  /\ rpc' = "handle"
  /\ LoopUnchanged /\ UNCHANGED <<todo, scheduleVars, quiet, closeVars, deadline>>

\* readFailure: quit first, then what ended the read.
ReadFailure(reason) == CloseWith(IF quit THEN "shutdown" ELSE reason)

FrameTimeout ==
  /\ rpc = "midFrame" /\ MayExpire
  /\ ReadFailure("partial_frame_timeout") /\ rpc' = "teardown"
  /\ LoopUnchanged /\ UNCHANGED <<cmd, todo, scheduleVars, quiet, deadline>>

\* The client hangs up or resets, or its command_length makes no sense; the last is
\* answered with a generic_nack before teardown.
ReadFault(f) ==
  /\ \/ rpc = "read" /\ f \in {"eof", "reset"} /\ ~Passed
        /\ ReadFailure(IF f = "eof" THEN "client_eof" ELSE "read_error")
     \/ rpc = "midFrame" /\ f \in {"eof", "reset"}      \* a truncated frame hides the EOF
        /\ ReadFailure("read_error")
     \/ rpc = "midFrame" /\ f = "bad_length" /\ ~Passed
        /\ ReadFailure("protocol_error")
  /\ todo' = IF closeReason' = "protocol_error" THEN <<Send(PDU("nack", 0))>> ELSE <<>>
  /\ rpc' = "do"
  /\ LoopUnchanged /\ UNCHANGED <<cmd, scheduleVars, quiet, deadline>>

-----------------------------------------------------------------------------
(***************************************************************************)
(* handle: the PDUs other than a successful bind and an accepted submit    *)
(* are answered (or not) and at most close the session.                    *)
(***************************************************************************)
HandlerUnchanged == UNCHANGED <<engineVars, cmd, deadline, queueVars, writerVars, cpc, deferredVars,
                                teardownVars>>

Then(steps) == todo' = steps /\ rpc' = "do"
Reply(p) == Then(<<Send(p)>>)

BindCommands == {"bind_transmitter", "bind_receiver", "bind_transceiver", "bind_bad_password"}

\* unbind is answered, then ends the session; the answers that change nothing; and the PDUs
\* that get none: deliver_sm_resp, or a malformed response (rejectMalformed).
HandleOther ==
  /\ rpc = "handle"
  /\ \/ cmd = "unbind" /\ Then(<<Send(PDU("unbind_resp", 0)), Close("client_unbind")>>)
     \/ cmd \in {"enquire_link", "unknown", "malformed_request"} /\ Reply(PDU("answer", 0))
     \/ cmd \in {"deliver_sm_resp", "malformed_response"} /\ Then(<<>>)
  /\ HandlerUnchanged
  /\ UNCHANGED <<smscVars, bindVars, perBindClock, scheduleVars, quiet, decision, bound, closeVars>>

\* handleBind, refused: already bound, a reject_bind profile, or wrong credentials.
RefuseBind ==
  /\ rpc = "handle" /\ cmd \in BindCommands
  /\ \/ state # "open" /\ Reply(PDU("bind_fail", 0))
     \/ /\ state = "open" /\ rejects
        /\ Then(<<Send(PDU("bind_fail", 0)), Close("bind_rejected")>>)
     \/ /\ state = "open" /\ ~rejects /\ cmd = "bind_bad_password"
        /\ Then(<<Send(PDU("bind_fail", 0)), Close("auth_failed")>>)
  /\ HandlerUnchanged
  /\ UNCHANGED <<smscVars, bindVars, perBindClock, scheduleVars, quiet, decision, bound, closeVars>>

\* Faulty variant: bound is set before IncBind.
AcceptBindBoundFirst ==
  /\ rpc = "handle" /\ cmd \in BindCommands \ {"bind_bad_password"}
  /\ state = "open" /\ ~rejects
  /\ state' = "bound" /\ bound' = TRUE /\ registered' = TRUE
  /\ canSubmit' = (cmd # "bind_receiver") /\ canReceive' = (cmd # "bind_transmitter")
  /\ rpc' = "incBind"
  /\ HandlerUnchanged
  /\ UNCHANGED <<activeBinds, logicalClock, recorded, profile, transitionCursor, disconnectCursor,
                 perBindClock, scheduleVars, quiet, decision, todo, closeReason>>

\* handleBind, accepted, up to binds.add ...
AcceptBind ==
  /\ rpc = "handle" /\ cmd \in BindCommands \ {"bind_bad_password"}
  /\ state = "open" /\ ~rejects
  /\ state' = "bound"
  /\ canSubmit' = (cmd # "bind_receiver")
  /\ canReceive' = (cmd # "bind_transmitter")
  /\ profile' = InitialProfile
  /\ registered' = TRUE
  /\ rpc' = "incBind"
  /\ HandlerUnchanged
  /\ UNCHANGED <<activeBinds, logicalClock, recorded, transitionCursor, disconnectCursor,
                 perBindClock, scheduleVars, quiet, decision, bound, todo, closeReason>>

\* ... then IncBind, ...
IncBind ==
  /\ rpc = "incBind"
  /\ activeBinds' = activeBinds + 1
  /\ rpc' = "storeBound"
  /\ HandlerUnchanged
  /\ UNCHANGED <<registered, logicalClock, recorded, bindVars, perBindClock, scheduleVars, quiet,
                 decision, bound, todo, closeVars>>

\* scheduleConfiguredEvents puts every configured MO on the Runner, in config order. It
\* leaves transitions and disconnects to their cursors.
MOEvent(i) == [due |-> MOTicks[i], seq |-> seq + i - 1, kind |-> "mo", tick |-> i]
ScheduledMOs ==
  LET after[i \in 0..Len(MOTicks)] == IF i = 0 THEN pending ELSE Inserted(after[i - 1], MOEvent(i))
  IN  after[Len(MOTicks)]

\* ... then bound, the quiescence anchor, the configured schedule, and the answer.
StoreBound ==
  /\ rpc = "storeBound"
  /\ bound' = TRUE
  /\ quiet' = FALSE
  /\ pending' = ScheduledMOs
  /\ seq' = seq + Len(MOTicks)
  /\ Reply(PDU("bind_ok", 0))
  /\ HandlerUnchanged
  /\ UNCHANGED <<smscVars, bindVars, perBindClock, decision, closeVars>>
-----------------------------------------------------------------------------
(***************************************************************************)
(* handleSubmit                                                            *)
(***************************************************************************)
RefuseSubmit ==
  /\ rpc = "handle" /\ cmd = "submit_sm"
  /\ state # "bound" \/ ~canSubmit
  /\ Reply(PDU("submit_fail", 0))
  /\ HandlerUnchanged
  /\ UNCHANGED <<smscVars, bindVars, perBindClock, scheduleVars, quiet, decision, bound, closeVars>>

\* Faulty variant: an entry is applied one tick late.
AdvanceLate(cursor, list, tick) ==
  cursor + Cardinality({i \in (cursor + 1)..Len(list) : \A j \in (cursor + 1)..i : list[j].at < tick})

\* A cursor after it moved past every entry of list due at tick.
Advance(cursor, list, tick) ==
  cursor + Cardinality({i \in (cursor + 1)..Len(list) : \A j \in (cursor + 1)..i : list[j].at <= tick})

\* applyDueTransitions, then Evaluate under the profile the tick belongs to. The latency of
\* a disconnect is served here and now; any other decision is committed at once.
Evaluate ==
  LET tick == perBindClock + 1
      list == SortedByTick(Transitions)
      cursor == Advance(transitionCursor, list, tick)
  IN  /\ rpc = "handle" /\ cmd = "submit_sm"
      /\ state = "bound" /\ canSubmit
      /\ transitionCursor' = cursor
      /\ profile' = IF cursor > transitionCursor THEN list[cursor].to ELSE profile
      /\ decision' \in DecisionsOf[profile']
      /\ rpc' = IF decision'.outcome = "disconnect" /\ decision'.slow THEN "latency" ELSE "commit"
      /\ HandlerUnchanged
      /\ UNCHANGED <<smscVars, canSubmit, canReceive, disconnectCursor, perBindClock, scheduleVars,
                     quiet, bound, todo, closeVars>>

\* Faulty variant: the abandoned submit has already moved the clock.
ServeLatencyCounting ==
  /\ rpc = "latency"
  /\ \/ quit /\ CloseWith("shutdown") /\ rpc' = "teardown" /\ logicalClock' = logicalClock + 1
     \/ UNCHANGED <<closeVars, logicalClock>> /\ rpc' = "commit"
  /\ HandlerUnchanged
  /\ UNCHANGED <<registered, activeBinds, recorded, bindVars, perBindClock, scheduleVars, quiet,
                 decision, bound, todo>>

\* serveLatency: shutdown abandons the submit before either clock advances.
ServeLatency ==
  /\ rpc = "latency"
  /\ \/ quit /\ CloseWith("shutdown") /\ rpc' = "teardown"
     \/ UNCHANGED closeVars /\ rpc' = "commit"
  /\ HandlerUnchanged
  /\ UNCHANGED <<smscVars, bindVars, perBindClock, scheduleVars, quiet, decision, bound, todo>>

\* Both clocks advance, and the quiescence window starts over.
Commit ==
  /\ rpc = "commit"
  /\ perBindClock' = perBindClock + 1
  /\ logicalClock' = logicalClock + 1
  /\ quiet' = FALSE
  /\ rpc' = "record"
  /\ HandlerUnchanged
  /\ UNCHANGED <<registered, activeBinds, recorded, bindVars, scheduleVars, decision, bound, todo,
                 closeVars>>

\* A panic unwinds a handler into the deferred teardown, no close reason set.
Panic ==
  /\ MayPanic
  /\ rpc \in {"handle", "incBind"}
  /\ rpc' = "teardown"
  /\ HandlerUnchanged
  /\ UNCHANGED <<smscVars, bindVars, perBindClock, scheduleVars, quiet, decision, bound, todo, closeVars>>

\* isDisconnectTarget
IsTarget(d) ==
  \/ d.scope = "all"
  \/ d.scope = "oldest" /\ ~older /\ registered
  \/ d.scope = "random" /\ d.at \in RandomHits

DueDisconnects ==
  LET list == SortedByTick(Disconnects)
  IN  {list[i] : i \in (disconnectCursor + 1)..Advance(disconnectCursor, list, perBindClock)}

DueDisconnectBeforeResponse == \E d \in DueDisconnects : d.when = "before" /\ IsTarget(d)

\* respond: a response without latency is sent inline, another is held back.
Respond == LET resp == PDU("resp", perBindClock) IN IF decision.slow THEN <<Hold(resp)>> ELSE <<Send(resp)>>

\* scheduleDLR: the pending events with this submit's receipt, if it has one and the bind can
\* receive it.
HasReceipt == decision.outcome = "success" /\ decision.dlr # NoDLR /\ canReceive
ScheduleDLR ==
  IF HasReceipt
  THEN Inserted(pending, [due |-> perBindClock + decision.dlr, seq |-> seq, kind |-> "dlr",
                          tick |-> perBindClock])
  ELSE pending

\* Faulty variant: a submit that is not answered returns before the drain.
AnswerSkippingDrain ==
  /\ rpc = "record" /\ recorded' = recorded + 1
  /\ LET events == ScheduleDLR
         n == IF decision.outcome = "timeout" THEN 0 ELSE DueCount(events, perBindClock)
     IN  /\ Then((IF decision.outcome = "timeout" THEN <<>> ELSE Respond)
                 \o Emit(SubSeq(events, 1, n)) \o <<Cut>>)
         /\ pending' = SubSeq(events, n + 1, Len(events))
  /\ seq' = IF HasReceipt THEN seq + 1 ELSE seq
  /\ HandlerUnchanged
  /\ UNCHANGED <<registered, activeBinds, logicalClock, bindVars, perBindClock, quiet, decision, bound,
                 closeVars>>

\* recorder.Append, then the outcome: cut without an answer, or answer, drain what is due
\* (voie a) and apply the due disconnects.
Answer ==
  /\ rpc = "record"
  /\ recorded' = recorded + 1
  /\ \/ /\ DueDisconnectBeforeResponse
        /\ Then(<<Close("scheduled_disconnect")>>)
        /\ UNCHANGED scheduleVars
     \/ /\ ~DueDisconnectBeforeResponse
        /\ decision.outcome = "disconnect"
        /\ Then((IF decision.when = "after" THEN <<Send(PDU("resp", perBindClock))>> ELSE <<>>)
                \o <<Close("fault_injection")>>)
        /\ UNCHANGED scheduleVars
     \/ /\ ~DueDisconnectBeforeResponse
        /\ decision.outcome \in {"success", "error", "timeout"}
        /\ LET events == ScheduleDLR
               n == DueCount(events, perBindClock)
           IN  /\ Then((IF decision.outcome = "timeout" THEN <<>> ELSE Respond)
                       \o Emit(SubSeq(events, 1, n)) \o <<Cut>>)
               /\ pending' = SubSeq(events, n + 1, Len(events))
        /\ seq' = IF HasReceipt THEN seq + 1 ELSE seq
  /\ HandlerUnchanged
  /\ UNCHANGED <<registered, activeBinds, logicalClock, bindVars, perBindClock, quiet, decision, bound,
                 closeVars>>

-----------------------------------------------------------------------------
(***************************************************************************)
(* The sends of a handler, one after the other. Each may block.            *)
(***************************************************************************)
ReturnUnchanged == UNCHANGED <<engineVars, smscVars, canSubmit, canReceive, profile, transitionCursor,
                               perBindClock, scheduleVars, quiet, deadline, bound, writerVars, cpc,
                               teardownVars>>
DoUnchanged == ReturnUnchanged /\ UNCHANGED <<cmd, decision>>

\* The handler returned: readLoop leaves if it closed the session.
HandlerReturns ==
  /\ rpc = "do" /\ todo = <<>>
  /\ rpc' = IF state = "closed" THEN "teardown" ELSE "arm"
  /\ cmd' = "none" /\ decision' = <<>>
  /\ ReturnUnchanged /\ UNCHANGED <<todo, closeVars, disconnectCursor, queueVars, deferredVars>>

\* emitDLR: the origin response is still held back by its goroutine.
ResponseHeld(t) == deferred[PDU("resp", t)] # "none" /\ t \notin sent

\* send, emitMO on a bind that can receive, or a receipt whose response is already queued.
ReaderBeginSend ==
  /\ rpc = "do" /\ todo # <<>>
  /\ \/ Head(todo).op = "send"
     \/ Head(todo).op = "mo" /\ canReceive
     \/ Head(todo).op = "receipt" /\ ~ResponseHeld(Head(todo).arg.tick)
  /\ BeginSend
  /\ rpc' = "select"
  /\ DoUnchanged /\ UNCHANGED <<todo, closeVars, disconnectCursor, deferredVars>>

ReaderEndSend ==
  /\ rpc = "select"
  /\ EndSend(Head(todo).arg)
  /\ todo' = Tail(todo) /\ rpc' = "do"
  /\ DoUnchanged /\ UNCHANGED <<closeVars, disconnectCursor, deferredVars>>

\* emitMO on a transmitter: the MO is dropped.
DropMO ==
  /\ rpc = "do" /\ todo # <<>> /\ Head(todo).op = "mo" /\ ~canReceive
  /\ todo' = Tail(todo)
  /\ DoUnchanged /\ UNCHANGED <<rpc, closeVars, disconnectCursor, queueVars, deferredVars>>

\* closeWith at its place in the handler.
ReaderCloses ==
  /\ rpc = "do" /\ todo # <<>> /\ Head(todo).op = "close"
  /\ CloseWith(Head(todo).arg)
  /\ todo' = Tail(todo)
  /\ DoUnchanged /\ UNCHANGED <<rpc, disconnectCursor, queueVars, deferredVars>>

\* sendWhen: a goroutine holds the response back for its latency, or the receipt until its
\* response is queued.
Spawn ==
  /\ rpc = "do" /\ todo # <<>>
  /\ \/ Head(todo).op = "hold"
     \/ Head(todo).op = "receipt" /\ ResponseHeld(Head(todo).arg.tick)
  /\ deferred' = [deferred EXCEPT ![Head(todo).arg] = "wait"]
  /\ todo' = Tail(todo)
  /\ DoUnchanged /\ UNCHANGED <<rpc, sent, closeVars, disconnectCursor, queueVars>>

\* applyDueDisconnects: consume every due entry, cut if one targets this bind.
ApplyDueDisconnects ==
  /\ rpc = "do" /\ todo # <<>> /\ Head(todo).op = "cut"
  /\ IF \E d \in DueDisconnects : IsTarget(d) THEN CloseWith("scheduled_disconnect")
                                              ELSE UNCHANGED closeVars
  /\ disconnectCursor' = Advance(disconnectCursor, SortedByTick(Disconnects), perBindClock)
  /\ todo' = Tail(todo)
  /\ DoUnchanged /\ UNCHANGED <<rpc, queueVars, deferredVars>>
-----------------------------------------------------------------------------
(***************************************************************************)
(* writeLoop, the closer, the deferred goroutines.                         *)
(***************************************************************************)
ReaderUnchanged == UNCHANGED <<engineVars, smscVars, rpc, cmd, decision, todo, bindVars, perBindClock,
                               scheduleVars, quiet, closeVars, bound, teardownVars>>

WriterReceive ==
  /\ wpc = "receive" /\ outbound # <<>>
  /\ writing' = Head(outbound) /\ outbound' = Tail(outbound)
  /\ depth' = depth - 1
  /\ wpc' = "write"
  /\ ReaderUnchanged /\ UNCHANGED <<owed, deadline, writeErr, wire, cpc, deferredVars>>

WriterWrites ==
  /\ wpc = "write"
  /\ wire' = wire \cup {writing}
  /\ owed' = owed - 1
  /\ wpc' = "receive" /\ writing' = PDU("none", 0)
  /\ ReaderUnchanged
  /\ UNCHANGED <<outbound, depth, deadline, writeErr, cpc, deferredVars>>

\* Faulty variant: the PDU whose write failed is not counted as dropped.
WriterFailsUncounted(reason) ==
  /\ wpc = "write"
  /\ writeErr' = reason /\ wpc' = "exited"
  /\ ReaderUnchanged /\ UNCHANGED <<outbound, depth, owed, deadline, writing, wire, cpc, deferredVars>>

WriterFails(reason) ==
  /\ wpc = "write"
  /\ writeErr' = reason /\ wpc' = "exited"
  /\ owed' = owed - 1
  /\ ReaderUnchanged /\ UNCHANGED <<outbound, depth, deadline, writing, wire, cpc, deferredVars>>

\* The channel is closed and drained.
WriterEnds ==
  /\ wpc = "receive" /\ outbound = <<>> /\ outboundClosed
  /\ wpc' = "exited"
  /\ ReaderUnchanged
  /\ UNCHANGED <<queueVars, deadline, writing, writeErr, wire, cpc, deferredVars>>

CloserWakesReader ==
  /\ cpc = "wait" /\ quit
  /\ deadline' = "past" /\ cpc' = "unbind"
  /\ ReaderUnchanged /\ UNCHANGED <<queueVars, writerVars, deferredVars>>

CloserBeginSend ==
  /\ cpc = "unbind"
  /\ IF bound THEN BeginSend /\ cpc' = "select" ELSE UNCHANGED queueVars /\ cpc' = "ended"
  /\ ReaderUnchanged /\ UNCHANGED <<deadline, writerVars, deferredVars>>

CloserEndSend ==
  /\ cpc = "select"
  /\ EndSend(PDU("unbind", 0))
  /\ cpc' = "ended"
  /\ ReaderUnchanged /\ UNCHANGED <<deadline, writerVars, deferredVars>>

CloserStops ==
  /\ cpc = "wait" /\ done
  /\ cpc' = "ended"
  /\ ReaderUnchanged /\ UNCHANGED <<deadline, queueVars, writerVars, deferredVars>>

\* A response is ready when its latency has passed, a receipt when its response is queued.
Ready(p) == p.kind = "dlr" => p.tick \in sent

\* Faulty variant: the channel a receipt waits on is closed before the response is queued.
DeferredBeginSendSignalling(p) ==
  /\ deferred[p] = "wait" /\ Ready(p)
  /\ BeginSend
  /\ deferred' = [deferred EXCEPT ![p] = "select"]
  /\ sent' = IF p.kind = "resp" THEN sent \cup {p.tick} ELSE sent
  /\ ReaderUnchanged /\ UNCHANGED <<deadline, writerVars, cpc>>

DeferredBeginSend(p) ==
  /\ deferred[p] = "wait" /\ Ready(p)
  /\ BeginSend
  /\ deferred' = [deferred EXCEPT ![p] = "select"]
  /\ ReaderUnchanged /\ UNCHANGED <<sent, deadline, writerVars, cpc>>

\* The PDU is queued (or dropped), then the channel its receipt waits on is closed.
DeferredEndSend(p) ==
  /\ deferred[p] = "select"
  /\ EndSend(p)
  /\ deferred' = [deferred EXCEPT ![p] = "ended"]
  /\ sent' = IF p.kind = "resp" THEN sent \cup {p.tick} ELSE sent
  /\ ReaderUnchanged /\ UNCHANGED <<deadline, writerVars, cpc>>

DeferredStops(p) ==
  /\ deferred[p] = "wait" /\ stopDeferred
  /\ deferred' = [deferred EXCEPT ![p] = "ended"]
  /\ ReaderUnchanged /\ UNCHANGED <<sent, deadline, queueVars, writerVars, cpc>>
-----------------------------------------------------------------------------
(***************************************************************************)
(* run's deferred teardown, in the order that keeps outbound safe to close *)
(***************************************************************************)
TeardownUnchanged == UNCHANGED <<engineVars, logicalClock, recorded, cmd, decision, todo, bindVars,
                                 perBindClock, scheduleVars, quiet, closeVars, deadline, bound,
                                 writing, writeErr, wire, wpc, cpc, deferredVars>>

\* Sample writerClosed, then close(done).
Teardown ==
  /\ rpc = "teardown"
  /\ failedFirst' = (wpc = "exited")
  /\ done' = TRUE
  /\ rpc' = "joinCloser"
  /\ TeardownUnchanged
  /\ UNCHANGED <<registered, activeBinds, queueVars, outboundClosed, stopDeferred, recordedReason>>

\* Faulty variant: the closer is told to stop but not waited for.
JoinCloserHasty ==
  /\ rpc = "joinCloser"
  /\ stopDeferred' = TRUE
  /\ rpc' = "joinDeferred"
  /\ TeardownUnchanged
  /\ UNCHANGED <<registered, activeBinds, queueVars, outboundClosed, done, failedFirst, recordedReason>>

\* <-closerDone, then close(stopDeferred).
JoinCloser ==
  /\ rpc = "joinCloser" /\ cpc = "ended"
  /\ stopDeferred' = TRUE
  /\ rpc' = "joinDeferred"
  /\ TeardownUnchanged
  /\ UNCHANGED <<registered, activeBinds, queueVars, outboundClosed, done, failedFirst, recordedReason>>

\* Faulty variant: outbound is closed only after the writer is joined.
JoinDeferredOnly ==
  /\ rpc = "joinDeferred"
  /\ \A p \in Deferrable : deferred[p] \in {"none", "ended"}
  /\ rpc' = "joinWriter"
  /\ TeardownUnchanged
  /\ UNCHANGED <<registered, activeBinds, queueVars, outboundClosed, done, stopDeferred, failedFirst,
                 recordedReason>>

\* deferred.Wait(), then close(outbound).
JoinDeferred ==
  /\ rpc = "joinDeferred"
  /\ \A p \in Deferrable : deferred[p] \in {"none", "ended"}
  /\ outboundClosed' = TRUE
  /\ rpc' = "joinWriter"
  /\ TeardownUnchanged
  /\ UNCHANGED <<registered, activeBinds, queueVars, done, stopDeferred, failedFirst, recordedReason>>

\* Faulty variant: a session whose handler panicked is recorded without a reason.
CloseRecordUnset == IF failedFirst /\ writeErr # "unset" THEN writeErr ELSE closeReason

\* recordClose: a writer that had failed first outranks what the read side saw.
CloseRecord ==
  IF failedFirst /\ writeErr # "unset" THEN writeErr
  ELSE IF closeReason = "unset" THEN "panic" ELSE closeReason

\* <-writerClosed; what a failed writer left behind is counted as dropped; the record.
JoinWriter ==
  /\ rpc = "joinWriter" /\ wpc = "exited"
  /\ outbound' = <<>>
  /\ depth' = depth - Len(outbound) /\ owed' = owed - Len(outbound)
  /\ recordedReason' = CloseRecord
  /\ rpc' = "deregister"
  /\ TeardownUnchanged
  /\ UNCHANGED <<registered, activeBinds, outboundClosed, done, stopDeferred, failedFirst>>

\* binds.remove, and DecBind if this session had counted itself.
Deregister ==
  /\ rpc = "deregister"
  /\ registered' = FALSE
  /\ activeBinds' = IF bound THEN activeBinds - 1 ELSE activeBinds
  /\ rpc' = "ended"
  /\ TeardownUnchanged
  /\ UNCHANGED <<queueVars, outboundClosed, done, stopDeferred, failedFirst, recordedReason>>
-----------------------------------------------------------------------------
(***************************************************************************)
(* What happens around the session.                                        *)
(***************************************************************************)
SessionUnchanged == UNCHANGED <<smscVars, rpc, cmd, decision, todo, bindVars, perBindClock, scheduleVars,
                                closeVars, deadline, bound, queueVars, writerVars, cpc, deferredVars,
                                teardownVars>>

\* Engine.Shutdown closes quit, once.
Quit == rpc # "ended" /\ ~quit /\ quit' = TRUE /\ UNCHANGED <<older, rejects, quiet>> /\ SessionUnchanged

\* The quiescence window since lastSubmit runs out; it matters while events are pending.
WindowElapses ==
  /\ rpc # "ended" /\ pending # <<>> /\ ~quiet
  /\ quiet' = TRUE
  /\ UNCHANGED engineVars /\ SessionUnchanged

\* The last older bind of the virtual SMSC leaves its registry.
OlderLeaves == rpc # "ended" /\ older /\ older' = FALSE /\ UNCHANGED <<quit, rejects, quiet>> /\ SessionUnchanged

\* What the client decides: when a frame starts, whether it completes, when it hangs up.
Client == FirstByte \/ FrameComplete \/ \E f \in ReadFaults : ReadFault(f)

Reader ==
  \/ ArmReadDeadline \/ CheckQuit \/ ReadTimeout \/ ExtendDeadline \/ RecheckQuit \/ FrameTimeout
  \/ HandleOther \/ RefuseBind \/ AcceptBind \/ IncBind \/ StoreBound
  \/ RefuseSubmit \/ Evaluate \/ ServeLatency \/ Commit \/ Answer
  \/ HandlerReturns \/ ReaderBeginSend \/ ReaderEndSend \/ DropMO \/ ReaderCloses \/ Spawn \/ ApplyDueDisconnects
  \/ Teardown \/ JoinCloser \/ JoinDeferred \/ JoinWriter \/ Deregister

Writer == WriterReceive \/ WriterWrites \/ (\E r \in WriteFaults : WriterFails(r)) \/ WriterEnds

Closer == CloserWakesReader \/ CloserBeginSend \/ CloserEndSend \/ CloserStops

Deferred(p) == DeferredBeginSend(p) \/ DeferredEndSend(p) \/ DeferredStops(p)

Next ==
  \/ Client \/ Reader \/ Panic \/ Writer \/ Closer
  \/ \E p \in Deferrable : Deferred(p)
  \/ Quit \/ WindowElapses \/ OlderLeaves

(***************************************************************************)
(* Every goroutine that can run does run: the Go scheduler is fair to      *)
(* them, a read deadline and a latency timer fire, and the write deadline  *)
(* makes every write return. Nothing is assumed of the client or of the    *)
(* engine.                                                                 *)
(***************************************************************************)
Fairness ==
  /\ WF_vars(Reader) /\ WF_vars(Writer) /\ WF_vars(Closer)
  /\ \A p \in Deferrable : WF_vars(Deferred(p))
  /\ WF_vars(WindowElapses)

Spec == Init /\ [][Next]_vars
FairSpec == Spec /\ Fairness
=============================================================================
