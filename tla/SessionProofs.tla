--------------------------- MODULE SessionProofs ----------------------------
(***************************************************************************)
(* Facts of the session for every configuration, queue capacity and number *)
(* of submits. Around its goroutines: nothing is sent on a closed channel, *)
(* shutdown's read deadline cannot be lost, no deadline for a quiet link   *)
(* cuts a frame, gauge and clock stay exact. Of its schedule: what a tick  *)
(* makes due is released by its submit, and the profile and the scheduled  *)
(* cuts follow the clock and nothing else.                                 *)
(***************************************************************************)
EXTENDS SessionProperties, ScheduleProofs, TLAPS

\* The steps of run's deferred teardown after close(done).
Closing == {"joinCloser", "joinDeferred", "joinWriter", "deregister", "ended"}
CloserJoined == {"joinDeferred", "joinWriter", "deregister", "ended"}
SendersJoined == {"joinWriter", "deregister", "ended"}

Quiescent(p) == deferred[p] \in {"none", "ended"}

\* done is closed by teardown alone, the closer leaves its wait only for quit or done, and
\* each join of the teardown stays true once passed.
ShutdownInv ==
  /\ deferred \in [Deferrable -> {"none", "wait", "select", "ended"}]
  /\ done => rpc \in Closing
  /\ cpc # "wait" => quit \/ done
  /\ rpc \in CloserJoined => cpc = "ended"
  /\ rpc \in SendersJoined => \A p \in Deferrable : Quiescent(p)
  /\ outboundClosed => rpc \in SendersJoined
  /\ ShutdownDeadlineHolds

USE DEF Closing, CloserJoined, SendersJoined, engineVars, smscVars, bindVars, scheduleVars, closeVars,
        queueVars, writerVars, deferredVars, teardownVars

\* newSession and the start of run: nothing is closed and nobody sends.
LEMMA ShutdownInvInit == Init => ShutdownInv
  BY DEF Init, ShutdownInv, ShutdownDeadlineHolds

\* A step of the reader that closes no channel and joins nobody keeps the invariant, as long
\* as it lets the reader block only under a deadline that a shutdown cannot have outlived.
LEMMA ReaderStepKeeps ==
  ASSUME ShutdownInv, rpc \notin Closing, rpc' \notin Closing,
         UNCHANGED <<quit, cpc, done, outboundClosed>>,
         deferred' \in [Deferrable -> {"none", "wait", "select", "ended"}],
         (rpc' \in {"read", "midFrame"} /\ quit) => deadline' = "past"
  PROVE  ShutdownInv'
  BY DEF ShutdownInv, ShutdownDeadlineHolds

\* readLoop and frameReader: arming, checking quit, blocking, extending.
LEMMA LoopKeeps ==
  ASSUME ShutdownInv,
         \/ ArmReadDeadline \/ CheckQuit \/ ReadTimeout \/ FirstByte \/ ExtendDeadline \/ RecheckQuit
         \/ FrameComplete \/ FrameTimeout \/ \E f \in ReadFaults : ReadFault(f)
  PROVE  ShutdownInv'
<1>1. /\ UNCHANGED <<quit, cpc, done, outboundClosed, deferred>>
      /\ rpc \notin Closing /\ rpc' \notin Closing
  BY DEF ArmReadDeadline, CheckQuit, ReadTimeout, FirstByte, ExtendDeadline, RecheckQuit,
         FrameComplete, FrameTimeout, ReadFault, LoopUnchanged
<1>2. (rpc' \in {"read", "midFrame"} /\ quit) => deadline' = "past"
  BY DEF ArmReadDeadline, CheckQuit, ReadTimeout, FirstByte, ExtendDeadline, RecheckQuit,
         FrameComplete, FrameTimeout, ReadFault, LoopUnchanged
<1>3. deferred' \in [Deferrable -> {"none", "wait", "select", "ended"}]
  BY <1>1 DEF ShutdownInv
<1> QED BY <1>1, <1>2, <1>3, ReaderStepKeeps

\* handle and its handlers: they neither block on the socket nor touch a channel they share.
LEMMA HandlersKeep ==
  ASSUME ShutdownInv,
         \/ HandleOther \/ RefuseBind \/ AcceptBind \/ IncBind \/ StoreBound \/ RefuseSubmit
         \/ Evaluate \/ ServeLatency \/ Commit \/ Answer \/ Panic
  PROVE  ShutdownInv'
<1>1. UNCHANGED <<quit, cpc, done, outboundClosed, deferred>>
  BY DEF HandleOther, RefuseBind, AcceptBind, IncBind, StoreBound, RefuseSubmit, Evaluate,
         ServeLatency, Commit, Answer, Panic, HandlerUnchanged
<1>2. rpc \notin Closing /\ rpc' \notin Closing \cup {"read", "midFrame"}
  BY DEF HandleOther, RefuseBind, AcceptBind, IncBind, StoreBound, RefuseSubmit, Evaluate,
         ServeLatency, Commit, Answer, Panic, Reply, Then
<1>3. deferred' \in [Deferrable -> {"none", "wait", "select", "ended"}]
  BY <1>1 DEF ShutdownInv
<1> QED BY <1>1, <1>2, <1>3, ReaderStepKeeps

\* The sends of a handler; Spawn starts a goroutine, which teardown has yet to join.
LEMMA SendsKeep ==
  ASSUME ShutdownInv,
         \/ HandlerReturns \/ ReaderBeginSend \/ ReaderEndSend \/ DropMO \/ ReaderCloses \/ Spawn
         \/ ApplyDueDisconnects
  PROVE  ShutdownInv'
<1>1. /\ UNCHANGED <<quit, cpc, done, outboundClosed>>
      /\ rpc \notin Closing /\ rpc' \notin Closing \cup {"read", "midFrame"}
  BY DEF HandlerReturns, ReaderBeginSend, ReaderEndSend, DropMO, ReaderCloses, Spawn, ApplyDueDisconnects,
         DoUnchanged, ReturnUnchanged
<1>2. deferred' \in [Deferrable -> {"none", "wait", "select", "ended"}]
  <2>1. CASE Spawn
    BY <2>1 DEF ShutdownInv, Spawn
  <2>2. CASE ~Spawn
    BY <2>2 DEF ShutdownInv, HandlerReturns, ReaderBeginSend, ReaderEndSend, DropMO, ReaderCloses,
                ApplyDueDisconnects
  <2> QED BY <2>1, <2>2
<1> QED BY <1>1, <1>2, ReaderStepKeeps

\* writeLoop, the quiescence window and the other binds touch nothing the invariant is about.
LEMMA WriterKeeps ==
  ASSUME ShutdownInv, Writer \/ WindowElapses \/ OlderLeaves
  PROVE  ShutdownInv'
<1>1. UNCHANGED <<quit, cpc, done, outboundClosed, deferred, rpc, deadline>>
  BY DEF Writer, WriterReceive, WriterWrites, WriterFails, WriterEnds, ReaderUnchanged,
         WindowElapses, OlderLeaves, SessionUnchanged
<1> QED BY <1>1 DEF ShutdownInv, ShutdownDeadlineHolds, Quiescent

\* close(quit): it can only weaken what the invariant asks.
LEMMA QuitKeeps ==
  ASSUME ShutdownInv, Quit PROVE ShutdownInv'
  BY DEF ShutdownInv, ShutdownDeadlineHolds, Quiescent, Quit, SessionUnchanged

\* The closer: past its wait it has set the past deadline, and once ended it stays so.
LEMMA CloserKeeps ==
  ASSUME ShutdownInv, Closer PROVE ShutdownInv'
<1>1. UNCHANGED <<quit, done, outboundClosed, deferred, rpc>>
  BY DEF Closer, CloserWakesReader, CloserBeginSend, CloserEndSend, CloserStops, ReaderUnchanged
<1>2. cpc # "ended" /\ cpc' # "wait"
  BY DEF Closer, CloserWakesReader, CloserBeginSend, CloserEndSend, CloserStops
<1>3. quit \/ done
  BY DEF ShutdownInv, Closer, CloserWakesReader, CloserBeginSend, CloserEndSend, CloserStops
<1>4. rpc \in {"read", "midFrame"} => deadline' = "past"
  BY DEF ShutdownInv, ShutdownDeadlineHolds, Closer, CloserWakesReader, CloserBeginSend,
         CloserEndSend, CloserStops
<1> QED BY <1>1, <1>2, <1>3, <1>4 DEF ShutdownInv, ShutdownDeadlineHolds, Quiescent

\* A deferred goroutine acts only while teardown has not joined them all.
LEMMA DeferredKeeps ==
  ASSUME ShutdownInv, NEW p \in Deferrable, Deferred(p) PROVE ShutdownInv'
<1>1. UNCHANGED <<quit, done, cpc, outboundClosed, rpc, deadline>>
  BY DEF Deferred, DeferredBeginSend, DeferredEndSend, DeferredStops, ReaderUnchanged
<1>2. ~Quiescent(p) /\ rpc \notin SendersJoined
  BY DEF ShutdownInv, Quiescent, Deferred, DeferredBeginSend, DeferredEndSend, DeferredStops
<1>3. deferred' \in [Deferrable -> {"none", "wait", "select", "ended"}]
  BY DEF ShutdownInv, Deferred, DeferredBeginSend, DeferredEndSend, DeferredStops
<1> QED BY <1>1, <1>2, <1>3 DEF ShutdownInv, ShutdownDeadlineHolds

\* run's teardown: each step waits for the join the next one relies on.
LEMMA TeardownKeeps ==
  ASSUME ShutdownInv, Teardown \/ JoinCloser \/ JoinDeferred \/ JoinWriter \/ Deregister
  PROVE  ShutdownInv'
<1>1. UNCHANGED <<quit, cpc, deferred, deadline>>
  BY DEF Teardown, JoinCloser, JoinDeferred, JoinWriter, Deregister, TeardownUnchanged
<1>2. rpc' \in Closing /\ rpc # "ended"
  BY DEF Teardown, JoinCloser, JoinDeferred, JoinWriter, Deregister
<1>3. rpc' \in CloserJoined => cpc = "ended"
  BY DEF ShutdownInv, Teardown, JoinCloser, JoinDeferred, JoinWriter, Deregister
<1>4. rpc' \in SendersJoined => \A p \in Deferrable : Quiescent(p)
  BY DEF ShutdownInv, Quiescent, Teardown, JoinCloser, JoinDeferred, JoinWriter, Deregister
<1>5. outboundClosed' => rpc' \in SendersJoined
  BY DEF ShutdownInv, Teardown, JoinCloser, JoinDeferred, JoinWriter, Deregister
<1>6. cpc # "wait" => quit \/ done'
  BY DEF ShutdownInv, Teardown, JoinCloser, JoinDeferred, JoinWriter, Deregister
<1> QED BY <1>1, <1>2, <1>3, <1>4, <1>5, <1>6 DEF ShutdownInv, ShutdownDeadlineHolds, Quiescent

\* Every step of the session keeps the invariant.
LEMMA ShutdownInvNext == ShutdownInv /\ [Next]_vars => ShutdownInv'
<1> SUFFICES ASSUME ShutdownInv, [Next]_vars PROVE ShutdownInv'
  OBVIOUS
<1>1. CASE Client
  BY <1>1, LoopKeeps DEF Client
<1>2. CASE Reader
  BY <1>2, LoopKeeps, HandlersKeep, SendsKeep, TeardownKeeps DEF Reader
<1>3. CASE Panic
  BY <1>3, HandlersKeep
<1>4. CASE Writer \/ WindowElapses \/ OlderLeaves
  BY <1>4, WriterKeeps
<1>5. CASE Closer
  BY <1>5, CloserKeeps
<1>6. CASE \E p \in Deferrable : Deferred(p)
  BY <1>6, DeferredKeeps
<1>7. CASE Quit
  BY <1>7, QuitKeeps
<1>8. CASE UNCHANGED vars
  BY <1>8 DEF vars, ShutdownInv, ShutdownDeadlineHolds, Quiescent
<1> QED BY <1>1, <1>2, <1>3, <1>4, <1>5, <1>6, <1>7, <1>8 DEF Next

\* run, closer, teardown: the inductive invariant holds in every reachable state.
THEOREM ShutdownSafety == Spec => []ShutdownInv
  BY ShutdownInvInit, ShutdownInvNext, PTL DEF Spec

\* run's teardown order: whatever the configuration, once outbound is closed neither the
\* reader, nor the closer, nor any deferred goroutine can send on it.
THEOREM NeverSendsOnClosedChannel == Spec => []NoSendAfterClose
<1>1. ShutdownInv => NoSendAfterClose
  BY DEF ShutdownInv, NoSendAfterClose, Quiescent
<1> QED BY <1>1, ShutdownSafety, PTL

\* readLoop's and frameReader's quit re-checks: after the closer's past deadline, the reader
\* never blocks under a later one, wherever the closer's write fell among the reader's.
THEOREM ShutdownDeadlineIsNeverLost == Spec => []ShutdownDeadlineHolds
<1>1. ShutdownInv => ShutdownDeadlineHolds
  BY DEF ShutdownInv
<1> QED BY <1>1, ShutdownSafety, PTL
-----------------------------------------------------------------------------
(***************************************************************************)
(* The read deadline inside a frame, the bind gauge and the clocks.        *)
(***************************************************************************)
\* Every step is one of the read loop, of a handler, of its sends, of teardown, or of another
\* goroutine; only the first group moves the reader inside a frame.
LoopStep ==
  \/ ArmReadDeadline \/ CheckQuit \/ ReadTimeout \/ FirstByte \/ ExtendDeadline \/ RecheckQuit
  \/ FrameComplete \/ FrameTimeout \/ \E f \in ReadFaults : ReadFault(f)
HandlerStep ==
  \/ HandleOther \/ RefuseBind \/ AcceptBind \/ IncBind \/ StoreBound \/ RefuseSubmit
  \/ Evaluate \/ ServeLatency \/ Commit \/ Answer \/ Panic
SendStep ==
  \/ HandlerReturns \/ ReaderBeginSend \/ ReaderEndSend \/ DropMO \/ ReaderCloses \/ Spawn
  \/ ApplyDueDisconnects
TeardownStep == Teardown \/ JoinCloser \/ JoinDeferred \/ JoinWriter \/ Deregister
OtherStep ==
  \/ Writer \/ Closer \/ (\E p \in Deferrable : Deferred(p))
  \/ Quit \/ WindowElapses \/ OlderLeaves

\* Next, by who acts.
LEMMA StepsByActor == [Next]_vars => LoopStep \/ HandlerStep \/ SendStep \/ TeardownStep \/ OtherStep \/ UNCHANGED vars
  BY DEF Next, Client, Reader, LoopStep, HandlerStep, SendStep, TeardownStep, OtherStep

\* Whoever is not the reader leaves alone what the reader owns and what it counts.
LEMMA OthersLeaveReaderAlone ==
  ASSUME OtherStep \/ UNCHANGED vars
  PROVE  /\ UNCHANGED <<rpc, cmd, decision, todo, state, closeReason, canSubmit, canReceive, profile,
                        transitionCursor, disconnectCursor, perBindClock, pending, seq, bound>>
         /\ UNCHANGED <<registered, activeBinds, logicalClock, recorded>>
  BY DEF OtherStep, Writer, WriterReceive, WriterWrites, WriterFails, WriterEnds, Closer, CloserWakesReader,
         CloserBeginSend, CloserEndSend, CloserStops, Deferred, DeferredBeginSend, DeferredEndSend,
         DeferredStops, ReaderUnchanged, Quit, WindowElapses, OlderLeaves, SessionUnchanged, vars

\* frameReader: past the first byte of a frame the deadline is the idle window, or the past one
\* that a shutdown has set.
FrameInv ==
  rpc \in {"extended", "midFrame"} => deadline = "idle" \/ (deadline = "past" /\ quit)

\* A frame is entered by ExtendDeadline alone, and only the closer touches the deadline in it.
LEMMA FrameInvNext == FrameInv /\ [Next]_vars => FrameInv'
<1> SUFFICES ASSUME FrameInv, [Next]_vars PROVE FrameInv'
  OBVIOUS
<1>1. CASE LoopStep
  BY <1>1 DEF LoopStep, FrameInv, ArmReadDeadline, CheckQuit, ReadTimeout, FirstByte, ExtendDeadline,
     RecheckQuit, FrameComplete, FrameTimeout, ReadFault, LoopUnchanged
<1>2. CASE HandlerStep
  <2>1. quit' = quit /\ rpc' \notin {"extended", "midFrame"}
    BY <1>2 DEF HandlerStep, HandleOther, RefuseBind, AcceptBind, IncBind, StoreBound, RefuseSubmit,
       Evaluate, ServeLatency, Commit, Answer, Panic, Reply, Then, HandlerUnchanged
  <2> QED BY <2>1 DEF FrameInv
<1>3. CASE SendStep
  <2>1. quit' = quit /\ rpc' \notin {"extended", "midFrame"}
    BY <1>3 DEF SendStep, HandlerReturns, ReaderBeginSend, ReaderEndSend, DropMO, ReaderCloses, Spawn,
       ApplyDueDisconnects, DoUnchanged, ReturnUnchanged
  <2> QED BY <2>1 DEF FrameInv
<1>4. CASE TeardownStep
  BY <1>4 DEF TeardownStep, FrameInv, Teardown, JoinCloser, JoinDeferred, JoinWriter, Deregister,
     TeardownUnchanged
<1>5. CASE Closer
  BY <1>5 DEF Closer, FrameInv, CloserWakesReader, CloserBeginSend, CloserEndSend, CloserStops,
     ReaderUnchanged
<1>6. CASE OtherStep /\ ~Closer
  BY <1>6 DEF OtherStep, FrameInv, Writer, WriterReceive, WriterWrites, WriterFails, WriterEnds, Deferred,
     DeferredBeginSend, DeferredEndSend, DeferredStops, ReaderUnchanged, Quit, WindowElapses, OlderLeaves,
     SessionUnchanged
<1>7. CASE UNCHANGED vars
  BY <1>7 DEF vars, FrameInv
<1> QED BY <1>1, <1>2, <1>3, <1>4, <1>5, <1>6, <1>7, StepsByActor

\* frameReader.Read's extension: whenever the quiescence window elapses, and whatever a
\* shutdown does meanwhile, the wake-up meant for the gap between frames never cuts one.
THEOREM FramesAreNeverCutByQuiescence == Spec => []QuiescenceNeverCutsFrame
<1>1. Init => FrameInv
  BY DEF Init, FrameInv
<1>2. FrameInv => QuiescenceNeverCutsFrame
  BY DEF FrameInv, QuiescenceNeverCutsFrame
<1> QED BY <1>1, <1>2, FrameInvNext, PTL DEF Spec

\* handleBind, teardown: the gauge is 1 from IncBind to DecBind, bound is stored in between,
\* and a session binds once.
BindInv ==
  /\ activeBinds = IF rpc # "ended" /\ (bound \/ rpc = "storeBound") THEN 1 ELSE 0
  /\ rpc \in {"incBind", "storeBound"} => ~bound /\ state # "open"
  /\ state = "open" => ~bound
  /\ rpc = "ended" => ~registered

\* Only AcceptBind, IncBind, StoreBound and Deregister touch the gauge, the flag or the registry.
LEMMA BindInvNext == BindInv /\ [Next]_vars => BindInv'
<1> SUFFICES ASSUME BindInv, [Next]_vars PROVE BindInv'
  OBVIOUS
<1>1. CASE LoopStep
  <2>1. /\ UNCHANGED <<bound, registered, activeBinds>> /\ (state' = state \/ state' = "closed")
        /\ rpc \notin {"ended", "storeBound"} /\ rpc' \notin {"ended", "incBind", "storeBound"}
    BY <1>1 DEF LoopStep, ArmReadDeadline, CheckQuit, ReadTimeout, FirstByte, ExtendDeadline, RecheckQuit,
       FrameComplete, FrameTimeout, ReadFault, LoopUnchanged, ReadFailure, CloseWith
  <2> QED BY <2>1 DEF BindInv
<1>2. CASE HandlerStep
  <2>1. CASE AcceptBind \/ IncBind \/ StoreBound
    BY <2>1 DEF BindInv, AcceptBind, IncBind, StoreBound, Reply, Then
  <2>2. CASE ~(AcceptBind \/ IncBind \/ StoreBound)
    <3>1. /\ UNCHANGED <<bound, registered, activeBinds>> /\ (state' = state \/ state' = "closed")
          /\ rpc \notin {"ended", "storeBound"} /\ rpc' \notin {"ended", "incBind", "storeBound"}
      BY <1>2, <2>2 DEF HandlerStep, HandleOther, RefuseBind, RefuseSubmit, Evaluate, ServeLatency, Commit,
         Answer, Panic, Reply, Then, HandlerUnchanged, CloseWith
    <3> QED BY <3>1 DEF BindInv
  <2> QED BY <2>1, <2>2
<1>3. CASE SendStep
  <2>1. /\ UNCHANGED <<bound, registered, activeBinds>> /\ (state' = state \/ state' = "closed")
        /\ rpc \notin {"ended", "storeBound"} /\ rpc' \notin {"ended", "incBind", "storeBound"}
    BY <1>3 DEF SendStep, HandlerReturns, ReaderBeginSend, ReaderEndSend, DropMO, ReaderCloses, Spawn,
       ApplyDueDisconnects, DoUnchanged, ReturnUnchanged, CloseWith
  <2> QED BY <2>1 DEF BindInv
<1>4. CASE TeardownStep
  BY <1>4 DEF TeardownStep, BindInv, Teardown, JoinCloser, JoinDeferred, JoinWriter, Deregister,
     TeardownUnchanged
<1>5. CASE OtherStep \/ UNCHANGED vars
  BY <1>5, OthersLeaveReaderAlone DEF BindInv
<1> QED BY <1>1, <1>2, <1>3, <1>4, <1>5, StepsByActor

\* handleBind's order (add, IncBind, bound) and teardown's: wherever a panic or a shutdown
\* falls among them, the active-binds gauge and the registry come back to what they were.
THEOREM BindGaugeBalances == Spec => []BindsBalanced
<1>1. Init => BindInv
  BY DEF Init, BindInv
<1>2. BindInv => BindsBalanced
  BY DEF BindInv, BindsBalanced
<1> QED BY <1>1, <1>2, BindInvNext, PTL DEF Spec

\* handleSubmit: the clocks advance together, and the recorder is one behind only between
\* Commit and Append.
ClockInv ==
  /\ perBindClock \in Nat /\ logicalClock = perBindClock
  /\ recorded = IF rpc = "record" THEN perBindClock - 1 ELSE perBindClock

\* Commit and Answer are the only steps that touch a clock or the recorder.
LEMMA ClockInvNext == ClockInv /\ [Next]_vars => ClockInv'
<1> SUFFICES ASSUME ClockInv, [Next]_vars PROVE ClockInv'
  OBVIOUS
<1>1. CASE Commit \/ Answer
  <2>1. CASE Commit
    BY <2>1 DEF ClockInv, Commit
  <2>2. CASE Answer
    <3>1. rpc = "record" /\ rpc' = "do" /\ recorded' = recorded + 1 /\ UNCHANGED <<perBindClock, logicalClock>>
      BY <2>2 DEF Answer, Then
    <3> QED BY <3>1 DEF ClockInv
  <2> QED BY <1>1, <2>1, <2>2
<1>2. CASE ~(Commit \/ Answer)
  <2>1. UNCHANGED <<perBindClock, logicalClock, recorded>> /\ (rpc = "record") = (rpc' = "record")
    <3>1. CASE LoopStep
      BY <3>1 DEF LoopStep, ArmReadDeadline, CheckQuit, ReadTimeout, FirstByte, ExtendDeadline, RecheckQuit,
         FrameComplete, FrameTimeout, ReadFault, LoopUnchanged
    <3>2. CASE HandlerStep
      BY <1>2, <3>2 DEF HandlerStep, HandleOther, RefuseBind, AcceptBind, IncBind, StoreBound, RefuseSubmit,
         Evaluate, ServeLatency, Panic, Reply, Then, HandlerUnchanged
    <3>3. CASE SendStep
      BY <3>3 DEF SendStep, HandlerReturns, ReaderBeginSend, ReaderEndSend, DropMO, ReaderCloses, Spawn,
         ApplyDueDisconnects, DoUnchanged, ReturnUnchanged
    <3>4. CASE TeardownStep
      BY <3>4 DEF TeardownStep, Teardown, JoinCloser, JoinDeferred, JoinWriter, Deregister, TeardownUnchanged
    <3>5. CASE OtherStep \/ UNCHANGED vars
      BY <3>5, OthersLeaveReaderAlone
    <3> QED BY <3>1, <3>2, <3>3, <3>4, <3>5, StepsByActor
  <2> QED BY <2>1 DEF ClockInv
<1> QED BY <1>1, <1>2

\* handleSubmit, serveLatency: a submit that shutdown abandons has moved neither clock, and one
\* that moved them is always recorded.
THEOREM ClockNeverOutrunsJournal == Spec => []JournalMatchesClock
<1>1. Init => ClockInv
  BY DEF Init, ClockInv
<1>2. ClockInv => JournalMatchesClock
  BY DEF ClockInv, JournalMatchesClock
<1> QED BY <1>1, <1>2, ClockInvNext, PTL DEF Spec
-----------------------------------------------------------------------------
(***************************************************************************)
(* The schedule of a session.                                              *)
(***************************************************************************)
Events == [due : Nat, seq : Nat, kind : {"mo", "dlr"}, tick : Nat]

\* What a handler may have left to do.
HandlerReasons == {"client_unbind", "bind_rejected", "auth_failed", "scheduled_disconnect", "fault_injection"}
Replies == [kind : {"resp", "nack", "answer", "unbind_resp", "bind_fail", "bind_ok", "submit_fail"}, tick : Nat]
Steps == [op : {"send"}, arg : Replies]
         \cup [op : {"hold"}, arg : [kind : {"resp"}, tick : Nat]]
         \cup [op : {"receipt"}, arg : [kind : {"dlr"}, tick : Nat]]
         \cup [op : {"mo"}, arg : [kind : {"mo"}, tick : Nat]]
         \cup [op : {"close"}, arg : HandlerReasons]
         \cup {Cut}

\* The steps a handler is made of are steps.
LEMMA StepsOfHandlers ==
  /\ \A p \in Replies : Send(p) \in Steps
  /\ \A t \in Nat : Hold(PDU("resp", t)) \in Steps /\ Receipt(t) \in Steps /\ MO(t) \in Steps
  /\ \A t \in Nat : PDU("resp", t) \in Replies
  /\ \A k \in {"nack", "answer", "unbind_resp", "bind_fail", "bind_ok", "submit_fail"} : PDU(k, 0) \in Replies
  /\ \A r \in HandlerReasons : Close(r) \in Steps
  /\ Cut \in Steps
  BY DEF Steps, Send, Hold, Receipt, MO, Close, Cut, PDU, Replies

\* What the kind of a step says of its argument.
LEMMA StepsByKind ==
  ASSUME NEW s \in Steps
  PROVE  /\ s.op \in {"send", "hold", "receipt", "mo", "close", "cut"}
         /\ s.op = "send" => s.arg \in Replies
         /\ s.op = "hold" => s.arg.kind = "resp" /\ s.arg.tick \in Nat /\ s.arg = PDU("resp", s.arg.tick)
         /\ s.op = "receipt" => s.arg.kind = "dlr" /\ s.arg.tick \in Nat /\ s.arg = PDU("dlr", s.arg.tick)
         /\ s.op = "mo" => s.arg.kind = "mo" /\ s.arg.tick \in Nat
         /\ s.op = "close" => s.arg \in HandlerReasons
  BY DEF Steps, Cut, PDU

\* dispatch: a drained slice is that many steps, receipts and MOs only.
LEMMA EmittedSteps ==
  ASSUME NEW s \in Seq(Events)
  PROVE  /\ Emit(s) \in Seq(Steps) /\ Len(Emit(s)) = Len(s)
         /\ \A i \in 1..Len(s) : Emit(s)[i] = Dispatch(s[i])
         /\ \A i \in 1..Len(s) : Emit(s)[i].op \in {"receipt", "mo"}
<1>1. Len(s) \in Nat /\ \A i \in 1..Len(s) : s[i] \in Events
  OBVIOUS
<1>2. ASSUME NEW e \in Events PROVE Dispatch(e) \in Steps /\ Dispatch(e).op \in {"receipt", "mo"}
  <2>1. e.tick \in Nat
    BY DEF Events
  <2> QED BY <2>1, StepsOfHandlers DEF Dispatch, Receipt, MO
<1>3. Emit(s) = [i \in 1..Len(s) |-> Dispatch(s[i])]
  BY DEF Emit
<1>4. Emit(s) \in Seq(Steps) /\ Len(Emit(s)) = Len(s)
  BY <1>1, <1>2, <1>3
<1> QED BY <1>1, <1>2, <1>3, <1>4

\* applyDueTransitions, applyDueDisconnects: a cursor stops at the first entry that is not due.
LEMMA AdvanceStops ==
  ASSUME NEW list, Len(list) \in Nat, NEW c \in 0..Len(list), NEW tick
  PROVE  /\ Advance(c, list, tick) \in c..Len(list)
         /\ \A k \in (c + 1)..Advance(c, list, tick) : list[k].at <= tick
         /\ Advance(c, list, tick) < Len(list) => ~(list[Advance(c, list, tick) + 1].at <= tick)
<1> DEFINE T == {k \in (c + 1)..(Len(list) + 1) : k = Len(list) + 1 \/ ~(list[k].at <= tick)}
           R == {i \in (c + 1)..Len(list) : \A j \in (c + 1)..i : list[j].at <= tick}
<1>1. T \subseteq Nat /\ Len(list) + 1 \in T
  OBVIOUS
<1>2. PICK k \in T : \A j \in T : k <= j
  BY <1>1, LeastNatural
<1>3. k \in (c + 1)..(Len(list) + 1) /\ (k <= Len(list) => ~(list[k].at <= tick))
  BY <1>2
<1>4. \A j \in (c + 1)..(k - 1) : list[j].at <= tick
  <2> SUFFICES ASSUME NEW j \in (c + 1)..(k - 1), ~(list[j].at <= tick) PROVE FALSE
    OBVIOUS
  <2>1. j \in T /\ j < k
    BY <1>3
  <2> QED BY <2>1, <1>2, <1>3
<1>5. R = (c + 1)..(k - 1)
  <2>1. ASSUME NEW i \in R PROVE i \in (c + 1)..(k - 1)
    <3>1. i \in (c + 1)..Len(list) /\ \A j \in (c + 1)..i : list[j].at <= tick
      OBVIOUS
    <3> QED BY <3>1, <1>3
  <2>2. ASSUME NEW i \in (c + 1)..(k - 1) PROVE i \in R
    BY <1>3, <1>4
  <2> QED BY <2>1, <2>2
<1>6. Cardinality((c + 1)..(k - 1)) = k - 1 - c
  <2>1. c + 1 \in Int /\ k - 1 \in Int /\ c \in Nat
    BY <1>3
  <2>2. Cardinality((c + 1)..(k - 1)) = IF c + 1 > k - 1 THEN 0 ELSE k - 1 - (c + 1) + 1
    BY <2>1, FS_Interval
  <2> QED BY <2>1, <2>2, <1>3
<1>7. Advance(c, list, tick) = c + Cardinality(R)
  BY DEF Advance
<1>8. Advance(c, list, tick) = k - 1
  <2> HIDE DEF R, T
  <2>1. k \in Int /\ c \in Int
    BY <1>3
  <2>2. Advance(c, list, tick) = c + (k - 1 - c)
    BY <1>5, <1>6, <1>7
  <2> QED BY <2>1, <2>2
<1>9. (k - 1) + 1 = k
  BY <1>3
<1> QED BY <1>3, <1>4, <1>8, <1>9
-----------------------------------------------------------------------------
(***************************************************************************)
(* scheduleConfiguredEvents: a loop of insertions. The function that       *)
(* ScheduledMOs defines recursively exists, which is shown by looking at   *)
(* the least number of MOs for which it would not.                         *)
(***************************************************************************)
Inserts(after, n) ==
  after = [i \in 0..n |-> IF i = 0 THEN pending ELSE Inserted(after[i - 1], MOEvent(i))]

\* The loop runs for any number of MOs.
LEMMA InsertsExist ==
  ASSUME NEW n \in Nat
  PROVE  \E after : Inserts(after, n)
<1> DEFINE T == {m \in Nat : ~\E after : Inserts(after, m)}
<1> SUFFICES ASSUME T # {} PROVE FALSE
  OBVIOUS
<1>1. PICK m \in T : \A j \in T : m <= j
  BY LeastNatural
<1>2. m \in Nat /\ ~\E after : Inserts(after, m)
  OBVIOUS
<1>3. CASE m = 0
  <2> DEFINE g == [i \in 0..0 |-> pending]
  <2>1. Inserts(g, 0)
    BY DEF Inserts
  <2> QED BY <2>1, <1>2, <1>3
<1>4. CASE m # 0
  <2>1. m - 1 \in Nat /\ m - 1 \notin T
    BY <1>1, <1>2, <1>4
  <2>2. PICK h : Inserts(h, m - 1)
    BY <2>1
  <2> DEFINE g == [i \in 0..m |-> IF i = m THEN Inserted(h[m - 1], MOEvent(m)) ELSE h[i]]
  <2>3. \A i \in 0..(m - 1) : g[i] = h[i]
    BY <1>2, <2>1
  <2>4. ASSUME NEW i \in 0..m
        PROVE  g[i] = IF i = 0 THEN pending ELSE Inserted(g[i - 1], MOEvent(i))
    <3>1. CASE i = m
      <4>1. i # 0 /\ i - 1 \in 0..(m - 1) BY <3>1, <1>2, <1>4
      <4>2. g[i - 1] = h[m - 1] BY <4>1, <3>1, <2>3
      <4>3. g[i] = Inserted(h[m - 1], MOEvent(m)) BY <3>1
      <4> QED BY <4>1, <4>2, <4>3, <3>1
    <3>2. CASE i # m
      <4>1. i \in 0..(m - 1) /\ g[i] = h[i] BY <3>2, <1>2, <2>3
      <4>2. h[i] = IF i = 0 THEN pending ELSE Inserted(h[i - 1], MOEvent(i))
        BY <4>1, <2>2 DEF Inserts
      <4>3. CASE i = 0 BY <4>1, <4>2, <4>3
      <4>4. CASE i # 0
        <5>1. i - 1 \in 0..(m - 1) BY <4>1, <4>4, <1>2
        <5>2. g[i - 1] = h[i - 1] BY <5>1, <2>3
        <5> QED BY <5>2, <4>1, <4>2, <4>4
      <4> QED BY <4>3, <4>4
    <3> QED BY <3>1, <3>2
  <2>5. Inserts(g, m)
    <3> DEFINE rhs == [i \in 0..m |-> IF i = 0 THEN pending ELSE Inserted(g[i - 1], MOEvent(i))]
    <3>1. DOMAIN g = 0..m /\ g = [i \in 0..m |-> g[i]] OBVIOUS
    <3> HIDE DEF g
    <3>2. g = rhs BY <3>1, <2>4
    <3> QED BY <3>2 DEF Inserts
  <2> QED BY <2>5, <1>2
<1> QED BY <1>3, <1>4

\* A bind's first schedule: the configured MOs and nothing else, in due order, numbered from seq.
LEMMA ScheduledMOEvents ==
  ASSUME pending = <<>>, seq \in Nat
  PROVE  /\ ScheduledMOs \in Seq(Events) /\ DueSorted(ScheduledMOs)
         /\ \A k \in 1..Len(ScheduledMOs) : ScheduledMOs[k].kind = "mo" /\ ScheduledMOs[k].seq < seq + Len(MOTicks)
<1> DEFINE n == Len(MOTicks)
           MOs == {e \in Events : e.kind = "mo" /\ e.seq < seq + n}
           Good(s) == s \in Seq(MOs) /\ DueSorted(s)
           f == CHOOSE g : Inserts(g, n)
<1>1. n \in Nat /\ \A i \in 1..n : MOTicks[i] \in Nat
  BY ScheduleConfig
<1>2. Inserts(f, n)
  BY <1>1, InsertsExist
<1>3. ScheduledMOs = f[n]
  BY DEF ScheduledMOs, Inserts
<1> HIDE DEF f
<1>4. f[0] = pending /\ \A i \in 1..n : f[i] = Inserted(f[i - 1], MOEvent(i))
  BY <1>1, <1>2 DEF Inserts
<1>5. \A i \in 1..n : MOEvent(i) \in MOs
  BY <1>1 DEF MOEvent, Events
<1>6. \A x \in MOs : x.due \in Nat
  BY DEF Events
<1>7. Good(f[n])
  <2> DEFINE T == {m \in 0..n : ~Good(f[m])}
  <2> SUFFICES ASSUME T # {} PROVE FALSE
    BY <1>1
  <2>1. T \subseteq Nat
    BY <1>1
  <2>2. PICK m \in T : \A j \in T : m <= j
    BY <2>1, LeastNatural
  <2>3. m \in 0..n /\ ~Good(f[m])
    BY <2>2
  <2>4. Good(pending)
    <3>1. <<>> \in Seq(MOs) /\ Len(<<>>) = 0
      OBVIOUS
    <3> QED BY <3>1 DEF DueSorted
  <2>5. m # 0
    BY <2>3, <2>4, <1>4
  <2>6. m - 1 \in 0..n /\ m - 1 \notin T /\ m \in 1..n
    BY <1>1, <2>2, <2>3, <2>5
  <2>7. Good(f[m - 1])
    BY <2>6
  <2> HIDE DEF MOs
  <2>8. Good(Inserted(f[m - 1], MOEvent(m)))
    BY <2>6, <2>7, <1>5, <1>6, InsertedEvents
  <2> QED BY <2>3, <2>6, <2>8, <1>4
<1>8. ASSUME NEW s \in Seq(MOs) PROVE s \in Seq(Events) /\ \A k \in 1..Len(s) : s[k].kind = "mo" /\ s[k].seq < seq + n
  <2>1. Len(s) \in Nat /\ s \in [1..Len(s) -> MOs]
    OBVIOUS
  <2>2. s \in [1..Len(s) -> Events] /\ \A k \in 1..Len(s) : s[k].kind = "mo" /\ s[k].seq < seq + n
    BY <2>1
  <2> QED BY <2>1, <2>2
<1> QED BY <1>3, <1>7, <1>8
-----------------------------------------------------------------------------
(***************************************************************************)
(* The invariant, in five parts: what the reader's data are, where the     *)
(* reader can be in each state of the bind, what is due, the profile in    *)
(* force, and the cuts to come.                                            *)
(***************************************************************************)
TransitionList == SortedByTick(Transitions)
DisconnectList == SortedByTick(Disconnects)
Submitting == {"latency", "commit", "record"}
Leaving == {"teardown"} \cup Closing

ReaderTypes ==
  /\ perBindClock \in Nat /\ seq \in Nat
  /\ pending \in Seq(Events) /\ todo \in Seq(Steps)
  /\ transitionCursor \in 0..Len(Transitions) /\ disconnectCursor \in 0..Len(Disconnects)
  /\ profile \in DOMAIN DecisionsOf
  /\ rpc \in Submitting => decision \in DecisionsOf[profile]

\* A bind that is not bound yet has no clock and no events, and one that closed reads no more.
Phases ==
  /\ rpc \notin {"do", "select"} => todo = <<>>
  /\ rpc = "select" => todo # <<>> /\ Head(todo).op \in {"send", "mo", "receipt"}
  /\ state \in {"open", "bound", "closed"}
  /\ state = "closed" <=> closeReason # "unset"
  /\ state = "closed" => rpc \in {"do", "select"} \cup Leaving
  /\ rpc \in {"incBind", "storeBound"} \cup Submitting => state = "bound"
  /\ state = "open" \/ rpc \in {"incBind", "storeBound"} =>
       perBindClock = 0 /\ pending = <<>> /\ transitionCursor = 0
  /\ rpc = "record" => perBindClock > 0
  /\ closeReason = "idle_timeout" => pending = <<>> /\ rpc \in Leaving
  /\ closeReason = "shutdown" => todo = <<>>

\* The session is closed, or will be before its handler returns.
Closes == state = "closed" \/ \E i \in 1..Len(todo) : todo[i].op = "close"
CutComing == \E i \in 1..Len(todo) : todo[i].op = "cut"

DueInv ==
  /\ DueSorted(pending)
  /\ perBindClock > 0 /\ rpc # "record" /\ ~Closes =>
       \A i \in 1..Len(pending) : pending[i].due > perBindClock

\* The tick the profile in force belongs to: the next one from Evaluate to Commit.
ProfileTick == IF rpc \in {"latency", "commit"} THEN perBindClock + 1 ELSE perBindClock

Applied(cursor, tick) ==
  IF tick = 0 THEN cursor = 0
  ELSE \A k \in 1..Len(Transitions) : k <= cursor <=> TransitionList[k].at <= tick

ProfileInv ==
  /\ profile = IF transitionCursor = 0 THEN InitialProfile ELSE TransitionList[transitionCursor].to
  /\ closeReason = "shutdown" \/ Applied(transitionCursor, ProfileTick)

Surely(d) == d.scope = "all" \/ (d.scope = "random" /\ d.at \in RandomHits)
FirstSubmit(d) == IF d.at = 0 THEN 1 ELSE d.at
\* An entry that may target this bind is at the clock.
CutNow == \E i \in DOMAIN Disconnects : /\ FirstSubmit(Disconnects[i]) = perBindClock
                                        /\ Surely(Disconnects[i]) \/ Disconnects[i].scope = "oldest"

CutInv ==
  /\ \A k \in 1..Len(Disconnects) : k > disconnectCursor =>
       /\ perBindClock <= FirstSubmit(DisconnectList[k])
       /\ perBindClock > 0 /\ rpc # "record" /\ ~Closes /\ ~CutComing => DisconnectList[k].at > perBindClock
  /\ \A k \in 1..Len(Disconnects) : k <= disconnectCursor /\ Surely(DisconnectList[k]) => state = "closed"
  /\ closeReason = "scheduled_disconnect" => CutNow
  /\ \A i \in 1..Len(todo) : todo[i] = Close("scheduled_disconnect") => CutNow
  /\ CutComing => perBindClock > 0

BindScheduleInv == ReaderTypes /\ Phases /\ DueInv /\ ProfileInv /\ CutInv
\* The configured lists as the session keeps them: entries of the same type, by tick.
LEMMA ConfiguredLists ==
  /\ TransitionList \in Seq([at : Nat, to : DOMAIN DecisionsOf]) /\ Len(TransitionList) = Len(Transitions)
  /\ Len(Transitions) \in Nat /\ Len(Disconnects) \in Nat /\ Len(DisconnectList) = Len(Disconnects)
  /\ \A k \in 1..Len(Transitions) : TransitionList[k].at \in Nat /\ TransitionList[k].to \in DOMAIN DecisionsOf
  /\ \A k \in 1..Len(Disconnects) : DisconnectList[k].at \in Nat
  /\ \A k, m \in 1..Len(Transitions) : k <= m => TransitionList[k].at <= TransitionList[m].at
  /\ \A k, m \in 1..Len(Disconnects) : k <= m => DisconnectList[k].at <= DisconnectList[m].at
  /\ \A k \in 1..Len(Disconnects) : \E i \in 1..Len(Disconnects) : DisconnectList[k] = Disconnects[i]
  /\ \A i \in 1..Len(Disconnects) : \E k \in 1..Len(Disconnects) : DisconnectList[k] = Disconnects[i]
<1> DEFINE S1 == [at : Nat, to : DOMAIN DecisionsOf]
           S2 == [at : Nat, when : {"before", "after"}, scope : {"all", "oldest", "random"}]
<1>1. Transitions \in Seq(S1) /\ Disconnects \in Seq(S2)
  BY ScheduleConfig
<1>2. (\A x \in S1 : x.at \in Int /\ x.at \in Nat /\ x.to \in DOMAIN DecisionsOf) /\ (\A x \in S2 : x.at \in Int /\ x.at \in Nat)
  OBVIOUS
<1> HIDE DEF S1, S2
<1>3. /\ TransitionList \in Seq(S1) /\ Len(TransitionList) = Len(Transitions)
      /\ \A k, m \in 1..Len(Transitions) : k <= m => TransitionList[k].at <= TransitionList[m].at
  BY <1>1, <1>2, SortedEntries DEF TransitionList
<1>4. /\ DisconnectList \in Seq(S2) /\ Len(DisconnectList) = Len(Disconnects)
      /\ \A k \in 1..Len(Disconnects) : \E i \in 1..Len(Disconnects) : DisconnectList[k] = Disconnects[i]
      /\ \A i \in 1..Len(Disconnects) : \E k \in 1..Len(Disconnects) : DisconnectList[k] = Disconnects[i]
      /\ \A k, m \in 1..Len(Disconnects) : k <= m => DisconnectList[k].at <= DisconnectList[m].at
  BY <1>1, <1>2, SortedEntries DEF DisconnectList
<1>5. \A k \in 1..Len(Transitions) : TransitionList[k].at \in Nat /\ TransitionList[k].to \in DOMAIN DecisionsOf
  <2>1. \A k \in 1..Len(Transitions) : TransitionList[k] \in S1
    BY <1>3
  <2> QED BY <2>1, <1>2
<1>6. \A k \in 1..Len(Disconnects) : DisconnectList[k].at \in Nat
  <2>1. \A k \in 1..Len(Disconnects) : DisconnectList[k] \in S2
    BY <1>4
  <2> QED BY <2>1, <1>2
<1>7. Len(Transitions) \in Nat /\ Len(Disconnects) \in Nat
  BY <1>1
<1> QED BY <1>3, <1>4, <1>5, <1>6, <1>7 DEF S1

\* newSession: no schedule, no clock, nothing to do.
LEMMA BindScheduleInit == Init => BindScheduleInv
<1> SUFFICES ASSUME Init PROVE BindScheduleInv
  OBVIOUS
<1>1. <<>> \in Seq(Events) /\ <<>> \in Seq(Steps) /\ Len(<<>>) = 0
  OBVIOUS
<1>2. ReaderTypes
  BY <1>1, ConfiguredLists, ScheduleConfig DEF Init, ReaderTypes, Submitting
<1>3. Phases
  BY DEF Init, Phases, Submitting, Leaving
<1>4. DueInv
  BY <1>1 DEF Init, DueInv, DueSorted
<1>5. ProfileInv
  BY DEF Init, ProfileInv, Applied, ProfileTick
<1>6. CutInv
  <2>1. perBindClock = 0 /\ disconnectCursor = 0 /\ todo = <<>> /\ closeReason = "unset"
    BY DEF Init
  <2>2. ASSUME NEW k \in 1..Len(Disconnects) PROVE 0 <= FirstSubmit(DisconnectList[k])
    <3>1. DisconnectList[k].at \in Nat
      BY ConfiguredLists
    <3> QED BY <3>1 DEF FirstSubmit
  <2>3. ~CutComing
    BY <1>1, <2>1 DEF CutComing
  <2> QED BY <1>1, <2>1, <2>2, <2>3, ConfiguredLists DEF CutInv
<1> QED BY <1>2, <1>3, <1>4, <1>5, <1>6 DEF BindScheduleInv

\* What each part depends on: a step that leaves these alone and moves the reader between
\* points the part does not tell apart keeps the part.
LEMMA PartsDependOn ==
  ASSUME UNCHANGED <<perBindClock, pending, todo, state, closeReason, profile, transitionCursor, disconnectCursor>>
  PROVE  /\ DueInv /\ (rpc # "record" \/ rpc' = "record") => DueInv'
         /\ ProfileInv /\ ProfileTick' = ProfileTick => ProfileInv'
         /\ CutInv /\ (rpc # "record" \/ rpc' = "record") => CutInv'
<1>1. /\ TransitionList' = TransitionList /\ DisconnectList' = DisconnectList
      /\ (Closes' <=> Closes) /\ (CutComing' <=> CutComing) /\ (CutNow' <=> CutNow)
      /\ DueSorted(pending') = DueSorted(pending)
  BY DEF TransitionList, DisconnectList, Closes, CutComing, CutNow, FirstSubmit, Surely
<1>2. DueInv /\ (rpc # "record" \/ rpc' = "record") => DueInv'
  BY <1>1 DEF DueInv
<1>3. ProfileInv /\ ProfileTick' = ProfileTick => ProfileInv'
  BY <1>1 DEF ProfileInv, Applied
<1>4. CutInv /\ (rpc # "record" \/ rpc' = "record") => CutInv'
  BY <1>1 DEF CutInv, FirstSubmit, Surely, Close
<1> QED BY <1>2, <1>3, <1>4
\* The program points of the read loop and of a frame.
LoopPCs == {"arm", "checkQuit", "read", "gotByte", "extended", "midFrame"}
LoopReasons == {"shutdown", "idle_timeout", "client_eof", "read_error", "partial_frame_timeout", "protocol_error"}

\* readLoop: a step goes on, or flushes the schedule, or closes the session; it reaps the bind
\* for idleness only with an empty schedule.
LEMMA LoopEffect ==
  ASSUME LoopStep
  PROVE  /\ UNCHANGED <<perBindClock, seq, decision, profile, transitionCursor, disconnectCursor>>
         /\ rpc \in LoopPCs
         /\ \/ rpc' \in LoopPCs \cup {"handle"} /\ UNCHANGED <<todo, pending, state, closeReason>>
            \/ rpc' = "do" /\ todo' = Emit(pending) /\ pending' = <<>> /\ UNCHANGED <<state, closeReason>>
            \/ /\ state' = "closed" /\ closeReason' \in LoopReasons /\ pending' = pending
               /\ \/ rpc' = "teardown" /\ todo' = todo
                  \/ rpc' = "do" /\ todo' \in {<<>>, <<Send(PDU("nack", 0))>>}
               /\ closeReason' = "shutdown" => todo' \in {todo, <<>>}
               /\ closeReason' = "idle_timeout" => pending = <<>> /\ rpc' = "teardown"
<1>1. UNCHANGED <<perBindClock, seq, decision, profile, transitionCursor, disconnectCursor>> /\ rpc \in LoopPCs
  BY DEF LoopStep, LoopPCs, ArmReadDeadline, CheckQuit, ReadTimeout, FirstByte, ExtendDeadline, RecheckQuit,
     FrameComplete, FrameTimeout, ReadFault, LoopUnchanged
<1>2. CASE ArmReadDeadline \/ FirstByte \/ ExtendDeadline \/ RecheckQuit \/ FrameComplete
  BY <1>1, <1>2 DEF LoopPCs, ArmReadDeadline, FirstByte, ExtendDeadline, RecheckQuit, FrameComplete
<1>3. CASE CheckQuit \/ ReadTimeout \/ FrameTimeout
  BY <1>1, <1>3 DEF LoopPCs, LoopReasons, CheckQuit, ReadTimeout, FrameTimeout, ReadFailure, CloseWith
<1>4. CASE \E f \in ReadFaults : ReadFault(f)
  BY <1>1, <1>4 DEF LoopReasons, ReadFault, ReadFailure, CloseWith
<1> QED BY <1>2, <1>3, <1>4 DEF LoopStep

\* The read loop keeps the invariant: what it flushes leaves the schedule empty.
LEMMA LoopKeepsSchedule ==
  ASSUME BindScheduleInv, LoopStep
  PROVE  BindScheduleInv'
<1>0. ReaderTypes /\ Phases /\ DueInv /\ ProfileInv /\ CutInv
  BY DEF BindScheduleInv
<1>1. /\ UNCHANGED <<perBindClock, seq, decision, profile, transitionCursor, disconnectCursor>>
      /\ rpc \in LoopPCs /\ ProfileTick' = ProfileTick
  BY LoopEffect DEF LoopPCs, ProfileTick
<1>2. todo = <<>> /\ state # "closed" /\ closeReason = "unset"
  BY <1>0, <1>1 DEF Phases, LoopPCs, Leaving
<1>3. CASE rpc' \in LoopPCs \cup {"handle"} /\ UNCHANGED <<todo, pending, state, closeReason>>
  <2>1. ReaderTypes' /\ Phases'
    BY <1>0, <1>1, <1>2, <1>3 DEF ReaderTypes, Phases, LoopPCs, Submitting, Leaving
  <2>2. DueInv' /\ ProfileInv' /\ CutInv'
    BY <1>0, <1>1, <1>3, PartsDependOn DEF LoopPCs
  <2> QED BY <2>1, <2>2 DEF BindScheduleInv
<1>4. CASE rpc' = "do" /\ todo' = Emit(pending) /\ pending' = <<>> /\ UNCHANGED <<state, closeReason>>
  <2>1. /\ todo' \in Seq(Steps) /\ pending' \in Seq(Events) /\ Len(pending') = 0
        /\ \A i \in 1..Len(todo') : todo'[i].op \in {"receipt", "mo"}
    BY <1>0, <1>4, EmittedSteps DEF ReaderTypes
  <2>2. ReaderTypes'
    BY <1>0, <1>1, <1>4, <2>1 DEF ReaderTypes, Submitting
  <2>3. Phases'
    BY <1>0, <1>1, <1>2, <1>4 DEF Phases, LoopPCs, Submitting, Leaving
  <2>4. DueInv'
    BY <2>1 DEF DueInv, DueSorted
  <2>5. ProfileInv'
    BY <1>0, <1>1, <1>4 DEF ProfileInv, Applied, TransitionList
  <2>6. CutInv'
    <3>1. ~Closes /\ ~CutComing /\ rpc # "record"
      BY <1>1, <1>2 DEF Closes, CutComing, LoopPCs
    <3>2. \A i \in 1..Len(todo') : todo'[i] # Close("scheduled_disconnect")
      BY <2>1 DEF Close
    <3>3. ~CutComing'
      BY <2>1 DEF CutComing
    <3> QED BY <1>0, <1>1, <1>2, <1>4, <3>1, <3>2, <3>3 DEF CutInv, DisconnectList, FirstSubmit, Surely
  <2> QED BY <2>2, <2>3, <2>4, <2>5, <2>6 DEF BindScheduleInv
<1>5. CASE /\ state' = "closed" /\ closeReason' \in LoopReasons /\ pending' = pending
           /\ \/ rpc' = "teardown" /\ todo' = todo
              \/ rpc' = "do" /\ todo' \in {<<>>, <<Send(PDU("nack", 0))>>}
           /\ closeReason' = "shutdown" => todo' \in {todo, <<>>}
           /\ closeReason' = "idle_timeout" => pending = <<>> /\ rpc' = "teardown"
  <2>1. /\ todo' \in Seq(Steps)
        /\ \A i \in 1..Len(todo') : todo'[i].op = "send"
    <3>1. Send(PDU("nack", 0)) \in Steps /\ Send(PDU("nack", 0)).op = "send"
      BY StepsOfHandlers DEF Send
    <3>2. CASE todo' = <<>>
      BY <3>2
    <3>3. CASE todo' = <<Send(PDU("nack", 0))>>
      BY <3>1, <3>3
    <3> QED BY <1>2, <1>5, <3>2, <3>3
  <2>2. ReaderTypes'
    BY <1>0, <1>1, <1>5, <2>1 DEF ReaderTypes, Submitting
  <2>3. Phases'
    BY <1>0, <1>1, <1>2, <1>5 DEF Phases, LoopPCs, LoopReasons, Submitting, Leaving
  <2>4. DueInv'
    BY <1>0, <1>5 DEF DueInv, Closes
  <2>5. ProfileInv'
    <3>1. ProfileTick' = ProfileTick
      BY <1>1
    <3> QED BY <1>0, <1>1, <1>2, <3>1 DEF ProfileInv, Applied, TransitionList
  <2>6. CutInv'
    <3>1. \A i \in 1..Len(todo') : todo'[i] # Close("scheduled_disconnect")
      BY <2>1 DEF Close
    <3>2. closeReason' # "scheduled_disconnect" /\ Closes'
      BY <1>5 DEF LoopReasons, Closes
    <3>3. ~CutComing'
      BY <2>1 DEF CutComing
    <3> QED BY <1>0, <1>1, <1>5, <3>1, <3>2, <3>3 DEF CutInv, DisconnectList, FirstSubmit, Surely
  <2> QED BY <2>2, <2>3, <2>4, <2>5, <2>6 DEF BindScheduleInv
<1> QED BY <1>3, <1>4, <1>5, LoopEffect
-----------------------------------------------------------------------------
(***************************************************************************)
(* The handlers. Up to Answer they have nothing left to send and nothing   *)
(* is closed, so whatever they decide starts from a schedule in which      *)
(* nothing is due.                                                         *)
(***************************************************************************)
HandlerPCs == {"handle", "incBind", "storeBound", "latency", "commit"}

\* Before it answers, a handler has sent nothing and the session is open.
LEMMA HandlerStarts ==
  ASSUME BindScheduleInv, rpc \in HandlerPCs
  PROVE  /\ todo = <<>> /\ state # "closed" /\ closeReason = "unset" /\ ~Closes /\ ~CutComing
         /\ perBindClock > 0 => \A i \in 1..Len(pending) : pending[i].due > perBindClock
         /\ perBindClock > 0 =>
              \A k \in 1..Len(Disconnects) : k > disconnectCursor => DisconnectList[k].at > perBindClock
<1>1. todo = <<>> /\ state # "closed" /\ closeReason = "unset"
  BY DEF BindScheduleInv, Phases, HandlerPCs, Leaving
<1>2. ~Closes /\ ~CutComing
  BY <1>1 DEF Closes, CutComing
<1> QED BY <1>1, <1>2 DEF BindScheduleInv, DueInv, CutInv, HandlerPCs

\* A handler that only answers keeps the invariant.
LEMMA ReplyKeeps ==
  ASSUME BindScheduleInv, rpc \in HandlerPCs, rpc' = "do", ProfileTick' = ProfileTick,
         UNCHANGED <<perBindClock, seq, decision, profile, transitionCursor, disconnectCursor, pending,
                     state, closeReason>>,
         todo' \in Seq(Steps),
         \A i \in 1..Len(todo') : todo'[i] # Close("scheduled_disconnect") /\ todo'[i].op # "cut",
         rpc # "incBind" /\ rpc # "storeBound"
  PROVE  BindScheduleInv'
<1>0. ReaderTypes /\ Phases /\ DueInv /\ ProfileInv /\ CutInv
  BY DEF BindScheduleInv
<1>1. ReaderTypes'
  BY <1>0 DEF ReaderTypes, Submitting
<1>2. Phases'
  BY <1>0, HandlerStarts DEF Phases, Submitting, Leaving
<1>3. DueInv'
  BY <1>0, HandlerStarts DEF DueInv
<1>4. ProfileInv'
  BY <1>0 DEF ProfileInv, Applied, TransitionList
<1>5. CutInv'
  <2>1. DisconnectList' = DisconnectList /\ closeReason' # "scheduled_disconnect"
    BY HandlerStarts DEF DisconnectList
  <2>2. \A i \in 1..Len(todo') : todo'[i] # Close("scheduled_disconnect")'
    BY DEF Close
  <2>3. ~CutComing'
    BY DEF CutComing
  <2> QED BY <1>0, <2>1, <2>2, <2>3, HandlerStarts DEF CutInv, FirstSubmit, Surely
<1> QED BY <1>1, <1>2, <1>3, <1>4, <1>5 DEF BindScheduleInv

\* handle, handleBind refused, handleSubmit refused: one or two steps, none of them a cut.
LEMMA AnswersKeep ==
  ASSUME BindScheduleInv, HandleOther \/ RefuseBind \/ RefuseSubmit
  PROVE  BindScheduleInv'
<1>1. /\ rpc = "handle" /\ rpc' = "do"
      /\ UNCHANGED <<perBindClock, seq, decision, profile, transitionCursor, disconnectCursor, pending,
                     state, closeReason>>
  BY DEF HandleOther, RefuseBind, RefuseSubmit, Reply, Then
<1>2. \/ todo' = <<>>
      \/ \E k \in {"nack", "answer", "unbind_resp", "bind_fail", "bind_ok", "submit_fail"} :
           \/ todo' = <<Send(PDU(k, 0))>>
           \/ \E r \in {"client_unbind", "bind_rejected", "auth_failed"} : todo' = <<Send(PDU(k, 0)), Close(r)>>
  BY DEF HandleOther, RefuseBind, RefuseSubmit, Reply, Then
<1>3. /\ todo' \in Seq(Steps)
      /\ \A i \in 1..Len(todo') : todo'[i] # Close("scheduled_disconnect") /\ todo'[i].op # "cut"
  <2>1. CASE todo' = <<>>
    BY <2>1
  <2>2. ASSUME NEW k \in {"nack", "answer", "unbind_resp", "bind_fail", "bind_ok", "submit_fail"},
               NEW r \in {"client_unbind", "bind_rejected", "auth_failed"}
        PROVE  /\ Send(PDU(k, 0)) \in Steps /\ Send(PDU(k, 0)) # Close("scheduled_disconnect")
               /\ Close(r) \in Steps /\ Close(r) # Close("scheduled_disconnect")
               /\ Send(PDU(k, 0)).op # "cut" /\ Close(r).op # "cut"
    <3>1. Send(PDU(k, 0)) \in Steps /\ Close(r) \in Steps
      BY StepsOfHandlers DEF HandlerReasons
    <3>2. /\ Send(PDU(k, 0)).op # Close("scheduled_disconnect").op /\ Close(r).arg # Close("scheduled_disconnect").arg
          /\ Send(PDU(k, 0)).op # "cut" /\ Close(r).op # "cut"
      BY DEF Send, Close
    <3> QED BY <3>1, <3>2
  <2>3. CASE \E k \in {"nack", "answer", "unbind_resp", "bind_fail", "bind_ok", "submit_fail"} :
               todo' = <<Send(PDU(k, 0))>>
    <3>1. PICK k \in {"nack", "answer", "unbind_resp", "bind_fail", "bind_ok", "submit_fail"} :
            todo' = <<Send(PDU(k, 0))>>
      BY <2>3
    <3> QED BY <3>1, <2>2
  <2>4. CASE \E k \in {"nack", "answer", "unbind_resp", "bind_fail", "bind_ok", "submit_fail"} :
               \E r \in {"client_unbind", "bind_rejected", "auth_failed"} : todo' = <<Send(PDU(k, 0)), Close(r)>>
    <3>1. PICK k \in {"nack", "answer", "unbind_resp", "bind_fail", "bind_ok", "submit_fail"},
               r \in {"client_unbind", "bind_rejected", "auth_failed"} : todo' = <<Send(PDU(k, 0)), Close(r)>>
      BY <2>4
    <3> QED BY <3>1, <2>2
  <2> QED BY <1>2, <2>1, <2>3, <2>4
<1>4. ProfileTick' = ProfileTick
  BY <1>1 DEF ProfileTick
<1> QED BY <1>1, <1>3, <1>4, ReplyKeeps DEF HandlerPCs
\* handleBind, accepted: the bind starts with the initial profile, clock 0 and, once bound is
\* stored, the configured MOs.
LEMMA BindKeeps ==
  ASSUME BindScheduleInv, AcceptBind \/ IncBind \/ StoreBound
  PROVE  BindScheduleInv'
<1>0. ReaderTypes /\ Phases /\ DueInv /\ ProfileInv /\ CutInv
  BY DEF BindScheduleInv
<1>1. CASE AcceptBind
  <2>1. /\ rpc = "handle" /\ rpc' = "incBind" /\ state = "open" /\ state' = "bound" /\ profile' = InitialProfile
        /\ UNCHANGED <<perBindClock, seq, pending, todo, decision, transitionCursor, disconnectCursor, closeReason>>
    BY <1>1 DEF AcceptBind, HandlerUnchanged
  <2>2. /\ perBindClock = 0 /\ pending = <<>> /\ transitionCursor = 0 /\ todo = <<>> /\ closeReason = "unset"
    BY <1>0, <2>1, HandlerStarts DEF Phases, HandlerPCs
  <2>3. ReaderTypes'
    BY <1>0, <2>1, ScheduleConfig DEF ReaderTypes, Submitting
  <2>4. Phases'
    BY <1>0, <2>1, <2>2 DEF Phases, Submitting, Leaving
  <2>5. DueInv'
    BY <1>0, <2>1, <2>2 DEF DueInv
  <2>6. ProfileInv'
    BY <1>0, <2>1, <2>2 DEF ProfileInv, Applied, ProfileTick
  <2>7. CutInv'
    <3>1. ~CutComing'
      BY <2>1, <2>2 DEF CutComing
    <3> QED BY <1>0, <2>1, <2>2, <3>1 DEF CutInv, DisconnectList, FirstSubmit, Surely
  <2> QED BY <2>3, <2>4, <2>5, <2>6, <2>7 DEF BindScheduleInv
<1>2. CASE IncBind
  <2>1. /\ rpc = "incBind" /\ rpc' = "storeBound" /\ ProfileTick' = ProfileTick
        /\ UNCHANGED <<perBindClock, seq, pending, todo, decision, profile, transitionCursor, disconnectCursor,
                       state, closeReason>>
    BY <1>2 DEF IncBind, ProfileTick
  <2>2. ReaderTypes' /\ Phases'
    BY <1>0, <2>1 DEF ReaderTypes, Phases, Submitting, Leaving
  <2>3. DueInv' /\ ProfileInv' /\ CutInv'
    BY <1>0, <2>1, PartsDependOn
  <2> QED BY <2>2, <2>3 DEF BindScheduleInv
<1>3. CASE StoreBound
  <2>1. /\ rpc = "storeBound" /\ rpc' = "do" /\ pending' = ScheduledMOs /\ seq' = seq + Len(MOTicks)
        /\ todo' = <<Send(PDU("bind_ok", 0))>> /\ ProfileTick' = ProfileTick
        /\ UNCHANGED <<perBindClock, decision, profile, transitionCursor, disconnectCursor, state, closeReason>>
    BY <1>3 DEF StoreBound, Reply, Then, ProfileTick
  <2>2. /\ perBindClock = 0 /\ pending = <<>> /\ transitionCursor = 0 /\ closeReason = "unset" /\ state = "bound"
    BY <1>0, <2>1, HandlerStarts DEF Phases, HandlerPCs
  <2>3. /\ pending' \in Seq(Events) /\ DueSorted(pending') /\ seq' \in Nat
    BY <1>0, <2>1, <2>2, ScheduledMOEvents, ScheduleConfig DEF ReaderTypes
  <2>4. /\ todo' \in Seq(Steps)
        /\ \A i \in 1..Len(todo') : todo'[i] # Close("scheduled_disconnect") /\ todo'[i].op # "cut"
    <3>1. /\ Send(PDU("bind_ok", 0)) \in Steps /\ Send(PDU("bind_ok", 0)).op # Close("scheduled_disconnect").op
          /\ Send(PDU("bind_ok", 0)).op # "cut"
      BY StepsOfHandlers DEF Send, Close
    <3> QED BY <3>1, <2>1
  <2>5. ReaderTypes'
    BY <1>0, <2>1, <2>3, <2>4 DEF ReaderTypes, Submitting
  <2>6. Phases'
    BY <1>0, <2>1, <2>2 DEF Phases, Submitting, Leaving
  <2>7. DueInv'
    BY <2>1, <2>2, <2>3 DEF DueInv
  <2>8. ProfileInv'
    BY <1>0, <2>1 DEF ProfileInv, Applied, TransitionList
  <2>9. CutInv'
    <3>1. ~CutComing'
      BY <2>4 DEF CutComing
    <3> QED BY <1>0, <2>1, <2>2, <2>4, <3>1 DEF CutInv, DisconnectList, FirstSubmit, Surely, Close
  <2> QED BY <2>5, <2>6, <2>7, <2>8, <2>9 DEF BindScheduleInv
<1> QED BY <1>1, <1>2, <1>3

\* applyDueTransitions and Evaluate: the cursor goes past exactly the entries due at the next
\* tick, and the profile is that of the last of them.
LEMMA EvaluateKeeps ==
  ASSUME BindScheduleInv, Evaluate
  PROVE  BindScheduleInv'
<1>0. ReaderTypes /\ Phases /\ DueInv /\ ProfileInv /\ CutInv
  BY DEF BindScheduleInv
<1> DEFINE c == Advance(transitionCursor, TransitionList, perBindClock + 1)
<1>1. /\ rpc = "handle" /\ rpc' \in {"latency", "commit"} /\ state = "bound"
      /\ transitionCursor' = c
      /\ profile' = IF c > transitionCursor THEN TransitionList[c].to ELSE profile
      /\ decision' \in DecisionsOf[profile']
      /\ UNCHANGED <<perBindClock, seq, pending, todo, disconnectCursor, state, closeReason>>
  BY DEF Evaluate, TransitionList
<1>2. transitionCursor \in 0..Len(TransitionList) /\ Len(TransitionList) \in Nat /\ perBindClock \in Nat
  BY <1>0, ConfiguredLists DEF ReaderTypes
<1>3. /\ c \in transitionCursor..Len(TransitionList)
      /\ \A k \in (transitionCursor + 1)..c : TransitionList[k].at <= perBindClock + 1
      /\ c < Len(TransitionList) => ~(TransitionList[c + 1].at <= perBindClock + 1)
  BY <1>2, AdvanceStops
<1> HIDE DEF c
<1>4. closeReason = "unset" /\ todo = <<>>
  BY <1>1, HandlerStarts DEF HandlerPCs
<1>5. Applied(c, perBindClock + 1)
  <2>1. Applied(transitionCursor, perBindClock)
    BY <1>0, <1>1, <1>4 DEF ProfileInv, ProfileTick
  <2>2. ASSUME NEW k \in 1..Len(Transitions), k <= c PROVE TransitionList[k].at <= perBindClock + 1
    <3>1. CASE k <= transitionCursor
      <4>1. perBindClock # 0
        BY <2>1, <3>1, <1>2 DEF Applied
      <4>2. TransitionList[k].at <= perBindClock /\ TransitionList[k].at \in Nat
        BY <2>1, <3>1, <4>1, ConfiguredLists DEF Applied
      <4> QED BY <4>2, <1>2
    <3>2. CASE k > transitionCursor
      BY <2>2, <3>2, <1>2, <1>3
    <3> QED BY <3>1, <3>2, <1>2
  <2>3. ASSUME NEW k \in 1..Len(Transitions), k > c PROVE ~(TransitionList[k].at <= perBindClock + 1)
    <3>1. c + 1 \in 1..Len(Transitions) /\ c + 1 <= k
      BY <2>3, <1>2, <1>3, ConfiguredLists
    <3>2. /\ TransitionList[c + 1].at \in Nat /\ TransitionList[k].at \in Nat
          /\ TransitionList[c + 1].at <= TransitionList[k].at
      BY <3>1, ConfiguredLists
    <3>3. ~(TransitionList[c + 1].at <= perBindClock + 1)
      BY <3>1, <1>2, <1>3, ConfiguredLists
    <3> QED BY <3>2, <3>3, <1>2
  <2>4. c \in Nat /\ perBindClock + 1 # 0
    BY <1>2, <1>3
  <2>5. \A k \in 1..Len(Transitions) : k <= c <=> TransitionList[k].at <= perBindClock + 1
    BY <2>2, <2>3, <2>4
  <2> QED BY <2>4, <2>5 DEF Applied
<1>6. profile' = IF c = 0 THEN InitialProfile ELSE TransitionList[c].to
  BY <1>0, <1>1, <1>2, <1>3 DEF ProfileInv
<1>7. profile' \in DOMAIN DecisionsOf
  <2>1. c > transitionCursor => c \in 1..Len(Transitions)
    BY <1>2, <1>3, ConfiguredLists
  <2> QED BY <1>0, <1>1, <2>1, ConfiguredLists DEF ReaderTypes
<1>8. ReaderTypes'
  <2>1. c \in 0..Len(Transitions)
    BY <1>2, <1>3, ConfiguredLists
  <2> QED BY <1>0, <1>1, <1>7, <2>1 DEF ReaderTypes
<1>9. Phases'
  BY <1>0, <1>1, <1>4 DEF Phases, Submitting, Leaving
<1>10. DueInv'
  BY <1>0, <1>1 DEF DueInv, Closes
<1>11. ProfileInv'
  <2>1. ProfileTick' = perBindClock + 1 /\ TransitionList' = TransitionList
    BY <1>1 DEF ProfileTick, TransitionList
  <2> QED BY <1>1, <1>5, <1>6, <2>1 DEF ProfileInv, Applied
<1>12. CutInv'
  BY <1>0, <1>1, <1>4 DEF CutInv, Closes, CutComing, DisconnectList, FirstSubmit, Surely
<1> QED BY <1>8, <1>9, <1>10, <1>11, <1>12 DEF BindScheduleInv

\* serveLatency abandons the submit or lets it commit; a panic leaves everything as it is.
LEMMA LatencyKeeps ==
  ASSUME BindScheduleInv, ServeLatency \/ Panic
  PROVE  BindScheduleInv'
<1>0. ReaderTypes /\ Phases /\ DueInv /\ ProfileInv /\ CutInv
  BY DEF BindScheduleInv
<1>1. UNCHANGED <<perBindClock, seq, decision, profile, transitionCursor, disconnectCursor, pending, todo>>
  BY DEF ServeLatency, Panic, HandlerUnchanged
<1>2. CASE /\ rpc = "latency" /\ rpc' = "teardown" /\ state' = "closed" /\ closeReason' = "shutdown"
  <2>1. todo = <<>> /\ state # "closed"
    BY <1>2, HandlerStarts DEF HandlerPCs
  <2>2. ReaderTypes' /\ Phases'
    BY <1>0, <1>1, <1>2, <2>1 DEF ReaderTypes, Phases, Submitting, Leaving
  <2>3. DueInv'
    BY <1>0, <1>1, <1>2 DEF DueInv, Closes
  <2>4. ProfileInv'
    BY <1>0, <1>1, <1>2 DEF ProfileInv, TransitionList
  <2>5. CutInv'
    <3>1. ~CutComing'
      BY <1>1, <2>1 DEF CutComing
    <3> QED BY <1>0, <1>1, <1>2, <2>1, <3>1 DEF CutInv, Closes, DisconnectList, FirstSubmit, Surely
  <2> QED BY <2>2, <2>3, <2>4, <2>5 DEF BindScheduleInv
<1>3. CASE /\ \/ rpc = "latency" /\ rpc' = "commit"
              \/ rpc \in {"handle", "incBind"} /\ rpc' = "teardown"
           /\ UNCHANGED <<state, closeReason>>
  <2>1. ReaderTypes' /\ Phases'
    BY <1>0, <1>1, <1>3 DEF ReaderTypes, Phases, Submitting, Leaving
  <2>2. ProfileTick' = ProfileTick /\ rpc # "record"
    BY <1>1, <1>3 DEF ProfileTick
  <2>3. DueInv' /\ ProfileInv' /\ CutInv'
    BY <1>0, <1>1, <1>3, <2>2, PartsDependOn
  <2> QED BY <2>1, <2>3 DEF BindScheduleInv
<1> QED BY <1>2, <1>3 DEF ServeLatency, Panic, CloseWith

\* The clock advances: what was not due may be now, and the entries still ahead are at this
\* tick or later.
LEMMA CommitKeeps ==
  ASSUME BindScheduleInv, Commit
  PROVE  BindScheduleInv'
<1>0. ReaderTypes /\ Phases /\ DueInv /\ ProfileInv /\ CutInv
  BY DEF BindScheduleInv
<1>1. /\ rpc = "commit" /\ rpc' = "record" /\ perBindClock' = perBindClock + 1
      /\ UNCHANGED <<seq, decision, profile, transitionCursor, disconnectCursor, pending, todo, state, closeReason>>
  BY DEF Commit, HandlerUnchanged
<1>2. perBindClock \in Nat /\ todo = <<>> /\ closeReason = "unset"
  BY <1>0, <1>1, HandlerStarts DEF ReaderTypes, HandlerPCs
<1>3. ReaderTypes'
  BY <1>0, <1>1, <1>2 DEF ReaderTypes, Submitting
<1>4. Phases'
  BY <1>0, <1>1, <1>2 DEF Phases, Submitting, Leaving
<1>5. DueInv'
  BY <1>0, <1>1 DEF DueInv
<1>6. ProfileInv'
  BY <1>0, <1>1 DEF ProfileInv, ProfileTick, Applied, TransitionList
<1>7. CutInv'
  <2>1. ASSUME NEW k \in 1..Len(Disconnects), k > disconnectCursor
        PROVE  perBindClock + 1 <= FirstSubmit(DisconnectList[k])
    <3>1. DisconnectList[k].at \in Nat
      BY ConfiguredLists
    <3>2. perBindClock > 0 => DisconnectList[k].at > perBindClock
      BY <1>1, <2>1, HandlerStarts DEF HandlerPCs
    <3> QED BY <1>2, <3>1, <3>2 DEF FirstSubmit
  <2>2. perBindClock' > 0
    BY <1>1, <1>2
  <2> QED BY <1>0, <1>1, <1>2, <2>1, <2>2 DEF CutInv, DisconnectList, FirstSubmit, Surely
<1> QED BY <1>3, <1>4, <1>5, <1>6, <1>7 DEF BindScheduleInv
-----------------------------------------------------------------------------
(***************************************************************************)
(* Answer: the receipt is scheduled, what the tick made due leaves the     *)
(* schedule for the handler's steps, and a cut that is due is at its tick. *)
(***************************************************************************)
\* A disconnect that is due at a submit is due at its tick: earlier submits have consumed the
\* earlier ones.
LEMMA DueDisconnectIsNow ==
  ASSUME ReaderTypes, CutInv, perBindClock > 0, NEW d \in DueDisconnects, IsTarget(d)
  PROVE  CutNow
<1> DEFINE m == Advance(disconnectCursor, DisconnectList, perBindClock)
<1>1. /\ disconnectCursor \in 0..Len(DisconnectList) /\ Len(DisconnectList) \in Nat /\ perBindClock \in Nat
      /\ Len(DisconnectList) = Len(Disconnects)
  BY ConfiguredLists DEF ReaderTypes
<1>2. m \in disconnectCursor..Len(DisconnectList) /\ \A k \in (disconnectCursor + 1)..m : DisconnectList[k].at <= perBindClock
  BY <1>1, AdvanceStops
<1>3. PICK k \in (disconnectCursor + 1)..m : d = DisconnectList[k]
  BY DEF DueDisconnects, DisconnectList
<1> HIDE DEF m
<1>4. k \in 1..Len(Disconnects) /\ k > disconnectCursor /\ DisconnectList[k].at <= perBindClock
  BY <1>1, <1>2, <1>3
<1>5. DisconnectList[k].at \in Nat /\ perBindClock <= FirstSubmit(DisconnectList[k])
  BY <1>4, ConfiguredLists DEF CutInv
<1>6. FirstSubmit(d) = perBindClock
  BY <1>1, <1>3, <1>4, <1>5 DEF FirstSubmit
<1>7. PICK i \in 1..Len(Disconnects) : DisconnectList[k] = Disconnects[i]
  BY <1>4, ConfiguredLists
<1>8. i \in DOMAIN Disconnects
  BY ScheduleConfig
<1>9. Surely(d) \/ d.scope = "oldest"
  BY DEF IsTarget, Surely
<1> QED BY <1>3, <1>6, <1>7, <1>8, <1>9 DEF CutNow

\* Answer, by outcome.
LEMMA AnswerShape ==
  ASSUME Answer
  PROVE  /\ rpc = "record" /\ rpc' = "do"
         /\ UNCHANGED <<perBindClock, decision, profile, transitionCursor, disconnectCursor, state, closeReason,
                        canReceive>>
         /\ \/ /\ DueDisconnectBeforeResponse /\ UNCHANGED <<pending, seq>>
               /\ todo' = <<Close("scheduled_disconnect")>>
            \/ /\ UNCHANGED <<pending, seq>>
               /\ \/ todo' = <<>> \o <<Close("fault_injection")>>
                  \/ todo' = <<Send(PDU("resp", perBindClock))>> \o <<Close("fault_injection")>>
            \/ \E r \in {<<>>, <<Send(PDU("resp", perBindClock))>>, <<Hold(PDU("resp", perBindClock))>>} :
                 /\ HasReceipt => r # <<>>
                 /\ todo' = r \o Emit(SubSeq(ScheduleDLR, 1, DueCount(ScheduleDLR, perBindClock))) \o <<Cut>>
                 /\ pending' = SubSeq(ScheduleDLR, DueCount(ScheduleDLR, perBindClock) + 1, Len(ScheduleDLR))
                 /\ seq' = IF HasReceipt THEN seq + 1 ELSE seq
<1>1. /\ rpc = "record" /\ rpc' = "do"
      /\ UNCHANGED <<perBindClock, decision, profile, transitionCursor, disconnectCursor, state, closeReason,
                     canReceive>>
  BY DEF Answer, Then
<1>2. CASE DueDisconnectBeforeResponse /\ Then(<<Close("scheduled_disconnect")>>) /\ UNCHANGED scheduleVars
  BY <1>1, <1>2 DEF Then
<1>3. CASE /\ Then((IF decision.when = "after" THEN <<Send(PDU("resp", perBindClock))>> ELSE <<>>)
                   \o <<Close("fault_injection")>>)
           /\ UNCHANGED scheduleVars
  <2>1. CASE decision.when = "after"
    BY <1>1, <1>3, <2>1 DEF Then
  <2>2. CASE ~(decision.when = "after")
    BY <1>1, <1>3, <2>2 DEF Then
  <2> QED BY <2>1, <2>2
<1>4. CASE /\ Then((IF decision.outcome = "timeout" THEN <<>> ELSE Respond)
                   \o Emit(SubSeq(ScheduleDLR, 1, DueCount(ScheduleDLR, perBindClock))) \o <<Cut>>)
           /\ pending' = SubSeq(ScheduleDLR, DueCount(ScheduleDLR, perBindClock) + 1, Len(ScheduleDLR))
           /\ seq' = IF HasReceipt THEN seq + 1 ELSE seq
  <2> DEFINE r == IF decision.outcome = "timeout" THEN <<>> ELSE Respond
  <2>1. r \in {<<>>, <<Send(PDU("resp", perBindClock))>>, <<Hold(PDU("resp", perBindClock))>>}
    BY DEF Respond
  <2>2. ASSUME HasReceipt PROVE r # <<>>
    <3>1. decision.outcome # "timeout"
      BY <2>2 DEF HasReceipt
    <3>2. r = <<Send(PDU("resp", perBindClock))>> \/ r = <<Hold(PDU("resp", perBindClock))>>
      BY <3>1 DEF Respond
    <3> HIDE DEF r
    <3> QED BY <3>2
  <2>3. todo' = r \o Emit(SubSeq(ScheduleDLR, 1, DueCount(ScheduleDLR, perBindClock))) \o <<Cut>>
    BY <1>4 DEF Then
  <2> HIDE DEF r
  <2> QED BY <1>1, <1>4, <2>1, <2>2, <2>3
<1> QED BY <1>2, <1>3, <1>4 DEF Answer

\* The steps of an answered submit, by position: the answer if there is one, then what was
\* due, then the disconnect check.
LEMMA AnsweredSteps ==
  ASSUME NEW r \in Seq(Steps), NEW m \in Seq(Steps)
  PROVE  /\ r \o m \o <<Cut>> \in Seq(Steps) /\ Len(r \o m \o <<Cut>>) = Len(r) + Len(m) + 1
         /\ \A i \in 1..Len(r) : (r \o m \o <<Cut>>)[i] = r[i]
         /\ \A i \in 1..Len(m) : (r \o m \o <<Cut>>)[Len(r) + i] = m[i]
         /\ (r \o m \o <<Cut>>)[Len(r) + Len(m) + 1] = Cut
<1> DEFINE a == r \o m
           t == a \o <<Cut>>
<1>0. Len(r) \in Nat /\ Len(m) \in Nat /\ <<Cut>> \in Seq(Steps) /\ Len(<<Cut>>) = 1 /\ <<Cut>>[1] = Cut
  BY StepsOfHandlers
<1>1. /\ a \in Seq(Steps) /\ Len(a) = Len(r) + Len(m)
      /\ \A i \in 1..(Len(r) + Len(m)) : a[i] = IF i <= Len(r) THEN r[i] ELSE m[i - Len(r)]
  BY ConcatProperties
<1> HIDE DEF a
<1>2. /\ t \in Seq(Steps) /\ Len(t) = Len(a) + 1
      /\ \A i \in 1..(Len(a) + 1) : t[i] = IF i <= Len(a) THEN a[i] ELSE <<Cut>>[i - Len(a)]
  <2> DEFINE u == <<Cut>>
  <2>1. u \in Seq(Steps) /\ Len(u) = 1
    BY <1>0
  <2> HIDE DEF u
  <2>a. a \in Seq(Steps)
    BY <1>1
  <2>2. /\ a \o u \in Seq(Steps) /\ Len(a \o u) = Len(a) + Len(u)
        /\ \A i \in 1..(Len(a) + Len(u)) : (a \o u)[i] = IF i <= Len(a) THEN a[i] ELSE u[i - Len(a)]
    BY <2>a, <2>1, ConcatProperties
  <2> QED BY <2>1, <2>2 DEF u
<1> HIDE DEF t
<1>3. \A i \in 1..Len(r) : t[i] = r[i]
  BY <1>0, <1>1, <1>2
<1>4. ASSUME NEW i \in 1..Len(m) PROVE t[Len(r) + i] = m[i]
  <2>1. Len(r) + i \in 1..(Len(r) + Len(m)) /\ ~(Len(r) + i <= Len(r)) /\ (Len(r) + i) - Len(r) = i
    BY <1>0
  <2>2. a[Len(r) + i] = m[i]
    BY <1>1, <2>1
  <2>3. t[Len(r) + i] = a[Len(r) + i]
    BY <1>0, <1>1, <1>2, <2>1
  <2> QED BY <2>2, <2>3
<1>5. t[Len(r) + Len(m) + 1] = Cut
  <2>1. Len(a) + 1 \in 1..(Len(a) + 1) /\ ~(Len(a) + 1 <= Len(a)) /\ (Len(a) + 1) - Len(a) = 1
    BY <1>0, <1>1
  <2> QED BY <1>0, <1>1, <1>2, <2>1
<1>6. r \o m \o <<Cut>> = t
  BY DEF a, t
<1> QED BY <1>0, <1>1, <1>2, <1>3, <1>4, <1>5, <1>6

\* scheduleDLR: at most one event more, this submit's receipt.
LEMMA ScheduledDLREvents ==
  ASSUME ReaderTypes, rpc = "record", DueSorted(pending)
  PROVE  /\ ScheduleDLR \in Seq(Events) /\ DueSorted(ScheduleDLR)
         /\ \A k \in 1..Len(ScheduleDLR) :
              \/ \E i \in 1..Len(pending) : ScheduleDLR[k] = pending[i]
              \/ /\ HasReceipt /\ ScheduleDLR[k].kind = "dlr" /\ ScheduleDLR[k].tick = perBindClock
                 /\ ScheduleDLR[k].seq = seq
<1>1. pending \in Seq(Events) /\ \A x \in Events : x.due \in Nat
  BY DEF ReaderTypes, Events
<1>2. CASE ~HasReceipt
  BY <1>1, <1>2 DEF ScheduleDLR
<1>3. CASE HasReceipt
  <2> DEFINE e == [due |-> perBindClock + decision.dlr, seq |-> seq, kind |-> "dlr", tick |-> perBindClock]
  <2>1. decision.dlr \in Nat
    <3>1. decision \in DecisionsOf[profile] /\ profile \in DOMAIN DecisionsOf
      BY DEF ReaderTypes, Submitting
    <3>2. decision \in Decision
      BY <3>1, ScheduleConfig
    <3>3. decision.dlr \in {NoDLR} \cup Nat
      BY <3>2 DEF Decision
    <3> QED BY <3>3, <1>3 DEF HasReceipt
  <2>2. perBindClock \in Nat /\ seq \in Nat
    BY DEF ReaderTypes
  <2>3. e \in Events /\ e.kind = "dlr" /\ e.tick = perBindClock /\ e.seq = seq
    BY <2>1, <2>2 DEF Events
  <2>4. ScheduleDLR = Inserted(pending, e)
    BY <1>3 DEF ScheduleDLR
  <2> HIDE DEF e
  <2>5. /\ Inserted(pending, e) \in Seq(Events) /\ Len(Inserted(pending, e)) = Len(pending) + 1
        /\ \A k \in 1..(Len(pending) + 1) :
             Inserted(pending, e)[k] = e \/ \E i \in 1..Len(pending) : Inserted(pending, e)[k] = pending[i]
        /\ DueSorted(Inserted(pending, e))
    BY <1>1, <2>3, InsertedEvents
  <2> QED BY <1>3, <2>3, <2>4, <2>5
<1> QED BY <1>2, <1>3
\* Two steps, one after the other.
LEMMA TwoSteps ==
  ASSUME NEW a \in Steps, NEW b \in Steps
  PROVE  /\ <<a>> \o <<b>> \in Seq(Steps) /\ Len(<<a>> \o <<b>>) = 2
         /\ (<<a>> \o <<b>>)[1] = a /\ (<<a>> \o <<b>>)[2] = b
<1> DEFINE s == <<a>>
           t == <<b>>
<1>1. s \in Seq(Steps) /\ Len(s) = 1 /\ s[1] = a /\ t \in Seq(Steps) /\ Len(t) = 1 /\ t[1] = b
  OBVIOUS
<1> HIDE DEF s, t
<1>2. /\ s \o t \in Seq(Steps) /\ Len(s \o t) = Len(s) + Len(t)
      /\ \A i \in 1..(Len(s) + Len(t)) : (s \o t)[i] = IF i <= Len(s) THEN s[i] ELSE t[i - Len(s)]
  BY <1>1, ConcatProperties
<1>3. (s \o t)[1] = a /\ (s \o t)[2] = b
  BY <1>1, <1>2
<1> QED BY <1>1, <1>2, <1>3 DEF s, t

\* Answer keeps the invariant, whatever the outcome: a submit that is answered, or deliberately
\* not, drains; one that is cut closes the session.
LEMMA AnswerKeeps ==
  ASSUME BindScheduleInv, Answer
  PROVE  BindScheduleInv'
<1>0. ReaderTypes /\ Phases /\ DueInv /\ ProfileInv /\ CutInv
  BY DEF BindScheduleInv
<1>1. /\ rpc = "record" /\ rpc' = "do" /\ ProfileTick' = ProfileTick
      /\ UNCHANGED <<perBindClock, decision, profile, transitionCursor, disconnectCursor, state, closeReason>>
  BY AnswerShape DEF ProfileTick
<1>2. state = "bound" /\ closeReason = "unset" /\ perBindClock > 0 /\ perBindClock \in Nat /\ seq \in Nat
  BY <1>0, <1>1 DEF Phases, ReaderTypes, Submitting
<1>3. PDU("resp", perBindClock) \in Replies /\ Send(PDU("resp", perBindClock)) \in Steps
      /\ Hold(PDU("resp", perBindClock)) \in Steps
  BY <1>2, StepsOfHandlers
<1>4. ProfileInv'
  BY <1>0, <1>1 DEF ProfileInv, Applied, TransitionList
<1>5. Phases'
  BY <1>0, <1>1, <1>2 DEF Phases, Submitting, Leaving
<1>6. CASE DueDisconnectBeforeResponse /\ UNCHANGED <<pending, seq>> /\ todo' = <<Close("scheduled_disconnect")>>
  <2>1. CutNow
    BY <1>0, <1>2, <1>6, DueDisconnectIsNow DEF DueDisconnectBeforeResponse
  <2>2. CutNow'
    BY <1>1, <2>1 DEF CutNow, FirstSubmit, Surely
  <2>3. todo' \in Seq(Steps) /\ Len(todo') = 1 /\ todo'[1].op = "close"
    <3>1. Close("scheduled_disconnect") \in Steps /\ Close("scheduled_disconnect").op = "close"
      BY StepsOfHandlers DEF HandlerReasons, Close
    <3> QED BY <1>6, <3>1
  <2>4. ReaderTypes'
    BY <1>0, <1>1, <1>6, <2>3 DEF ReaderTypes, Submitting
  <2>5. Closes'
    BY <2>3 DEF Closes
  <2>6. DueInv'
    BY <1>0, <1>6, <2>5 DEF DueInv
  <2>7. CutInv'
    BY <1>0, <1>1, <1>2, <2>2, <2>5 DEF CutInv, DisconnectList, FirstSubmit, Surely
  <2> QED BY <1>4, <1>5, <2>4, <2>6, <2>7 DEF BindScheduleInv
<1>7. CASE /\ UNCHANGED <<pending, seq>>
           /\ \/ todo' = <<>> \o <<Close("fault_injection")>>
              \/ todo' = <<Send(PDU("resp", perBindClock))>> \o <<Close("fault_injection")>>
  <2>1. /\ Close("fault_injection") \in Steps /\ Close("fault_injection").op = "close"
        /\ Close("fault_injection").arg # Close("scheduled_disconnect").arg
        /\ Send(PDU("resp", perBindClock)).op # Close("scheduled_disconnect").op
    BY StepsOfHandlers DEF HandlerReasons, Close, Send
  <2>2. /\ todo' \in Seq(Steps) /\ \A i \in 1..Len(todo') : todo'[i] # Close("scheduled_disconnect")
        /\ \E i \in 1..Len(todo') : todo'[i].op = "close"
    <3>1. CASE todo' = <<>> \o <<Close("fault_injection")>>
      <4>1. todo' = <<Close("fault_injection")>>
        BY <3>1
      <4>2. todo' \in Seq(Steps) /\ Len(todo') = 1 /\ todo'[1] = Close("fault_injection")
        BY <2>1, <4>1
      <4> QED BY <2>1, <4>2
    <3>2. CASE todo' = <<Send(PDU("resp", perBindClock))>> \o <<Close("fault_injection")>>
      <4>2. /\ todo' \in Seq(Steps) /\ Len(todo') = 2 /\ todo'[1] = Send(PDU("resp", perBindClock))
            /\ todo'[2] = Close("fault_injection")
        BY <1>3, <2>1, <3>2, TwoSteps
      <4> QED BY <2>1, <4>2
    <3> QED BY <1>7, <3>1, <3>2
  <2>3. ReaderTypes'
    BY <1>0, <1>1, <1>7, <2>2 DEF ReaderTypes, Submitting
  <2>4. Closes'
    BY <2>2 DEF Closes
  <2>5. DueInv'
    BY <1>0, <1>7, <2>4 DEF DueInv
  <2>6. CutInv'
    BY <1>0, <1>1, <1>2, <2>2, <2>4 DEF CutInv, DisconnectList, FirstSubmit, Surely, Close
  <2> QED BY <1>4, <1>5, <2>3, <2>5, <2>6 DEF BindScheduleInv
<1>8. CASE \E r \in {<<>>, <<Send(PDU("resp", perBindClock))>>, <<Hold(PDU("resp", perBindClock))>>} :
             /\ HasReceipt => r # <<>>
             /\ todo' = r \o Emit(SubSeq(ScheduleDLR, 1, DueCount(ScheduleDLR, perBindClock))) \o <<Cut>>
             /\ pending' = SubSeq(ScheduleDLR, DueCount(ScheduleDLR, perBindClock) + 1, Len(ScheduleDLR))
             /\ seq' = IF HasReceipt THEN seq + 1 ELSE seq
  <2> DEFINE E == ScheduleDLR
             n == DueCount(E, perBindClock)
             m == Emit(SubSeq(E, 1, n))
  <2>1. PICK r \in {<<>>, <<Send(PDU("resp", perBindClock))>>, <<Hold(PDU("resp", perBindClock))>>} :
          /\ todo' = r \o m \o <<Cut>>
          /\ pending' = SubSeq(E, n + 1, Len(E))
          /\ seq' = IF HasReceipt THEN seq + 1 ELSE seq
    BY <1>8
  <2>2. E \in Seq(Events) /\ DueSorted(E) /\ Len(E) \in Nat
    BY <1>0, <1>1, ScheduledDLREvents DEF DueInv
  <2>3. n \in 0..Len(E) /\ \A k \in 1..Len(E) : k > n => E[k].due > perBindClock
    <3>1. \A x \in Events : x.due \in Nat
      BY DEF Events
    <3> HIDE DEF E
    <3> QED BY <1>2, <2>2, <3>1, DrainSearchStops, DrainSplitsAtClock
  <2> HIDE DEF E, n
  <2>4. SubSeq(E, 1, n) \in Seq(Events)
    BY <2>2, <2>3, SubSeqProperties
  <2>5. m \in Seq(Steps) /\ \A i \in 1..Len(m) : m[i].op \in {"receipt", "mo"}
    BY <2>4, EmittedSteps
  <2>6. r \in Seq(Steps) /\ \A i \in 1..Len(r) : r[i].op \in {"send", "hold"}
    <3>1. Send(PDU("resp", perBindClock)).op = "send" /\ Hold(PDU("resp", perBindClock)).op = "hold"
      BY DEF Send, Hold
    <3>2. CASE r = <<>>
      BY <3>2
    <3>3. CASE r = <<Send(PDU("resp", perBindClock))>>
      BY <1>3, <3>1, <3>3
    <3>4. CASE r = <<Hold(PDU("resp", perBindClock))>>
      BY <1>3, <3>1, <3>4
    <3> QED BY <3>2, <3>3, <3>4
  <2> HIDE DEF m
  <2>7. /\ todo' \in Seq(Steps) /\ Len(todo') = Len(r) + Len(m) + 1
        /\ \A i \in 1..Len(r) : todo'[i] = r[i]
        /\ \A i \in 1..Len(m) : todo'[Len(r) + i] = m[i]
        /\ todo'[Len(r) + Len(m) + 1] = Cut
    BY <2>1, <2>5, <2>6, AnsweredSteps
  <2>8. ASSUME NEW i \in 1..Len(todo') PROVE todo'[i].op # "close"
    <3>0. Len(r) \in Nat /\ Len(m) \in Nat
      BY <2>5, <2>6
    <3>1. CASE i <= Len(r)
      <4>1. i \in 1..Len(r) /\ todo'[i] = r[i]
        BY <2>7, <3>0, <3>1
      <4> QED BY <4>1, <2>6
    <3>2. CASE i > Len(r) /\ i <= Len(r) + Len(m)
      <4>1. i - Len(r) \in 1..Len(m) /\ Len(r) + (i - Len(r)) = i
        BY <3>0, <3>2
      <4>2. todo'[i] = m[i - Len(r)]
        BY <2>7, <4>1
      <4> QED BY <4>1, <4>2, <2>5
    <3>3. CASE i = Len(r) + Len(m) + 1
      BY <2>7, <3>3 DEF Cut
    <3> QED BY <2>7, <3>0, <3>1, <3>2, <3>3
  <2>9. CutComing'
    <3>1. Len(r) + Len(m) + 1 \in 1..Len(todo')
      BY <2>5, <2>6, <2>7
    <3> QED BY <2>7, <3>1 DEF CutComing, Cut
  <2>10. /\ pending' \in Seq(Events) /\ Len(pending') = Len(E) - n
         /\ \A i \in 1..Len(pending') : pending'[i] = E[n + i] /\ n + i \in 1..Len(E)
    <3>1. /\ SubSeq(E, n + 1, Len(E)) \in Seq(Events) /\ Len(SubSeq(E, n + 1, Len(E))) = Len(E) - n
          /\ \A i \in 1..(Len(E) - n) : SubSeq(E, n + 1, Len(E))[i] = E[(n + 1) + i - 1]
      BY <2>2, <2>3, SubSeqProperties
    <3>2. \A i \in 1..(Len(E) - n) : (n + 1) + i - 1 = n + i /\ n + i \in 1..Len(E)
      BY <2>2, <2>3
    <3> QED BY <2>1, <3>1, <3>2
  <2>11. ReaderTypes'
    <3>1. seq' \in Nat
      BY <1>2, <2>1
    <3> QED BY <1>0, <1>1, <2>7, <2>10, <3>1 DEF ReaderTypes, Submitting
  <2>12. DueInv'
    <3>1. ASSUME NEW i \in 1..Len(pending') PROVE pending'[i].due > perBindClock
      <4>1. n + i \in 1..Len(E) /\ n + i > n /\ pending'[i] = E[n + i]
        BY <2>2, <2>3, <2>10
      <4> QED BY <4>1, <2>3
    <3>2. DueSorted(pending')
      <4> SUFFICES ASSUME NEW i \in 1..Len(pending'), NEW j \in 1..Len(pending'), i <= j
                   PROVE  pending'[i].due <= pending'[j].due
        BY DEF DueSorted
      <4>1. n + i \in 1..Len(E) /\ n + j \in 1..Len(E) /\ n + i <= n + j
        BY <2>2, <2>3, <2>10
      <4>2. E[n + i].due <= E[n + j].due
        BY <2>2, <4>1 DEF DueSorted
      <4> QED BY <2>10, <4>2
    <3> QED BY <1>1, <3>1, <3>2 DEF DueInv
  <2>13. CutInv'
    <3>1. \A i \in 1..Len(todo') : todo'[i] # Close("scheduled_disconnect")
      BY <2>8 DEF Close
    <3> QED BY <1>0, <1>1, <1>2, <2>9, <3>1 DEF CutInv, DisconnectList, FirstSubmit, Surely
  <2> QED BY <1>4, <1>5, <2>11, <2>12, <2>13 DEF BindScheduleInv
<1> QED BY <1>6, <1>7, <1>8, AnswerShape
-----------------------------------------------------------------------------
(***************************************************************************)
(* The handler's steps, one after the other.                               *)
(***************************************************************************)
\* What is left once the first step is done.
LEMMA NextStep ==
  ASSUME NEW s \in Seq(Steps), s # <<>>
  PROVE  /\ Head(s) \in Steps /\ Head(s) = s[1] /\ Len(s) \in Nat /\ Len(s) >= 1
         /\ Tail(s) \in Seq(Steps) /\ Len(Tail(s)) = Len(s) - 1
         /\ \A i \in 1..(Len(s) - 1) : Tail(s)[i] = s[i + 1] /\ i + 1 \in 1..Len(s)
         /\ \A i \in 1..Len(s) : i = 1 \/ (i - 1 \in 1..(Len(s) - 1) /\ Tail(s)[i - 1] = s[i])
<1>1. Len(s) \in Nat /\ Len(s) >= 1 /\ Head(s) = s[1] /\ Head(s) \in Steps
  OBVIOUS
<1>2. Tail(s) \in Seq(Steps) /\ Len(Tail(s)) = Len(s) - 1 /\ \A i \in 1..(Len(s) - 1) : Tail(s)[i] = s[i + 1]
  BY <1>1, HeadTailProperties
<1>3. \A i \in 1..(Len(s) - 1) : i + 1 \in 1..Len(s)
  BY <1>1
<1>4. ASSUME NEW i \in 1..Len(s), i # 1 PROVE i - 1 \in 1..(Len(s) - 1) /\ Tail(s)[i - 1] = s[i]
  <2>1. i - 1 \in 1..(Len(s) - 1) /\ (i - 1) + 1 = i
    BY <1>1, <1>4
  <2> QED BY <1>2, <2>1
<1> QED BY <1>1, <1>2, <1>3, <1>4

\* The steps that send or hold something back leave the schedule alone.
LEMMA SendingKeeps ==
  ASSUME BindScheduleInv, HandlerReturns \/ ReaderBeginSend \/ ReaderEndSend \/ DropMO \/ Spawn
  PROVE  BindScheduleInv'
<1>0. ReaderTypes /\ Phases /\ DueInv /\ ProfileInv /\ CutInv
  BY DEF BindScheduleInv
<1>1. UNCHANGED <<perBindClock, seq, pending, profile, transitionCursor, disconnectCursor, state, closeReason>>
  BY DEF HandlerReturns, ReaderBeginSend, ReaderEndSend, DropMO, Spawn, DoUnchanged, ReturnUnchanged
<1>2. CASE HandlerReturns \/ ReaderBeginSend
  <2>1. /\ rpc = "do" /\ todo' = todo
        /\ \/ todo = <<>> /\ rpc' = IF state = "closed" THEN "teardown" ELSE "arm"
           \/ todo # <<>> /\ Head(todo).op \in {"send", "mo", "receipt"} /\ rpc' = "select"
    BY <1>2 DEF HandlerReturns, ReaderBeginSend
  <2>2. ProfileTick' = ProfileTick
    BY <1>1, <2>1 DEF ProfileTick
  <2>3. DueInv' /\ ProfileInv' /\ CutInv'
    BY <1>0, <1>1, <2>1, <2>2, PartsDependOn
  <2>4. ReaderTypes'
    BY <1>0, <1>1, <2>1 DEF ReaderTypes, Submitting
  <2>5. Phases'
    BY <1>0, <1>1, <2>1 DEF Phases, Submitting, Leaving
  <2> QED BY <2>3, <2>4, <2>5 DEF BindScheduleInv
<1>3. CASE ReaderEndSend \/ DropMO \/ Spawn
  <2>1. /\ rpc \in {"do", "select"} /\ rpc' = "do" /\ todo # <<>> /\ todo' = Tail(todo)
        /\ Head(todo).op \in {"send", "hold", "mo", "receipt"}
    BY <1>0, <1>3 DEF ReaderEndSend, DropMO, Spawn, Phases
  <2>2. /\ Head(todo) = todo[1] /\ Len(todo) \in Nat /\ Len(todo) >= 1
        /\ todo' \in Seq(Steps) /\ Len(todo') = Len(todo) - 1
        /\ \A i \in 1..(Len(todo) - 1) : todo'[i] = todo[i + 1] /\ i + 1 \in 1..Len(todo)
        /\ \A i \in 1..Len(todo) : i = 1 \/ (i - 1 \in 1..(Len(todo) - 1) /\ todo'[i - 1] = todo[i])
    BY <1>0, <2>1, NextStep DEF ReaderTypes
  <2>3. (Closes' <=> Closes) /\ (CutComing' <=> CutComing)
    <3>1. ASSUME NEW x \in {"close", "cut"}, NEW i \in 1..Len(todo), todo[i].op = x
          PROVE  \E j \in 1..Len(todo') : todo'[j].op = x
      <4>1. i # 1
        BY <2>1, <2>2, <3>1
      <4>2. i - 1 \in 1..Len(todo') /\ todo'[i - 1] = todo[i]
        BY <2>2, <4>1
      <4> QED BY <3>1, <4>2
    <3>2. ASSUME NEW x \in {"close", "cut"}, NEW j \in 1..Len(todo'), todo'[j].op = x
          PROVE  \E i \in 1..Len(todo) : todo[i].op = x
      <4>1. j + 1 \in 1..Len(todo) /\ todo'[j] = todo[j + 1]
        BY <2>2
      <4> QED BY <3>2, <4>1
    <3> QED BY <1>1, <3>1, <3>2 DEF Closes, CutComing
  <2>4. ProfileTick' = ProfileTick /\ (CutNow' <=> CutNow) /\ DisconnectList' = DisconnectList
    BY <1>1, <2>1 DEF ProfileTick, CutNow, FirstSubmit, Surely, DisconnectList
  <2>5. ReaderTypes'
    BY <1>0, <1>1, <2>1, <2>2 DEF ReaderTypes, Submitting
  <2>6. Phases'
    BY <1>0, <1>1, <2>1 DEF Phases, Submitting, Leaving
  <2>7. DueInv'
    BY <1>0, <1>1, <2>1, <2>3 DEF DueInv
  <2>8. ProfileInv'
    BY <1>0, <1>1, <2>4 DEF ProfileInv, Applied, TransitionList
  <2>9. CutInv'
    <3>1. \A i \in 1..Len(todo') : todo'[i] = Close("scheduled_disconnect") => CutNow
      BY <1>0, <2>2 DEF CutInv
    <3> QED BY <1>0, <1>1, <2>1, <2>3, <2>4, <3>1 DEF CutInv, FirstSubmit, Surely, Close
  <2> QED BY <2>5, <2>6, <2>7, <2>8, <2>9 DEF BindScheduleInv
<1> QED BY <1>2, <1>3

\* closeWith and applyDueDisconnects: a close that is a scheduled cut happens at its tick, and
\* the cursor has then consumed everything due.
LEMMA ClosingKeeps ==
  ASSUME BindScheduleInv, ReaderCloses \/ ApplyDueDisconnects
  PROVE  BindScheduleInv'
<1>0. ReaderTypes /\ Phases /\ DueInv /\ ProfileInv /\ CutInv
  BY DEF BindScheduleInv
<1>1. /\ UNCHANGED <<perBindClock, seq, pending, profile, transitionCursor>> /\ rpc = "do" /\ rpc' = "do"
      /\ todo # <<>> /\ todo' = Tail(todo)
  BY DEF ReaderCloses, ApplyDueDisconnects, DoUnchanged, ReturnUnchanged
<1>2. /\ Head(todo) \in Steps /\ Head(todo) = todo[1] /\ Len(todo) \in Nat /\ Len(todo) >= 1
      /\ todo' \in Seq(Steps) /\ Len(todo') = Len(todo) - 1
      /\ \A i \in 1..(Len(todo) - 1) : todo'[i] = todo[i + 1] /\ i + 1 \in 1..Len(todo)
      /\ \A i \in 1..Len(todo) : i = 1 \/ (i - 1 \in 1..(Len(todo) - 1) /\ todo'[i - 1] = todo[i])
  BY <1>0, <1>1, NextStep DEF ReaderTypes
<1>3. ProfileTick' = ProfileTick /\ (CutNow' <=> CutNow) /\ DisconnectList' = DisconnectList
  BY <1>1 DEF ProfileTick, CutNow, FirstSubmit, Surely, DisconnectList
<1>4. \A i \in 1..Len(todo') : todo'[i] = Close("scheduled_disconnect") => CutNow
  BY <1>0, <1>2 DEF CutInv
<1>5. ProfileInv'
  <2>1. closeReason # "shutdown"
    BY <1>0, <1>1 DEF Phases
  <2> QED BY <1>0, <1>1, <1>3, <2>1 DEF ProfileInv, Applied, TransitionList
<1>8. CutComing' => perBindClock > 0
  BY <1>0, <1>2 DEF CutInv, CutComing
<1>6. CASE ReaderCloses
  <2>1. /\ Head(todo).op = "close" /\ state' = "closed" /\ closeReason' = Head(todo).arg
        /\ disconnectCursor' = disconnectCursor
    BY <1>6 DEF ReaderCloses, CloseWith
  <2>2. closeReason' \in HandlerReasons
    BY <1>2, <2>1, StepsByKind
  <2>3. ReaderTypes'
    BY <1>0, <1>1, <1>2, <2>1 DEF ReaderTypes, Submitting
  <2>4. Phases'
    BY <1>0, <1>1, <2>1, <2>2 DEF Phases, Submitting, Leaving, HandlerReasons
  <2>5. Closes'
    BY <2>1 DEF Closes
  <2>6. DueInv'
    BY <1>0, <1>1, <2>5 DEF DueInv
  <2>7. CutInv'
    <3>1. closeReason' = "scheduled_disconnect" => CutNow
      <4> SUFFICES ASSUME closeReason' = "scheduled_disconnect" PROVE CutNow
        OBVIOUS
      <4>1. Head(todo) = Close("scheduled_disconnect")
        BY <1>2, <2>1 DEF Steps, Close, Cut
      <4> QED BY <1>0, <1>2, <4>1 DEF CutInv
    <3> QED BY <1>0, <1>1, <1>3, <1>4, <1>8, <2>1, <2>5, <3>1 DEF CutInv, FirstSubmit, Surely, Close
  <2> QED BY <1>5, <2>3, <2>4, <2>6, <2>7 DEF BindScheduleInv
<1>7. CASE ApplyDueDisconnects
  <2> DEFINE m == Advance(disconnectCursor, DisconnectList, perBindClock)
  <2>1. /\ Head(todo).op = "cut" /\ disconnectCursor' = m
        /\ IF \E d \in DueDisconnects : IsTarget(d)
           THEN state' = "closed" /\ closeReason' = "scheduled_disconnect"
           ELSE UNCHANGED <<state, closeReason>>
    BY <1>7 DEF ApplyDueDisconnects, CloseWith, DisconnectList
  <2>2. /\ disconnectCursor \in 0..Len(DisconnectList) /\ Len(DisconnectList) \in Nat /\ perBindClock \in Nat
        /\ Len(DisconnectList) = Len(Disconnects)
    BY <1>0, ConfiguredLists DEF ReaderTypes
  <2>3. /\ m \in disconnectCursor..Len(DisconnectList)
        /\ m < Len(DisconnectList) => ~(DisconnectList[m + 1].at <= perBindClock)
    BY <2>2, AdvanceStops
  <2>4. DueDisconnects = {DisconnectList[k] : k \in (disconnectCursor + 1)..m}
    BY DEF DueDisconnects, DisconnectList
  <2> HIDE DEF m
  <2>5. perBindClock > 0
    BY <1>0, <1>2, <2>1 DEF CutInv, CutComing
  <2>6. ASSUME NEW k \in 1..Len(Disconnects), k > m PROVE DisconnectList[k].at > perBindClock /\ k > disconnectCursor
    <3>1. m + 1 \in 1..Len(Disconnects) /\ m + 1 <= k /\ k > disconnectCursor
      BY <2>2, <2>3, <2>6
    <3>2. /\ DisconnectList[m + 1].at \in Nat /\ DisconnectList[k].at \in Nat
          /\ DisconnectList[m + 1].at <= DisconnectList[k].at
      BY <3>1, ConfiguredLists
    <3>3. ~(DisconnectList[m + 1].at <= perBindClock)
      BY <2>2, <2>3, <3>1
    <3> QED BY <2>2, <3>1, <3>2, <3>3
  <2>7. ASSUME NEW k \in 1..Len(Disconnects), k <= m, Surely(DisconnectList[k]) PROVE state' = "closed"
    <3>1. CASE k <= disconnectCursor
      <4>1. state = "closed"
        BY <1>0, <2>7, <3>1 DEF CutInv
      <4> QED BY <2>1, <4>1
    <3>2. CASE k > disconnectCursor
      <4>1. k \in (disconnectCursor + 1)..m
        BY <2>2, <2>3, <2>7, <3>2
      <4>2. DisconnectList[k] \in DueDisconnects /\ IsTarget(DisconnectList[k])
        BY <2>4, <2>7, <4>1 DEF IsTarget, Surely
      <4> QED BY <2>1, <4>2
    <3> QED BY <2>2, <3>1, <3>2
  <2>8. closeReason' = "scheduled_disconnect" => CutNow
    <3>1. (\E d \in DueDisconnects : IsTarget(d)) => CutNow
      BY <1>0, <2>5, DueDisconnectIsNow
    <3> QED BY <1>0, <2>1, <3>1 DEF CutInv
  <2>9. ReaderTypes'
    <3>1. m \in 0..Len(Disconnects)
      BY <2>2, <2>3
    <3> QED BY <1>0, <1>1, <1>2, <2>1, <3>1 DEF ReaderTypes, Submitting
  <2>10. Phases'
    BY <1>0, <1>1, <2>1 DEF Phases, Submitting, Leaving
  <2>11. DueInv'
    <3>1. ~Closes' => ~Closes
      BY <1>2, <2>1 DEF Closes
    <3> QED BY <1>0, <1>1, <3>1 DEF DueInv
  <2>12. CutInv'
    <3>1. ASSUME NEW k \in 1..Len(Disconnects), k > m
          PROVE  perBindClock <= FirstSubmit(DisconnectList[k])
      BY <1>0, <2>6, <3>1 DEF CutInv
    <3>2. \A i \in 1..Len(todo') : todo'[i] = Close("scheduled_disconnect")' => CutNow
      BY <1>4 DEF Close
    <3> QED BY <1>1, <1>3, <1>8, <2>1, <2>6, <2>7, <2>8, <3>1, <3>2 DEF CutInv, FirstSubmit, Surely
  <2> QED BY <1>5, <2>9, <2>10, <2>11, <2>12 DEF BindScheduleInv
<1> QED BY <1>6, <1>7
\* The parts that do not look at the queue are kept by teardown, which only moves the reader on.
LEMMA TeardownKeepsSchedule ==
  ASSUME BindScheduleInv, TeardownStep
  PROVE  BindScheduleInv'
<1>0. ReaderTypes /\ Phases /\ DueInv /\ ProfileInv /\ CutInv
  BY DEF BindScheduleInv
<1>1. /\ UNCHANGED <<perBindClock, seq, pending, todo, decision, profile, transitionCursor, disconnectCursor,
                     state, closeReason>>
      /\ rpc \in Leaving /\ rpc' \in Leaving
  BY DEF TeardownStep, Teardown, JoinCloser, JoinDeferred, JoinWriter, Deregister, TeardownUnchanged, Leaving
<1>2. ProfileTick' = ProfileTick /\ rpc # "record"
  BY <1>1 DEF ProfileTick, Leaving
<1>3. ReaderTypes' /\ Phases'
  BY <1>0, <1>1 DEF ReaderTypes, Phases, Submitting, Leaving
<1>4. DueInv' /\ ProfileInv' /\ CutInv'
  BY <1>0, <1>1, <1>2, PartsDependOn
<1> QED BY <1>3, <1>4 DEF BindScheduleInv

\* Every step of the session keeps the invariant.
LEMMA BindScheduleNext == BindScheduleInv /\ [Next]_vars => BindScheduleInv'
<1> SUFFICES ASSUME BindScheduleInv, [Next]_vars PROVE BindScheduleInv'
  OBVIOUS
<1>1. CASE LoopStep
  BY <1>1, LoopKeepsSchedule
<1>2. CASE HandlerStep
  BY <1>2, AnswersKeep, BindKeeps, EvaluateKeeps, LatencyKeeps, CommitKeeps, AnswerKeeps DEF HandlerStep
<1>3. CASE SendStep
  BY <1>3, SendingKeeps, ClosingKeeps DEF SendStep
<1>4. CASE TeardownStep
  BY <1>4, TeardownKeepsSchedule
<1>5. CASE OtherStep \/ UNCHANGED vars
  <2>0. ReaderTypes /\ Phases /\ DueInv /\ ProfileInv /\ CutInv
    BY DEF BindScheduleInv
  <2>1. UNCHANGED <<rpc, perBindClock, seq, pending, todo, decision, profile, transitionCursor, disconnectCursor,
                    state, closeReason>>
    BY <1>5, OthersLeaveReaderAlone
  <2>2. ReaderTypes' /\ Phases' /\ ProfileTick' = ProfileTick
    BY <2>0, <2>1 DEF ReaderTypes, Phases, ProfileTick
  <2>3. DueInv' /\ ProfileInv' /\ CutInv'
    BY <2>0, <2>1, <2>2, PartsDependOn
  <2> QED BY <2>2, <2>3 DEF BindScheduleInv
<1> QED BY <1>1, <1>2, <1>3, <1>4, <1>5, StepsByActor

\* The inductive invariant of a bind's schedule holds in every reachable state.
THEOREM BindScheduleSafety == Spec => []BindScheduleInv
  BY BindScheduleInit, BindScheduleNext, PTL DEF Spec

\* handleSubmit, drainDue: whatever the outcomes of the submits so far, and however MOs and
\* receipts were configured, the loop never waits for a frame with a due event in hand.
THEOREM DueIsNeverKept == Spec => []NothingDueKept
<1>1. BindScheduleInv => NothingDueKept
  <2> SUFFICES ASSUME BindScheduleInv, BetweenFrames, perBindClock > 0, NEW i \in DOMAIN pending
               PROVE  pending[i].due > perBindClock
    BY DEF NothingDueKept
  <2>1. todo = <<>> /\ state # "closed" /\ rpc # "record"
    BY DEF BindScheduleInv, Phases, BetweenFrames, Leaving
  <2>2. ~Closes
    BY <2>1 DEF Closes
  <2>3. i \in 1..Len(pending)
    BY DEF BindScheduleInv, ReaderTypes
  <2> QED BY <2>1, <2>2, <2>3 DEF BindScheduleInv, DueInv
<1> QED BY <1>1, BindScheduleSafety, PTL

\* The entry that governs a tick is the last one applied.
LEMMA LastAppliedGoverns ==
  ASSUME NEW tick \in Nat, NEW cursor \in 0..Len(Transitions), Applied(cursor, tick)
  PROVE  ProfileAt(tick) = IF cursor = 0 THEN InitialProfile ELSE TransitionList[cursor].to
<1> DEFINE S1 == [at : Nat, to : DOMAIN DecisionsOf]
<1>1. ProfileAt(tick) = IF tick = 0 \/ DueEntries(Transitions, tick) = {} THEN InitialProfile
                        ELSE Transitions[CHOOSE i \in LastDue(Transitions, tick) : TRUE].to
  BY DEF ProfileAt, DueEntries, LastDue
<1>2. CASE tick = 0
  <2>1. cursor = 0
    BY <1>2 DEF Applied
  <2> QED BY <1>1, <1>2, <2>1
<1>3. CASE tick # 0
  <2>1. Transitions \in Seq(S1) /\ \A x \in S1 : x.at \in Int
    BY ScheduleConfig
  <2>2. \A k \in 1..Len(Transitions) : k <= cursor <=> SortedByTick(Transitions)[k].at <= tick
    BY <1>3 DEF Applied, TransitionList
  <2> HIDE DEF S1
  <2>3. /\ cursor = 0 => DueEntries(Transitions, tick) = {}
        /\ cursor # 0 => /\ DueEntries(Transitions, tick) # {}
                         /\ SortedByTick(Transitions)[cursor]
                              = Transitions[CHOOSE i \in LastDue(Transitions, tick) : TRUE]
    BY <2>1, <2>2, CursorAtLastDue
  <2> QED BY <1>1, <1>3, <2>3 DEF TransitionList
<1> QED BY <1>2, <1>3

\* applyDueTransitions: whatever order the transitions are configured in, every submit is decided
\* under the profile of its own tick, and only the clock changes a bind's profile.
THEOREM ProfileFollowsClock == Spec => []TransitionsFollowTheClock
<1>1. BindScheduleInv => TransitionsFollowTheClock
  <2> SUFFICES ASSUME BindScheduleInv PROVE TransitionsFollowTheClock
    OBVIOUS
  <2>1. ReaderTypes /\ ProfileInv
    BY DEF BindScheduleInv
  <2>2. ProfileTick \in Nat /\ transitionCursor \in 0..Len(Transitions)
    BY <2>1 DEF ReaderTypes, ProfileTick
  <2>3. closeReason = "shutdown" \/ profile = ProfileAt(ProfileTick)
    BY <2>1, <2>2, LastAppliedGoverns DEF ProfileInv
  <2>4. rpc \in {"latency", "commit"} => decision \in DecisionsOf[profile]
    BY <2>1 DEF ReaderTypes, Submitting
  <2> QED BY <2>3, <2>4 DEF TransitionsFollowTheClock, ProfileTick
<1> QED BY <1>1, BindScheduleSafety, PTL

\* applyDueDisconnects and its two checks: a bind is cut by a schedule only at the tick of an
\* entry that may target it, and never reads on past one that surely did.
THEOREM CutsFollowClock == Spec => []ScheduledCutAtItsTick
<1>1. BindScheduleInv => ScheduledCutAtItsTick
  <2> SUFFICES ASSUME BindScheduleInv PROVE ScheduledCutAtItsTick
    OBVIOUS
  <2>1. ReaderTypes /\ Phases /\ CutInv
    BY DEF BindScheduleInv
  <2>2. closeReason = "scheduled_disconnect" => CutNow
    BY <2>1 DEF CutInv
  <2>3. ASSUME BetweenFrames, perBindClock > 0, NEW i \in DOMAIN Disconnects, Surely(Disconnects[i])
        PROVE  Disconnects[i].at > perBindClock
    <3>1. todo = <<>> /\ state # "closed" /\ rpc # "record"
      BY <2>1, <2>3 DEF Phases, BetweenFrames, Leaving
    <3>2. ~Closes /\ ~CutComing
      BY <3>1 DEF Closes, CutComing
    <3>3. i \in 1..Len(Disconnects)
      BY <2>3, ScheduleConfig
    <3>4. PICK k \in 1..Len(Disconnects) : DisconnectList[k] = Disconnects[i]
      BY <3>3, ConfiguredLists
    <3>5. ~(k <= disconnectCursor)
      BY <2>1, <2>3, <3>1, <3>4 DEF CutInv
    <3>6. k > disconnectCursor
      BY <2>1, <3>5, ConfiguredLists DEF ReaderTypes
    <3> QED BY <2>1, <2>3, <3>1, <3>2, <3>4, <3>6 DEF CutInv
  <2> QED BY <2>2, <2>3 DEF ScheduledCutAtItsTick, CutNow, Surely, FirstSubmit
<1> QED BY <1>1, BindScheduleSafety, PTL
=============================================================================
