------------------------- MODULE SessionQueueProofs -------------------------
(***************************************************************************)
(* What goes through outbound, for every configuration, capacity and       *)
(* number of submits: no receipt reaches the client before the response it *)
(* is about, although latencies hold responses back while the schedule     *)
(* goes on; and every PDU handed to sendBytes is accounted for.            *)
(***************************************************************************)
EXTENDS SessionProofs

USE DEF Closing, CloserJoined, SendersJoined, engineVars, smscVars, bindVars, scheduleVars, closeVars,
        queueVars, writerVars, deferredVars, teardownVars

Ticks == 1..MaxTick
PDUs == [kind : {"resp", "nack", "answer", "unbind_resp", "bind_fail", "bind_ok", "submit_fail", "dlr", "mo",
                 "unbind"}, tick : Nat]

\* The response of a submit is out: written, being written or queued; or nothing will be written.
Out(t) ==
  \/ wpc = "exited"
  \/ PDU("resp", t) \in wire
  \/ wpc = "write" /\ writing = PDU("resp", t)
  \/ \E j \in 1..Len(outbound) : outbound[j] = PDU("resp", t)

\* It is out before what is queued at position i.
OutBefore(t, i) ==
  \/ wpc = "exited"
  \/ PDU("resp", t) \in wire
  \/ wpc = "write" /\ writing = PDU("resp", t)
  \/ \E j \in 1..Len(outbound) : j < i /\ outbound[j] = PDU("resp", t)

\* The channel is a queue: what is in order when it is queued is in order on the wire.
WireOrder ==
  /\ outbound \in Seq(PDUs)
  /\ \A t \in Ticks :
       /\ t \in sent => Out(t)
       /\ \A i \in 1..Len(outbound) : outbound[i] = PDU("dlr", t) => OutBefore(t, i)
       /\ wpc = "write" /\ writing = PDU("dlr", t) => PDU("resp", t) \in wire
       /\ PDU("dlr", t) \in wire => PDU("resp", t) \in wire

IsResponse(s, t) == s = Send(PDU("resp", t)) \/ s = Hold(PDU("resp", t))

\* The response is out or a goroutine has it, or the handler sends it before its step i.
Held(t) == Out(t) \/ deferred[PDU("resp", t)] # "none"
Coming(t, i) == Held(t) \/ \E j \in 1..Len(todo) : j < i /\ IsResponse(todo[j], t)

\* No receipt overtakes its response on its way to the channel.
ReceiptOrder ==
  \A t \in Ticks :
    /\ \A i \in 1..Len(pending) : pending[i].kind = "dlr" /\ pending[i].tick = t => Coming(t, Len(todo) + 1)
    /\ \A i \in 1..Len(todo) : todo[i] = Receipt(t) => Coming(t, i)
    /\ rpc = "select" /\ Head(todo) = Receipt(t) => Out(t)
    /\ deferred[PDU("dlr", t)] = "select" => t \in sent

OrderInv == WireOrder /\ ReceiptOrder
\* sendBytes, the queuing branch: the PDU goes behind everything queued.
LEMMA QueuedKeepsOrder ==
  ASSUME WireOrder, NEW p \in PDUs, Queue(p), UNCHANGED <<wpc, writing, wire>>,
         \A t \in Ticks : p = PDU("dlr", t) => Out(t),
         \A t \in Ticks : t \in sent' => t \in sent \/ p = PDU("resp", t)
  PROVE  /\ WireOrder'
         /\ \A t \in Ticks : Out(t) \/ p = PDU("resp", t) => Out(t)'
<1>1. outbound \in Seq(PDUs) /\ outbound' = Append(outbound, p) /\ Len(outbound) \in Nat
  BY DEF WireOrder, Queue
<1>2. /\ outbound' \in Seq(PDUs) /\ Len(outbound') = Len(outbound) + 1
      /\ \A i \in 1..Len(outbound) : outbound'[i] = outbound[i] /\ i \in 1..Len(outbound')
      /\ outbound'[Len(outbound) + 1] = p /\ Len(outbound) + 1 \in 1..Len(outbound')
  BY <1>1
<1>3. ASSUME NEW t \in Ticks, Out(t) \/ p = PDU("resp", t) PROVE Out(t)'
  BY <1>2, <1>3 DEF Out, PDU
<1>4. ASSUME NEW t \in Ticks, NEW i \in 1..Len(outbound'), outbound'[i] = PDU("dlr", t) PROVE OutBefore(t, i)'
  <2>1. CASE i \in 1..Len(outbound)
    <3>1. OutBefore(t, i)
      BY <1>2, <1>4, <2>1 DEF WireOrder
    <3> QED BY <1>2, <3>1 DEF OutBefore, PDU
  <2>2. CASE i = Len(outbound) + 1
    <3>1. Out(t)
      BY <1>2, <1>4, <2>2
    <3>2. \A j \in 1..Len(outbound) : j < i
      BY <1>1, <2>2
    <3> QED BY <1>2, <3>1, <3>2 DEF OutBefore, Out, PDU
  <2> QED BY <1>1, <1>2, <2>1, <2>2
<1>5. ASSUME NEW t \in Ticks
      PROVE  /\ t \in sent' => Out(t)'
             /\ wpc' = "write" /\ writing' = PDU("dlr", t) => PDU("resp", t) \in wire'
             /\ PDU("dlr", t) \in wire' => PDU("resp", t) \in wire'
  <2>1. t \in sent' => Out(t)'
    BY <1>3 DEF WireOrder
  <2> QED BY <2>1 DEF WireOrder
<1>6. WireOrder'
  BY <1>2, <1>4, <1>5 DEF WireOrder, PDU
<1> QED BY <1>3, <1>6

\* sendBytes, the drop branch: the writer is gone, so nothing can get out of order any more.
LEMMA DroppedKeepsOrder ==
  ASSUME WireOrder, wpc = "exited", UNCHANGED <<wpc, writing, wire>>, outbound' \in Seq(PDUs)
  PROVE  WireOrder' /\ \A t \in Ticks : Out(t)'
  BY DEF WireOrder, Out, OutBefore, PDU

\* Steps that leave the queue and the writer alone.
LEMMA QueueUntouched ==
  ASSUME WireOrder, UNCHANGED <<outbound, wpc, writing, wire, sent>>
  PROVE  WireOrder' /\ \A t \in Ticks : Out(t) => Out(t)'
  BY DEF WireOrder, Out, OutBefore, PDU

\* writeLoop takes the PDUs in the order they were queued and writes each before the next.
LEMMA WriterKeepsOrder ==
  ASSUME WireOrder, Writer
  PROVE  WireOrder' /\ \A t \in Ticks : Out(t) => Out(t)'
<1>0. sent' = sent
  BY DEF Writer, WriterReceive, WriterWrites, WriterFails, WriterEnds
<1>1. CASE WriterReceive
  <2>1. /\ wpc = "receive" /\ wpc' = "write" /\ outbound # <<>> /\ wire' = wire
        /\ writing' = Head(outbound) /\ outbound' = Tail(outbound)
    BY <1>1 DEF WriterReceive
  <2>2. outbound \in Seq(PDUs)
    BY DEF WireOrder
  <2>3. /\ Len(outbound) \in Nat /\ Len(outbound) >= 1 /\ writing' = outbound[1]
        /\ outbound' \in Seq(PDUs) /\ Len(outbound') = Len(outbound) - 1
        /\ \A i \in 1..(Len(outbound) - 1) : outbound'[i] = outbound[i + 1]
    BY <2>1, <2>2, HeadTailProperties
  <2>4. ASSUME NEW t \in Ticks, Out(t) PROVE Out(t)'
    <3>1. CASE PDU("resp", t) \in wire
      BY <2>1, <3>1 DEF Out, PDU
    <3>2. CASE \E j \in 1..Len(outbound) : outbound[j] = PDU("resp", t)
      <4>1. PICK j \in 1..Len(outbound) : outbound[j] = PDU("resp", t)
        BY <3>2
      <4>2. CASE j = 1
        BY <2>1, <2>3, <4>1, <4>2 DEF Out, PDU
      <4>3. CASE j # 1
        <5>1. j - 1 \in 1..Len(outbound') /\ outbound'[j - 1] = outbound[j]
          <6>1. j - 1 \in 1..(Len(outbound) - 1) /\ (j - 1) + 1 = j
            BY <2>3, <4>3
          <6> QED BY <2>3, <6>1
        <5> QED BY <4>1, <5>1 DEF Out, PDU
      <4> QED BY <4>2, <4>3
    <3> QED BY <2>1, <2>4, <3>1, <3>2 DEF Out
  <2>5. ASSUME NEW t \in Ticks, writing' = PDU("dlr", t) PROVE PDU("resp", t) \in wire'
    <3>0. 1 \in 1..Len(outbound) /\ outbound[1] = PDU("dlr", t)
      BY <2>3, <2>5
    <3>1. OutBefore(t, 1)
      BY <3>0 DEF WireOrder
    <3>2. ~\E j \in 1..Len(outbound) : j < 1
      BY <2>3
    <3> QED BY <2>1, <3>1, <3>2 DEF OutBefore
  <2>6. ASSUME NEW t \in Ticks, NEW i \in 1..Len(outbound'), outbound'[i] = PDU("dlr", t) PROVE OutBefore(t, i)'
    <3>1. i + 1 \in 1..Len(outbound) /\ outbound'[i] = outbound[i + 1]
      BY <2>3
    <3>2. OutBefore(t, i + 1)
      BY <2>6, <3>1 DEF WireOrder
    <3>3. CASE PDU("resp", t) \in wire
      BY <2>1, <3>3 DEF OutBefore, PDU
    <3>4. CASE \E j \in 1..Len(outbound) : j < i + 1 /\ outbound[j] = PDU("resp", t)
      <4>1. PICK j \in 1..Len(outbound) : j < i + 1 /\ outbound[j] = PDU("resp", t)
        BY <3>4
      <4>2. CASE j = 1
        BY <2>1, <2>3, <4>1, <4>2 DEF OutBefore, PDU
      <4>3. CASE j # 1
        <5>1. j - 1 \in 1..Len(outbound') /\ outbound'[j - 1] = outbound[j] /\ j - 1 < i
          <6>1. j - 1 \in 1..(Len(outbound) - 1) /\ (j - 1) + 1 = j /\ j - 1 < i
            BY <2>3, <4>1, <4>3
          <6> QED BY <2>3, <6>1
        <5> QED BY <4>1, <5>1 DEF OutBefore, PDU
      <4> QED BY <4>2, <4>3
    <3> QED BY <2>1, <3>2, <3>3, <3>4 DEF OutBefore
  <2>7. \A t \in Ticks : /\ t \in sent' => Out(t)'
                         /\ PDU("dlr", t) \in wire' => PDU("resp", t) \in wire'
    BY <1>0, <2>1, <2>4 DEF WireOrder
  <2> QED BY <2>3, <2>4, <2>5, <2>6, <2>7 DEF WireOrder, PDU
<1>2. CASE WriterWrites
  <2>1. /\ wpc = "write" /\ wpc' = "receive" /\ wire' = wire \cup {writing} /\ outbound' = outbound
    BY <1>2 DEF WriterWrites
  <2>2. ASSUME NEW t \in Ticks, Out(t) PROVE Out(t)'
    BY <2>1, <2>2 DEF Out, PDU
  <2>3. ASSUME NEW t \in Ticks, NEW i \in 1..Len(outbound), outbound[i] = PDU("dlr", t) PROVE OutBefore(t, i)'
    <3>1. OutBefore(t, i)
      BY <2>3 DEF WireOrder
    <3> QED BY <2>1, <3>1 DEF OutBefore, PDU
  <2>4. ASSUME NEW t \in Ticks, PDU("dlr", t) \in wire' PROVE PDU("resp", t) \in wire'
    BY <2>1, <2>4 DEF WireOrder
  <2>5. \A t \in Ticks : t \in sent' => Out(t)'
    BY <1>0, <2>2 DEF WireOrder
  <2>6. outbound' \in Seq(PDUs) /\ wpc' # "write"
    BY <2>1 DEF WireOrder
  <2> QED BY <2>1, <2>2, <2>3, <2>4, <2>5, <2>6 DEF WireOrder, PDU
<1>3. CASE WriterEnds \/ \E r \in WriteFaults : WriterFails(r)
  <2>1. wpc' = "exited" /\ UNCHANGED <<outbound, wire>>
    BY <1>3 DEF WriterEnds, WriterFails
  <2> QED BY <2>1 DEF WireOrder, Out, OutBefore, PDU
<1> QED BY <1>1, <1>2, <1>3 DEF Writer
-----------------------------------------------------------------------------
(***************************************************************************)
(* The way of a receipt to the channel: from the schedule to the handler's *)
(* steps, and from there into outbound or a goroutine of its own.          *)
(***************************************************************************)
\* What a step must not take back: an answer that is out or held, and who waits for what.
AnswersStay ==
  /\ \A t \in Ticks : Out(t) => Out(t)'
  /\ \A t \in Ticks : deferred[PDU("resp", t)] # "none" => deferred'[PDU("resp", t)] # "none"
  /\ \A t \in Ticks : deferred'[PDU("dlr", t)] = "select" => deferred[PDU("dlr", t)] = "select" \/ t \in sent
  /\ sent \subseteq sent'

\* An answer that is out or held stays so.
LEMMA HeldStays ==
  ASSUME AnswersStay
  PROVE  \A t \in Ticks : Held(t) => Held(t)'
  BY DEF AnswersStay, Held, PDU

\* Steps that leave the schedule and the handler's steps alone.
LEMMA ReceiptsWait ==
  ASSUME ReceiptOrder, AnswersStay, UNCHANGED <<pending, todo>>,
         rpc' = "select" => rpc = "select" \/ \A t \in Ticks : Head(todo) = Receipt(t) => Out(t)
  PROVE  ReceiptOrder'
<1>1. ASSUME NEW t \in Ticks, NEW i, Coming(t, i) PROVE Coming(t, i)'
  BY <1>1, HeldStays DEF Coming, IsResponse, Send, Hold, PDU
<1>2. ASSUME NEW t \in Ticks
      PROVE  /\ \A i \in 1..Len(pending') : pending'[i].kind = "dlr" /\ pending'[i].tick = t => Coming(t, Len(todo) + 1)'
             /\ \A i \in 1..Len(todo') : todo'[i] = Receipt(t) => Coming(t, i)'
  <2>1. Coming(t, Len(todo) + 1) => Coming(t, Len(todo) + 1)'
    BY HeldStays DEF Coming, IsResponse, Send, Hold, PDU
  <2> QED BY <1>1, <2>1 DEF ReceiptOrder
<1>3. ASSUME NEW t \in Ticks
      PROVE  /\ rpc' = "select" /\ Head(todo') = Receipt(t) => Out(t)'
             /\ deferred'[PDU("dlr", t)] = "select" => t \in sent'
  BY DEF ReceiptOrder, AnswersStay
<1> QED BY <1>2, <1>3 DEF ReceiptOrder, Receipt, PDU

\* A handler begins with nothing to do: what was scheduled had its answer out or held, and stays
\* in order whether it stays scheduled or is drained.
LEMMA HandlerBegins ==
  ASSUME ReceiptOrder, AnswersStay, todo = <<>>, rpc' # "select",
         \A i \in 1..Len(pending') : pending'[i].kind # "dlr" \/ \E k \in 1..Len(pending) : pending'[i] = pending[k],
         \A t \in Ticks : \A i \in 1..Len(todo') : todo'[i] = Receipt(t) =>
           \E k \in 1..Len(pending) : pending[k].kind = "dlr" /\ pending[k].tick = t
  PROVE  ReceiptOrder'
<1>1. ASSUME NEW t \in Ticks, NEW k \in 1..Len(pending), pending[k].kind = "dlr", pending[k].tick = t
      PROVE  Held(t)'
  <2>1. Coming(t, Len(todo) + 1) /\ Len(todo) = 0
    BY <1>1 DEF ReceiptOrder
  <2>2. Held(t)
    BY <2>1 DEF Coming
  <2> QED BY <2>2, HeldStays
<1>2. ASSUME NEW t \in Ticks
      PROVE  /\ \A i \in 1..Len(pending') : pending'[i].kind = "dlr" /\ pending'[i].tick = t => Coming(t, Len(todo) + 1)'
             /\ \A i \in 1..Len(todo') : todo'[i] = Receipt(t) => Coming(t, i)'
             /\ deferred'[PDU("dlr", t)] = "select" => t \in sent'
  <2>1. \A i \in 1..Len(pending') : pending'[i].kind = "dlr" /\ pending'[i].tick = t => Held(t)'
    BY <1>1
  <2>2. \A i \in 1..Len(todo') : todo'[i] = Receipt(t) => Held(t)'
    BY <1>1
  <2>3. deferred'[PDU("dlr", t)] = "select" => t \in sent'
    BY DEF ReceiptOrder, AnswersStay
  <2> QED BY <2>1, <2>2, <2>3 DEF Coming
<1> QED BY <1>2 DEF ReceiptOrder, Receipt, PDU

\* A step of the handler is done: if it was an answer, that answer is out or held now.
LEMMA StepDone ==
  ASSUME ReceiptOrder, AnswersStay, todo \in Seq(Steps), todo # <<>>, todo' = Tail(todo), pending' = pending,
         rpc' # "select", \A t \in Ticks : IsResponse(Head(todo), t) => Held(t)'
  PROVE  ReceiptOrder'
<1>1. /\ Head(todo) = todo[1] /\ Len(todo) \in Nat /\ Len(todo) >= 1 /\ Len(todo') = Len(todo) - 1
      /\ \A i \in 1..(Len(todo) - 1) : todo'[i] = todo[i + 1] /\ i + 1 \in 1..Len(todo)
      /\ \A i \in 1..Len(todo) : i = 1 \/ (i - 1 \in 1..(Len(todo) - 1) /\ todo'[i - 1] = todo[i])
  BY NextStep
<1>2. ASSUME NEW t \in Ticks, NEW i \in Nat, Coming(t, i + 1) PROVE Coming(t, i)'
  <2>1. CASE Held(t)
    BY <2>1, HeldStays DEF Coming
  <2>2. CASE \E j \in 1..Len(todo) : j < i + 1 /\ IsResponse(todo[j], t)
    <3>1. PICK j \in 1..Len(todo) : j < i + 1 /\ IsResponse(todo[j], t)
      BY <2>2
    <3>2. CASE j = 1
      BY <1>1, <3>1, <3>2 DEF Coming
    <3>3. CASE j # 1
      <4>1. j - 1 \in 1..Len(todo') /\ todo'[j - 1] = todo[j] /\ j - 1 < i
        BY <1>1, <3>1, <3>3
      <4> QED BY <3>1, <4>1 DEF Coming, IsResponse, Send, Hold, PDU
    <3> QED BY <3>2, <3>3
  <2> QED BY <1>2, <2>1, <2>2 DEF Coming
<1>3. ASSUME NEW t \in Ticks, NEW i \in 1..Len(pending), pending[i].kind = "dlr", pending[i].tick = t
      PROVE  Coming(t, Len(todo) + 1)'
  <2>1. PICK n \in Nat : n = Len(todo)
    BY <1>1
  <2>2. Coming(t, n + 1)
    BY <1>3, <2>1 DEF ReceiptOrder
  <2>3. Coming(t, n)' /\ Len(todo') + 1 = n
    BY <1>1, <1>2, <2>1, <2>2
  <2> QED BY <2>3 DEF Coming
<1>4. ASSUME NEW t \in Ticks, NEW i \in 1..Len(todo'), todo'[i] = Receipt(t) PROVE Coming(t, i)'
  <2>1. i \in Nat /\ i + 1 \in 1..Len(todo) /\ todo[i + 1] = Receipt(t)
    BY <1>1, <1>4
  <2>2. Coming(t, i + 1)
    BY <2>1 DEF ReceiptOrder
  <2> QED BY <1>2, <2>1, <2>2
<1>5. \A t \in Ticks : deferred'[PDU("dlr", t)] = "select" => t \in sent'
  BY DEF ReceiptOrder, AnswersStay
<1> QED BY <1>3, <1>4, <1>5 DEF ReceiptOrder, Receipt, PDU

\* Steps that leave the queue, the writer and the goroutines alone.
LEMMA NothingSent ==
  ASSUME WireOrder, UNCHANGED <<outbound, wpc, writing, wire, sent, deferred>>
  PROVE  WireOrder' /\ AnswersStay
  BY QueueUntouched DEF AnswersStay

\* The read loop: a flush drains receipts whose answers are out or held.
LEMMA LoopKeepsOrder ==
  ASSUME BindScheduleInv, OrderInv, LoopStep
  PROVE  OrderInv'
<1>0. WireOrder /\ ReceiptOrder /\ ReaderTypes /\ Phases
  BY DEF OrderInv, BindScheduleInv
<1>1. UNCHANGED <<outbound, wpc, writing, wire, sent, deferred>>
  BY DEF LoopStep, ArmReadDeadline, CheckQuit, ReadTimeout, FirstByte, ExtendDeadline, RecheckQuit,
     FrameComplete, FrameTimeout, ReadFault, LoopUnchanged
<1>2. WireOrder' /\ AnswersStay
  BY <1>0, <1>1, NothingSent
<1>3. todo = <<>> /\ rpc' # "select"
  BY <1>0, LoopEffect DEF Phases, LoopPCs
<1>4. CASE UNCHANGED <<todo, pending>>
  BY <1>0, <1>2, <1>3, <1>4, ReceiptsWait DEF OrderInv
<1>5. CASE todo' = Emit(pending) /\ pending' = <<>>
  <2>1. /\ Len(todo') = Len(pending) /\ Len(pending') = 0
        /\ \A i \in 1..Len(pending) : todo'[i] = Dispatch(pending[i]) /\ pending[i] \in Events
    BY <1>0, <1>5, EmittedSteps DEF ReaderTypes
  <2>2. ASSUME NEW t \in Ticks, NEW i \in 1..Len(todo'), todo'[i] = Receipt(t)
        PROVE  \E k \in 1..Len(pending) : pending[k].kind = "dlr" /\ pending[k].tick = t
    <3>1. i \in 1..Len(pending) /\ Dispatch(pending[i]) = Receipt(t)
      BY <2>1, <2>2
    <3>2. pending[i].kind = "dlr" /\ pending[i].tick = t
      BY <3>1 DEF Dispatch, Receipt, MO, PDU
    <3> QED BY <3>1, <3>2
  <2>3. ReceiptOrder'
    BY <1>0, <1>2, <1>3, <2>1, <2>2, HandlerBegins
  <2> QED BY <1>2, <2>3 DEF OrderInv
<1>6. CASE todo' \in {<<>>, <<Send(PDU("nack", 0))>>} /\ pending' = pending
  <2>1. \A i \in 1..Len(todo') : todo'[i].op = "send"
    <3>1. CASE todo' = <<>>
      BY <3>1
    <3>2. CASE todo' = <<Send(PDU("nack", 0))>>
      BY <3>2 DEF Send
    <3> QED BY <1>6, <3>1, <3>2
  <2>2. \A t \in Ticks : \A i \in 1..Len(todo') : todo'[i] # Receipt(t)
    BY <2>1 DEF Receipt
  <2>3. ReceiptOrder'
    BY <1>0, <1>2, <1>3, <1>6, <2>2, HandlerBegins
  <2> QED BY <1>2, <2>3 DEF OrderInv
<1> QED BY <1>4, <1>5, <1>6, LoopEffect

\* The handlers up to their answer, and the answers without a receipt.
LEMMA HandlersKeepOrder ==
  ASSUME BindScheduleInv, OrderInv,
         \/ HandleOther \/ RefuseBind \/ AcceptBind \/ IncBind \/ StoreBound \/ RefuseSubmit
         \/ Evaluate \/ ServeLatency \/ Commit \/ Panic
  PROVE  OrderInv'
<1>0. WireOrder /\ ReceiptOrder /\ ReaderTypes /\ Phases
  BY DEF OrderInv, BindScheduleInv
<1>1. UNCHANGED <<outbound, wpc, writing, wire, sent, deferred>>
  BY DEF HandleOther, RefuseBind, AcceptBind, IncBind, StoreBound, RefuseSubmit, Evaluate, ServeLatency, Commit,
     Panic, HandlerUnchanged
<1>2. WireOrder' /\ AnswersStay
  BY <1>0, <1>1, NothingSent
<1>3. rpc \in HandlerPCs /\ rpc' # "select"
  BY DEF HandlerPCs, HandleOther, RefuseBind, AcceptBind, IncBind, StoreBound, RefuseSubmit, Evaluate,
     ServeLatency, Commit, Panic, Reply, Then
<1>4. todo = <<>>
  BY <1>3, HandlerStarts
<1>5. CASE AcceptBind \/ IncBind \/ Evaluate \/ ServeLatency \/ Commit \/ Panic
  <2>1. UNCHANGED <<todo, pending>>
    BY <1>5 DEF AcceptBind, IncBind, Evaluate, ServeLatency, Commit, Panic
  <2> QED BY <1>0, <1>2, <1>3, <2>1, ReceiptsWait DEF OrderInv
<1>6. CASE HandleOther \/ RefuseBind \/ RefuseSubmit \/ StoreBound
  <2>1. \A i \in 1..Len(todo') : todo'[i].op \in {"send", "close"}
    BY <1>6 DEF HandleOther, RefuseBind, RefuseSubmit, StoreBound, Reply, Then, Send, Close
  <2>2. \A t \in Ticks : \A i \in 1..Len(todo') : todo'[i] # Receipt(t)
    BY <2>1 DEF Receipt
  <2>3. \A i \in 1..Len(pending') : pending'[i].kind # "dlr" \/ \E k \in 1..Len(pending) : pending'[i] = pending[k]
    <3>1. CASE HandleOther \/ RefuseBind \/ RefuseSubmit
      <4>1. pending' = pending
        BY <3>1 DEF HandleOther, RefuseBind, RefuseSubmit
      <4> QED BY <4>1
    <3>2. CASE StoreBound
      <4>1. rpc = "storeBound" /\ pending' = ScheduledMOs
        BY <3>2 DEF StoreBound
      <4>2. pending = <<>> /\ seq \in Nat
        BY <1>0, <4>1 DEF Phases, ReaderTypes
      <4> QED BY <4>1, <4>2, ScheduledMOEvents
    <3> QED BY <1>6, <3>1, <3>2
  <2>4. ReceiptOrder'
    BY <1>0, <1>2, <1>3, <1>4, <2>2, <2>3, HandlerBegins
  <2> QED BY <1>2, <2>4 DEF OrderInv
<1> QED BY <1>5, <1>6

\* Answer: this submit's receipt comes with its answer, which is the handler's first step.
LEMMA AnswerKeepsOrder ==
  ASSUME BindScheduleInv, OrderInv, Answer
  PROVE  OrderInv'
<1>0. WireOrder /\ ReceiptOrder /\ ReaderTypes /\ Phases /\ DueInv
  BY DEF OrderInv, BindScheduleInv
<1>1. UNCHANGED <<outbound, wpc, writing, wire, sent, deferred>>
  BY DEF Answer, HandlerUnchanged
<1>2. WireOrder' /\ AnswersStay
  BY <1>0, <1>1, NothingSent
<1>3. rpc = "record" /\ rpc' = "do" /\ todo = <<>> /\ perBindClock \in Nat
  BY <1>0, AnswerShape DEF Phases, ReaderTypes
<1>4. Send(PDU("resp", perBindClock)) \in Steps /\ Hold(PDU("resp", perBindClock)) \in Steps
  BY <1>3, StepsOfHandlers
<1>5. CASE /\ UNCHANGED <<pending, seq>>
           /\ \/ todo' = <<Close("scheduled_disconnect")>>
              \/ todo' = <<>> \o <<Close("fault_injection")>>
              \/ todo' = <<Send(PDU("resp", perBindClock))>> \o <<Close("fault_injection")>>
  <2>1. \A i \in 1..Len(todo') : todo'[i].op \in {"send", "close"}
    <3>0. /\ Close("fault_injection") \in Steps /\ Close("fault_injection").op = "close"
          /\ Close("scheduled_disconnect").op = "close" /\ Send(PDU("resp", perBindClock)).op = "send"
      BY StepsOfHandlers DEF HandlerReasons, Close, Send
    <3>1. CASE todo' = <<Close("scheduled_disconnect")>>
      BY <3>0, <3>1
    <3>2. CASE todo' = <<>> \o <<Close("fault_injection")>>
      <4>1. todo' = <<Close("fault_injection")>>
        BY <3>2
      <4> QED BY <3>0, <4>1
    <3>3. CASE todo' = <<Send(PDU("resp", perBindClock))>> \o <<Close("fault_injection")>>
      <4>1. Len(todo') = 2 /\ todo'[1] = Send(PDU("resp", perBindClock)) /\ todo'[2] = Close("fault_injection")
        BY <1>4, <3>0, <3>3, TwoSteps
      <4> QED BY <3>0, <4>1
    <3> QED BY <1>5, <3>1, <3>2, <3>3
  <2>2. \A t \in Ticks : \A i \in 1..Len(todo') : todo'[i] # Receipt(t)
    BY <2>1 DEF Receipt
  <2>3. ReceiptOrder'
    BY <1>0, <1>2, <1>3, <1>5, <2>2, HandlerBegins
  <2> QED BY <1>2, <2>3 DEF OrderInv
<1>6. CASE \E r \in {<<>>, <<Send(PDU("resp", perBindClock))>>, <<Hold(PDU("resp", perBindClock))>>} :
             /\ HasReceipt => r # <<>>
             /\ todo' = r \o Emit(SubSeq(ScheduleDLR, 1, DueCount(ScheduleDLR, perBindClock))) \o <<Cut>>
             /\ pending' = SubSeq(ScheduleDLR, DueCount(ScheduleDLR, perBindClock) + 1, Len(ScheduleDLR))
  <2> DEFINE E == ScheduleDLR
             n == DueCount(E, perBindClock)
             d == SubSeq(E, 1, n)
             m == Emit(d)
  <2>1. PICK r \in {<<>>, <<Send(PDU("resp", perBindClock))>>, <<Hold(PDU("resp", perBindClock))>>} :
          /\ HasReceipt => r # <<>>
          /\ todo' = r \o m \o <<Cut>>
          /\ pending' = SubSeq(E, n + 1, Len(E))
    BY <1>6
  <2>2. E \in Seq(Events) /\ Len(E) \in Nat
    BY <1>0, <1>3, ScheduledDLREvents DEF DueInv
  <2>3. n \in 0..Len(E)
    <3> HIDE DEF E
    <3> QED BY <2>2, DrainSearchStops
  \* Whatever is scheduled now has its answer out, held, or this handler's first step.
  <2>4. ASSUME NEW t \in Ticks, NEW k \in 1..Len(E), E[k].kind = "dlr", E[k].tick = t
        PROVE  Held(t)' \/ (HasReceipt /\ t = perBindClock)
    <3>1. CASE \E i \in 1..Len(pending) : E[k] = pending[i]
      <4>1. PICK i \in 1..Len(pending) : E[k] = pending[i]
        BY <3>1
      <4>2. Coming(t, Len(todo) + 1) /\ Len(todo) = 0
        BY <1>0, <1>3, <2>4, <4>1 DEF ReceiptOrder
      <4>3. Held(t)
        BY <4>2 DEF Coming
      <4> QED BY <1>2, <4>3, HeldStays
    <3>2. CASE HasReceipt /\ E[k].kind = "dlr" /\ E[k].tick = perBindClock
      BY <2>4, <3>2
    <3> QED BY <1>0, <1>3, <3>1, <3>2, ScheduledDLREvents DEF DueInv
  <2> HIDE DEF E, n
  <2>5. d \in Seq(Events) /\ Len(d) = n /\ \A i \in 1..n : d[i] = E[i] /\ i \in 1..Len(E)
    <3>1. /\ SubSeq(E, 1, n) \in Seq(Events) /\ Len(SubSeq(E, 1, n)) = IF 1 <= n THEN n - 1 + 1 ELSE 0
          /\ \A i \in 1..(n - 1 + 1) : SubSeq(E, 1, n)[i] = E[1 + i - 1]
      BY <2>2, <2>3, SubSeqProperties
    <3>2. n - 1 + 1 = n /\ \A i \in 1..n : 1 + i - 1 = i /\ i \in 1..Len(E)
      BY <2>2, <2>3
    <3> QED BY <2>3, <3>1, <3>2
  <2> HIDE DEF d
  <2>6. m \in Seq(Steps) /\ Len(m) = n /\ \A i \in 1..n : m[i] = Dispatch(d[i])
    BY <2>5, EmittedSteps
  <2> HIDE DEF m
  <2>7. /\ r \in Seq(Steps) /\ Len(r) \in {0, 1} /\ (r # <<>> => Len(r) = 1)
        /\ Len(r) = 1 => /\ r[1] = Send(PDU("resp", perBindClock)) \/ r[1] = Hold(PDU("resp", perBindClock))
    <3>1. CASE r = <<>>
      BY <3>1
    <3>2. CASE r = <<Send(PDU("resp", perBindClock))>>
      BY <1>4, <3>2
    <3>3. CASE r = <<Hold(PDU("resp", perBindClock))>>
      BY <1>4, <3>3
    <3> QED BY <3>1, <3>2, <3>3
  <2>8. /\ Len(todo') = Len(r) + n + 1
        /\ \A i \in 1..Len(r) : todo'[i] = r[i]
        /\ \A i \in 1..n : todo'[Len(r) + i] = m[i]
        /\ todo'[Len(r) + n + 1] = Cut
    <3>1. r \in Seq(Steps) /\ m \in Seq(Steps)
      BY <2>6, <2>7
    <3>2. /\ Len(todo') = Len(r) + Len(m) + 1
          /\ \A i \in 1..Len(r) : todo'[i] = r[i]
          /\ \A i \in 1..Len(m) : todo'[Len(r) + i] = m[i]
          /\ todo'[Len(r) + Len(m) + 1] = Cut
      BY <2>1, <3>1, AnsweredSteps
    <3> QED BY <2>6, <3>2
  \* The answer is the first step.
  <2>9. ASSUME NEW t \in Ticks, HasReceipt, t = perBindClock
        PROVE  Len(r) = 1 /\ 1 \in 1..Len(todo') /\ IsResponse(todo'[1], t)
    <3>1. Len(r) = 1
      BY <2>1, <2>7, <2>9
    <3>2. 1 \in 1..Len(r) /\ 1 \in 1..Len(todo')
      BY <2>3, <2>8, <3>1
    <3> QED BY <2>7, <2>8, <2>9, <3>1, <3>2 DEF IsResponse
  <2>10. ASSUME NEW t \in Ticks, NEW i \in 1..Len(pending'), pending'[i].kind = "dlr", pending'[i].tick = t
         PROVE  Coming(t, Len(todo) + 1)'
    <3>1. n + i \in 1..Len(E) /\ pending'[i] = E[n + i]
      <4>1. /\ Len(SubSeq(E, n + 1, Len(E))) = Len(E) - n
            /\ \A j \in 1..(Len(E) - n) : SubSeq(E, n + 1, Len(E))[j] = E[(n + 1) + j - 1]
        BY <2>2, <2>3, SubSeqProperties
      <4>2. i \in 1..(Len(E) - n) /\ (n + 1) + i - 1 = n + i /\ n + i \in 1..Len(E)
        BY <2>1, <2>2, <2>3, <2>10, <4>1
      <4> QED BY <2>1, <4>1, <4>2
    <3>2. CASE Held(t)'
      BY <3>2 DEF Coming
    <3>3. CASE HasReceipt /\ t = perBindClock
      <4>1. 1 \in 1..Len(todo') /\ IsResponse(todo'[1], t) /\ 1 < Len(todo') + 1
        BY <2>3, <2>8, <2>9, <3>3
      <4> QED BY <4>1 DEF Coming, IsResponse, Send, Hold, PDU
    <3> QED BY <2>4, <2>10, <3>1, <3>2, <3>3
  <2>11. ASSUME NEW t \in Ticks, NEW i \in 1..Len(todo'), todo'[i] = Receipt(t)
         PROVE  Coming(t, i)'
    <3>0. todo'[i].op = "receipt"
      BY <2>11 DEF Receipt
    <3>1. ~(i <= Len(r))
      <4> SUFFICES ASSUME i <= Len(r) PROVE FALSE
        OBVIOUS
      <4>1. i = 1 /\ Len(r) = 1 /\ todo'[i] = r[1]
        BY <2>7, <2>8
      <4> QED BY <2>7, <3>0, <4>1 DEF Send, Hold
    <3>2. i # Len(r) + n + 1
      BY <2>8, <3>0 DEF Cut
    <3>3. i - Len(r) \in 1..n /\ Len(r) + (i - Len(r)) = i
      BY <2>3, <2>7, <2>8, <3>1, <3>2
    <3>4. todo'[i] = Dispatch(E[i - Len(r)]) /\ i - Len(r) \in 1..Len(E)
      BY <2>5, <2>6, <2>8, <3>3
    <3>5. E[i - Len(r)].kind = "dlr" /\ E[i - Len(r)].tick = t
      BY <2>11, <3>4 DEF Dispatch, Receipt, MO, PDU
    <3>6. CASE Held(t)'
      BY <3>6 DEF Coming
    <3>7. CASE HasReceipt /\ t = perBindClock
      <4>1. 1 \in 1..Len(todo') /\ IsResponse(todo'[1], t) /\ 1 < i
        BY <2>7, <2>8, <2>9, <3>1, <3>7
      <4> QED BY <4>1 DEF Coming, IsResponse, Send, Hold, PDU
    <3> QED BY <2>4, <3>4, <3>5, <3>6, <3>7
  <2>12. \A t \in Ticks : deferred'[PDU("dlr", t)] = "select" => t \in sent'
    BY <1>0, <1>1 DEF ReceiptOrder
  <2>13. ReceiptOrder'
    BY <1>3, <2>10, <2>11, <2>12 DEF ReceiptOrder, Receipt, PDU
  <2> QED BY <1>2, <2>13 DEF OrderInv
<1> QED BY <1>5, <1>6, AnswerShape
-----------------------------------------------------------------------------
(***************************************************************************)
(* The sends.                                                              *)
(***************************************************************************)
\* What a step is, from its kind and its PDU.
LEMMA StepForms ==
  ASSUME NEW s \in Steps
  PROVE  /\ s.op \in {"send", "mo", "receipt"} => s.arg \in PDUs
         /\ \A t \in Nat : s.op \in {"send", "mo", "receipt"} /\ s.arg = PDU("dlr", t) => s = Receipt(t)
         /\ \A t \in Nat : IsResponse(s, t) => s.op \in {"send", "hold"} /\ s.arg = PDU("resp", t)
<1>1. s.op \in {"send", "mo", "receipt"} => s.arg \in PDUs
  BY DEF Steps, Cut, Replies, PDUs
<1>2. ASSUME NEW t \in Nat, s.op \in {"send", "mo", "receipt"}, s.arg = PDU("dlr", t) PROVE s = Receipt(t)
  BY <1>2 DEF Steps, Cut, Replies, Receipt, PDU
<1>3. ASSUME NEW t \in Nat, IsResponse(s, t) PROVE s.op \in {"send", "hold"} /\ s.arg = PDU("resp", t)
  BY <1>3 DEF IsResponse, Send, Hold
<1> QED BY <1>1, <1>2, <1>3

\* The handler's steps: a receipt is sent inline only when its answer is out.
LEMMA SendsKeepOrder ==
  ASSUME BindScheduleInv, ShutdownInv, OrderInv, SendStep
  PROVE  OrderInv'
<1>0. WireOrder /\ ReceiptOrder /\ todo \in Seq(Steps) /\ Phases /\ Ticks \subseteq Nat
  BY SessionConfig DEF OrderInv, BindScheduleInv, ReaderTypes, Ticks
<1>1. pending' = pending /\ UNCHANGED <<wpc, writing, wire, sent>>
  BY DEF SendStep, HandlerReturns, ReaderBeginSend, ReaderEndSend, DropMO, ReaderCloses, Spawn,
     ApplyDueDisconnects, DoUnchanged, ReturnUnchanged
<1>2. CASE HandlerReturns \/ ReaderBeginSend
  <2>1. UNCHANGED <<outbound, deferred, todo>> /\ rpc = "do"
    BY <1>2 DEF HandlerReturns, ReaderBeginSend, BeginSend
  <2>2. WireOrder' /\ AnswersStay
    BY <1>0, <1>1, <2>1, NothingSent
  <2>3. ASSUME rpc' = "select", NEW t \in Ticks, Head(todo) = Receipt(t) PROVE Out(t)
    <3>1. ReaderBeginSend /\ todo # <<>>
      BY <1>2, <2>1, <2>3 DEF HandlerReturns, ReaderBeginSend
    <3>2. 1 \in 1..Len(todo) /\ todo[1] = Receipt(t)
      BY <1>0, <2>3, <3>1, NextStep
    <3>3. Coming(t, 1)
      BY <1>0, <3>2 DEF ReceiptOrder
    <3>4. Held(t)
      BY <3>3 DEF Coming
    <3>5. ~ResponseHeld(t)
      BY <2>3, <3>1 DEF ReaderBeginSend, Receipt, PDU
    <3> QED BY <1>0, <3>4, <3>5 DEF Held, ResponseHeld, WireOrder
  <2>4. ReceiptOrder'
    BY <1>0, <1>1, <2>1, <2>2, <2>3, ReceiptsWait
  <2> QED BY <2>2, <2>4 DEF OrderInv
<1>3. CASE ~(HandlerReturns \/ ReaderBeginSend)
  <2>0. ReaderEndSend \/ DropMO \/ ReaderCloses \/ Spawn \/ ApplyDueDisconnects
    BY <1>3 DEF SendStep
  <2>1. todo # <<>> /\ todo' = Tail(todo) /\ rpc' # "select"
    BY <1>0, <2>0 DEF ReaderEndSend, DropMO, ReaderCloses, Spawn, ApplyDueDisconnects, Phases
  <2>2. Head(todo) \in Steps
    BY <1>0, <2>1, NextStep
  <2>3. CASE DropMO \/ ReaderCloses \/ ApplyDueDisconnects
    <3>1. UNCHANGED <<outbound, deferred>> /\ Head(todo).op \in {"mo", "close", "cut"}
      BY <2>3 DEF DropMO, ReaderCloses, ApplyDueDisconnects
    <3>2. WireOrder' /\ AnswersStay
      BY <1>0, <1>1, <3>1, NothingSent
    <3>3. \A t \in Ticks : ~IsResponse(Head(todo), t)
      BY <1>0, <2>2, <3>1, StepForms
    <3> QED BY <1>0, <1>1, <2>1, <3>2, <3>3, StepDone DEF OrderInv
  <2>4. CASE Spawn
    <3>1. /\ outbound' = outbound /\ deferred' = [deferred EXCEPT ![Head(todo).arg] = "wait"]
          /\ Head(todo).op \in {"hold", "receipt"}
      BY <2>4 DEF Spawn
    <3>2. DOMAIN deferred = Deferrable /\ \A t \in Ticks : PDU("resp", t) \in Deferrable /\ PDU("dlr", t) \in Deferrable
      BY DEF ShutdownInv, Deferrable, Ticks
    <3>3. \A q \in Deferrable : deferred'[q] = IF q = Head(todo).arg THEN "wait" ELSE deferred[q]
      BY <3>1, <3>2
    <3>4. WireOrder' /\ \A t \in Ticks : Out(t) => Out(t)'
      BY <1>0, <1>1, <3>1, QueueUntouched
    <3>5. AnswersStay
      BY <1>1, <3>2, <3>3, <3>4 DEF AnswersStay
    <3>6. ASSUME NEW t \in Ticks, IsResponse(Head(todo), t) PROVE Held(t)'
      <4>1. Head(todo).arg = PDU("resp", t)
        BY <1>0, <2>2, <3>6, StepForms
      <4>2. deferred'[PDU("resp", t)] = "wait"
        BY <3>2, <3>3, <4>1
      <4> QED BY <4>2 DEF Held, PDU
    <3> QED BY <1>0, <1>1, <2>1, <3>4, <3>5, <3>6, StepDone DEF OrderInv
  <2>5. CASE ReaderEndSend
    <3> DEFINE q == Head(todo).arg
    <3>1. /\ rpc = "select" /\ EndSend(q) /\ deferred' = deferred
          /\ Head(todo).op \in {"send", "mo", "receipt"}
      BY <1>0, <2>5 DEF ReaderEndSend, Phases
    <3>2. q \in PDUs /\ \A t \in Ticks : q = PDU("dlr", t) => Out(t)
      BY <1>0, <2>2, <3>1, StepForms DEF ReceiptOrder
    <3> HIDE DEF q
    <3>3. WireOrder' /\ \A t \in Ticks : Out(t) \/ q = PDU("resp", t) => Out(t)'
      <4>1. CASE Queue(q)
        BY <1>0, <1>1, <3>2, <4>1, QueuedKeepsOrder
      <4>2. CASE DropSend
        <5>1. wpc = "exited" /\ outbound' \in Seq(PDUs)
          BY <1>0, <4>2 DEF DropSend, WireOrder
        <5> QED BY <1>0, <1>1, <5>1, DroppedKeepsOrder
      <4> QED BY <3>1, <4>1, <4>2 DEF EndSend
    <3>4. AnswersStay
      BY <1>1, <3>1, <3>3 DEF AnswersStay
    <3>5. ASSUME NEW t \in Ticks, IsResponse(Head(todo), t) PROVE Held(t)'
      <4>1. q = PDU("resp", t)
        BY <1>0, <2>2, <3>5, StepForms DEF q
      <4> QED BY <3>3, <4>1 DEF Held
    <3> QED BY <1>0, <1>1, <2>1, <3>3, <3>4, <3>5, StepDone DEF OrderInv
  <2> QED BY <2>0, <2>3, <2>4, <2>5
<1> QED BY <1>2, <1>3

\* A deferred goroutine signals sent only once its response is queued or dropped.
LEMMA DeferredKeepsOrder ==
  ASSUME ShutdownInv, OrderInv, NEW p \in Deferrable, Deferred(p)
  PROVE  WireOrder' /\ AnswersStay
<1>0. WireOrder /\ ReceiptOrder /\ Ticks \subseteq Nat
  BY SessionConfig DEF OrderInv, Ticks
<1>1. PICK k \in {"resp", "dlr"}, u \in Ticks : p = PDU(k, u)
  BY DEF Deferrable, Ticks
<1>2. p \in PDUs /\ p.kind = k /\ p.tick = u
  BY <1>0, <1>1 DEF PDUs, PDU
<1>3. UNCHANGED <<wpc, writing, wire>>
  BY DEF Deferred, DeferredBeginSend, DeferredEndSend, DeferredStops
<1>4. DOMAIN deferred = Deferrable /\ \A t \in Ticks : PDU("resp", t) \in Deferrable /\ PDU("dlr", t) \in Deferrable
  BY DEF ShutdownInv, Deferrable, Ticks
<1>5. CASE DeferredBeginSend(p) \/ DeferredStops(p)
  <2>1. /\ UNCHANGED <<outbound, sent>> /\ deferred[p] = "wait"
        /\ \/ deferred' = [deferred EXCEPT ![p] = "select"] /\ Ready(p)
           \/ deferred' = [deferred EXCEPT ![p] = "ended"]
    BY <1>5 DEF DeferredBeginSend, DeferredStops, BeginSend
  <2>2. /\ \A q \in Deferrable : q # p => deferred'[q] = deferred[q]
        /\ \/ deferred'[p] = "select" /\ (k = "dlr" => u \in sent)
           \/ deferred'[p] = "ended"
    BY <1>2, <1>4, <2>1 DEF Ready
  <2>3. WireOrder' /\ \A t \in Ticks : Out(t) => Out(t)'
    BY <1>0, <1>3, <2>1, QueueUntouched
  <2>4. \A t \in Ticks : deferred[PDU("resp", t)] # "none" => deferred'[PDU("resp", t)] # "none"
    BY <1>4, <2>2
  <2>5. ASSUME NEW t \in Ticks, deferred'[PDU("dlr", t)] = "select"
        PROVE  deferred[PDU("dlr", t)] = "select" \/ t \in sent
    <3>1. CASE PDU("dlr", t) = p
      <4>1. k = "dlr" /\ u = t
        BY <1>2, <3>1 DEF PDU
      <4> QED BY <2>2, <2>5, <3>1, <4>1
    <3>2. CASE PDU("dlr", t) # p
      BY <1>4, <2>2, <2>5, <3>2
    <3> QED BY <3>1, <3>2
  <2> QED BY <2>1, <2>3, <2>4, <2>5 DEF AnswersStay
<1>6. CASE DeferredEndSend(p)
  <2>1. /\ EndSend(p) /\ deferred[p] = "select" /\ deferred' = [deferred EXCEPT ![p] = "ended"]
        /\ sent' = IF k = "resp" THEN sent \cup {u} ELSE sent
    BY <1>2, <1>6 DEF DeferredEndSend
  <2>2. \A t \in Ticks : p = PDU("dlr", t) => Out(t)
    <3> SUFFICES ASSUME NEW t \in Ticks, p = PDU("dlr", t) PROVE Out(t)
      OBVIOUS
    <3>1. t \in sent
      BY <1>0, <2>1 DEF ReceiptOrder
    <3> QED BY <1>0, <3>1 DEF WireOrder
  <2>3. \A t \in Ticks : t \in sent' => t \in sent \/ p = PDU("resp", t)
    BY <1>1, <2>1
  <2>4. WireOrder' /\ \A t \in Ticks : Out(t) => Out(t)'
    <3>1. CASE Queue(p)
      BY <1>0, <1>2, <1>3, <2>2, <2>3, <3>1, QueuedKeepsOrder
    <3>2. CASE DropSend
      <4>1. wpc = "exited" /\ outbound' \in Seq(PDUs)
        BY <1>0, <3>2 DEF DropSend, WireOrder
      <4> QED BY <1>0, <1>3, <4>1, DroppedKeepsOrder
    <3> QED BY <2>1, <3>1, <3>2 DEF EndSend
  <2>5. \A q \in Deferrable : deferred'[q] = IF q = p THEN "ended" ELSE deferred[q]
    BY <1>4, <2>1
  <2> QED BY <1>4, <2>1, <2>4, <2>5 DEF AnswersStay
<1> QED BY <1>5, <1>6 DEF Deferred

\* Every step of the session keeps the order.
LEMMA OrderNext == BindScheduleInv /\ ShutdownInv /\ OrderInv /\ [Next]_vars => OrderInv'
<1> SUFFICES ASSUME BindScheduleInv, ShutdownInv, OrderInv, [Next]_vars PROVE OrderInv'
  OBVIOUS
<1>0. WireOrder /\ ReceiptOrder
  BY DEF OrderInv
<1>1. CASE LoopStep
  BY <1>1, LoopKeepsOrder
<1>2. CASE HandlerStep
  BY <1>2, HandlersKeepOrder, AnswerKeepsOrder DEF HandlerStep
<1>3. CASE SendStep
  BY <1>3, SendsKeepOrder
<1>4. CASE TeardownStep
  <2>1. UNCHANGED <<pending, todo, wpc, writing, wire, sent, deferred>> /\ rpc' # "select"
    BY <1>4 DEF TeardownStep, Teardown, JoinCloser, JoinDeferred, JoinWriter, Deregister, TeardownUnchanged
  <2>2. WireOrder' /\ AnswersStay
    <3>1. CASE JoinWriter
      <4>1. wpc = "exited" /\ outbound' = <<>>
        BY <3>1 DEF JoinWriter
      <4>2. outbound' \in Seq(PDUs)
        BY <4>1
      <4> QED BY <1>0, <2>1, <4>1, <4>2, DroppedKeepsOrder DEF AnswersStay
    <3>2. CASE ~JoinWriter
      <4>1. outbound' = outbound
        BY <1>4, <3>2 DEF TeardownStep, Teardown, JoinCloser, JoinDeferred, Deregister
      <4> QED BY <1>0, <2>1, <4>1, NothingSent
    <3> QED BY <3>1, <3>2
  <2> QED BY <1>0, <2>1, <2>2, ReceiptsWait DEF OrderInv
<1>5. CASE OtherStep \/ UNCHANGED vars
  <2>1. UNCHANGED <<rpc, pending, todo>>
    BY <1>5, OthersLeaveReaderAlone
  <2>2. CASE Writer
    <3>1. UNCHANGED <<deferred, sent>>
      BY <2>2 DEF Writer, WriterReceive, WriterWrites, WriterFails, WriterEnds
    <3>2. WireOrder' /\ AnswersStay
      BY <1>0, <2>2, <3>1, WriterKeepsOrder DEF AnswersStay
    <3> QED BY <1>0, <2>1, <3>2, ReceiptsWait DEF OrderInv
  <2>3. CASE Closer
    <3>1. UNCHANGED <<wpc, writing, wire, deferred, sent>>
      BY <2>3 DEF Closer, CloserWakesReader, CloserBeginSend, CloserEndSend, CloserStops
    <3>2. CASE CloserEndSend
      <4>1. EndSend(PDU("unbind", 0)) /\ PDU("unbind", 0) \in PDUs
        BY <3>2 DEF CloserEndSend, PDU, PDUs
      <4>2. \A t \in Ticks : PDU("unbind", 0) # PDU("dlr", t)
        BY DEF PDU
      <4>3. WireOrder' /\ \A t \in Ticks : Out(t) => Out(t)'
        <5>1. CASE Queue(PDU("unbind", 0))
          BY <1>0, <3>1, <4>1, <4>2, <5>1, QueuedKeepsOrder
        <5>2. CASE DropSend
          <6>1. wpc = "exited" /\ outbound' \in Seq(PDUs)
            BY <1>0, <5>2 DEF DropSend, WireOrder
          <6> QED BY <1>0, <3>1, <6>1, DroppedKeepsOrder
        <5> QED BY <4>1, <5>1, <5>2 DEF EndSend
      <4>4. AnswersStay
        BY <3>1, <4>3 DEF AnswersStay
      <4> QED BY <1>0, <2>1, <4>3, <4>4, ReceiptsWait DEF OrderInv
    <3>3. CASE ~CloserEndSend
      <4>1. outbound' = outbound
        BY <2>3, <3>3 DEF Closer, CloserWakesReader, CloserBeginSend, CloserStops, BeginSend
      <4>2. WireOrder' /\ AnswersStay
        BY <1>0, <3>1, <4>1, NothingSent
      <4> QED BY <1>0, <2>1, <4>2, ReceiptsWait DEF OrderInv
    <3> QED BY <3>2, <3>3
  <2>4. CASE \E p \in Deferrable : Deferred(p)
    <3>1. WireOrder' /\ AnswersStay
      BY <2>4, DeferredKeepsOrder
    <3> QED BY <1>0, <2>1, <3>1, ReceiptsWait DEF OrderInv
  <2>5. CASE Quit \/ WindowElapses \/ OlderLeaves \/ UNCHANGED vars
    <3>1. UNCHANGED <<outbound, wpc, writing, wire, sent, deferred>>
      BY <2>5 DEF Quit, WindowElapses, OlderLeaves, SessionUnchanged, vars
    <3>2. WireOrder' /\ AnswersStay
      BY <1>0, <3>1, NothingSent
    <3> QED BY <1>0, <2>1, <3>2, ReceiptsWait DEF OrderInv
  <2> QED BY <1>5, <2>2, <2>3, <2>4, <2>5 DEF OtherStep
<1> QED BY <1>1, <1>2, <1>3, <1>4, <1>5, StepsByActor

\* newSession: nothing queued, nothing scheduled.
LEMMA OrderInit == Init => OrderInv
<1> SUFFICES ASSUME Init PROVE OrderInv
  OBVIOUS
<1>1. /\ outbound = <<>> /\ todo = <<>> /\ pending = <<>> /\ wire = {} /\ sent = {} /\ wpc = "receive" /\ rpc = "arm"
      /\ deferred = [p \in Deferrable |-> "none"]
  BY DEF Init
<1>2. <<>> \in Seq(PDUs) /\ Len(<<>>) = 0
  OBVIOUS
<1>3. WireOrder
  BY <1>1, <1>2 DEF WireOrder
<1>4. \A t \in Ticks : deferred[PDU("dlr", t)] = "none"
  BY <1>1 DEF Ticks, Deferrable
<1>5. ReceiptOrder
  BY <1>1, <1>2, <1>4 DEF ReceiptOrder
<1> QED BY <1>3, <1>5 DEF OrderInv

\* respond, emitDLR, sendWhen and writeLoop: whatever the latencies, the schedule, the flushes and
\* the failures of the writer, no receipt reaches the client before the response it is about.
THEOREM ReceiptFollowsResponse == Spec => []DLRAfterResponse
<1>1. OrderInv => DLRAfterResponse
  BY DEF OrderInv, WireOrder, DLRAfterResponse, Ticks
<1> QED BY <1>1, OrderInit, OrderNext, BindScheduleSafety, ShutdownSafety, PTL DEF Spec
-----------------------------------------------------------------------------
(***************************************************************************)
(* The gauge. Its two sides move in different goroutines, and what holds   *)
(* them together is that a goroutine is never started twice for one PDU.   *)
(***************************************************************************)
\* respond: a submit's response is held back once, by the first step of its handler.
HoldInv ==
  \A t \in Ticks :
    /\ deferred[PDU("resp", t)] # "none" => t <= perBindClock /\ (rpc = "record" => t < perBindClock)
    /\ \A i \in 1..Len(todo) : todo[i] = Hold(PDU("resp", t)) =>
         i = 1 /\ t = perBindClock /\ deferred[PDU("resp", t)] = "none"

\* sendBytes, writeLoop, and what teardown leaves behind once the writer is joined.
CountInv ==
  /\ depth = Len(outbound) + Selecting
  /\ owed = depth + (IF wpc = "write" THEN 1 ELSE 0)
  /\ rpc \in {"deregister", "ended"} => outbound = <<>> /\ wpc = "exited"

\* The goroutines that are between the two halves of sendBytes.
SelectSet(d) == {p \in Deferrable : d[p] = "select"}

\* There are finitely many goroutines.
LEMMA DeferrableFinite == IsFiniteSet(Deferrable)
<1> DEFINE K == {"resp", "dlr"}
           f == [x \in K \X Ticks |-> PDU(x[1], x[2])]
<1>1. IsFiniteSet(Ticks)
  BY SessionConfig, FS_Interval DEF Ticks
<1>2. IsFiniteSet(K)
  <2>1. IsFiniteSet({"resp"})
    BY FS_Singleton
  <2>2. K = {"resp"} \cup {"dlr"}
    OBVIOUS
  <2> QED BY <2>1, <2>2, FS_AddElement
<1>3. IsFiniteSet(K \X Ticks)
  BY <1>1, <1>2, FS_Product
<1>4. f \in Surjection(K \X Ticks, Deferrable)
  <2>1. f \in [K \X Ticks -> Deferrable]
    BY DEF Deferrable, Ticks
  <2>2. ASSUME NEW p \in Deferrable PROVE \E x \in K \X Ticks : f[x] = p
    <3>1. PICK k \in K, t \in Ticks : p = PDU(k, t)
      BY DEF Deferrable, Ticks
    <3>2. <<k, t>> \in K \X Ticks /\ f[<<k, t>>] = p
      BY <3>1
    <3> QED BY <3>2
  <2> QED BY <2>1, <2>2 DEF Surjection
<1> QED BY <1>3, <1>4, FS_Surjection

\* A goroutine that begins or ends a send is one more or one less; any other change counts for nothing.
LEMMA OneGoroutine ==
  ASSUME NEW d \in [Deferrable -> {"none", "wait", "select", "ended"}], NEW p \in Deferrable, NEW v
  PROVE  /\ Cardinality(SelectSet(d)) \in Nat
         /\ d[p] # "select" /\ v = "select" => Cardinality(SelectSet([d EXCEPT ![p] = v])) = Cardinality(SelectSet(d)) + 1
         /\ d[p] = "select" /\ v # "select" => Cardinality(SelectSet([d EXCEPT ![p] = v])) = Cardinality(SelectSet(d)) - 1
         /\ d[p] # "select" /\ v # "select" => Cardinality(SelectSet([d EXCEPT ![p] = v])) = Cardinality(SelectSet(d))
<1> DEFINE e == [d EXCEPT ![p] = v]
<1>1. IsFiniteSet(SelectSet(d))
  BY DeferrableFinite, FS_Subset DEF SelectSet
<1>2. Cardinality(SelectSet(d)) \in Nat
  BY <1>1, FS_CardinalityType
<1>3. \A q \in Deferrable : e[q] = IF q = p THEN v ELSE d[q]
  OBVIOUS
<1> HIDE DEF e
<1>4. ASSUME d[p] # "select", v = "select" PROVE SelectSet(e) = SelectSet(d) \cup {p} /\ p \notin SelectSet(d)
  BY <1>3, <1>4 DEF SelectSet
<1>5. ASSUME d[p] = "select", v # "select" PROVE SelectSet(e) = SelectSet(d) \ {p} /\ p \in SelectSet(d)
  BY <1>3, <1>5 DEF SelectSet
<1>6. ASSUME d[p] # "select", v # "select" PROVE SelectSet(e) = SelectSet(d)
  BY <1>3, <1>6 DEF SelectSet
<1>7. d[p] # "select" /\ v = "select" => Cardinality(SelectSet(e)) = Cardinality(SelectSet(d)) + 1
  BY <1>1, <1>4, FS_AddElement
<1>8. d[p] = "select" /\ v # "select" => Cardinality(SelectSet(e)) = Cardinality(SelectSet(d)) - 1
  BY <1>1, <1>5, FS_RemoveElement
<1> QED BY <1>2, <1>6, <1>7, <1>8 DEF e

\* The callers blocked on the channel are a number.
LEMMA SelectingType ==
  /\ Cardinality(SelectSet(deferred)) \in Nat /\ Selecting \in Nat
  /\ Selecting = Cardinality(SelectSet(deferred)) + (IF rpc = "select" THEN 1 ELSE 0) + (IF cpc = "select" THEN 1 ELSE 0)
<1>1. IsFiniteSet(SelectSet(deferred))
  BY DeferrableFinite, FS_Subset DEF SelectSet
<1>2. Cardinality(SelectSet(deferred)) \in Nat
  BY <1>1, FS_CardinalityType
<1>3. Selecting = Cardinality(SelectSet(deferred)) + (IF rpc = "select" THEN 1 ELSE 0) + (IF cpc = "select" THEN 1 ELSE 0)
  BY DEF Selecting, SelectSet
<1> QED BY <1>2, <1>3

\* The same after a step, whose goroutines changed as they did.
LEMMA SelectingNext ==
  Selecting' = Cardinality(SelectSet(deferred')) + (IF rpc' = "select" THEN 1 ELSE 0) + (IF cpc' = "select" THEN 1 ELSE 0)
  BY DEF Selecting, SelectSet, Deferrable, PDU
-----------------------------------------------------------------------------
\* A step that holds no response back anew.
LEMMA HoldsStay ==
  ASSUME HoldInv, perBindClock \in Nat, perBindClock' = perBindClock, rpc' = "record" => rpc = "record",
         \A t \in Ticks : deferred'[PDU("resp", t)] # "none" =>
           deferred[PDU("resp", t)] # "none" \/ (t = perBindClock /\ rpc' # "record"),
         \A t \in Ticks : \A i \in 1..Len(todo') : todo'[i] = Hold(PDU("resp", t)) =>
           i \in 1..Len(todo) /\ todo[i] = todo'[i] /\ deferred'[PDU("resp", t)] = deferred[PDU("resp", t)]
  PROVE  HoldInv'
<1>0. Ticks \subseteq Nat
  BY SessionConfig DEF Ticks
<1>1. ASSUME NEW t \in Ticks, deferred'[PDU("resp", t)] # "none"
      PROVE  t <= perBindClock' /\ (rpc' = "record" => t < perBindClock')
  <2>1. CASE deferred[PDU("resp", t)] # "none"
    BY <2>1 DEF HoldInv
  <2>2. CASE t = perBindClock /\ rpc' # "record"
    BY <1>0, <2>2
  <2> QED BY <1>1, <2>1, <2>2
<1>2. ASSUME NEW t \in Ticks, NEW i \in 1..Len(todo'), todo'[i] = Hold(PDU("resp", t))
      PROVE  i = 1 /\ t = perBindClock' /\ deferred'[PDU("resp", t)] = "none"
  BY <1>2 DEF HoldInv
<1>3. \A t \in Ticks :
        /\ deferred'[PDU("resp", t)] # "none" => t <= perBindClock' /\ (rpc' = "record" => t < perBindClock')
        /\ \A i \in 1..Len(todo') : todo'[i] = Hold(PDU("resp", t)) =>
             i = 1 /\ t = perBindClock' /\ deferred'[PDU("resp", t)] = "none"
  BY <1>1, <1>2
<1> QED BY <1>3, Zenon DEF HoldInv, Hold, PDU

\* The read loop and the handlers up to their answer hold nothing back.
LEMMA HandlersHoldNothing ==
  ASSUME BindScheduleInv, HoldInv, LoopStep \/ (HandlerStep /\ ~Answer)
  PROVE  HoldInv'
<1>0. ReaderTypes /\ Phases
  BY DEF BindScheduleInv
<1>1. deferred' = deferred
  BY DEF LoopStep, ArmReadDeadline, CheckQuit, ReadTimeout, FirstByte, ExtendDeadline, RecheckQuit,
     FrameComplete, FrameTimeout, ReadFault, LoopUnchanged, HandlerStep, HandleOther, RefuseBind, AcceptBind,
     IncBind, StoreBound, RefuseSubmit, Evaluate, ServeLatency, Commit, Panic, HandlerUnchanged
<1>2. CASE Commit
  <2>1. perBindClock' = perBindClock + 1 /\ todo' = todo /\ todo = <<>> /\ perBindClock \in Nat
    BY <1>0, <1>2 DEF Commit, Phases, ReaderTypes
  <2>2. ASSUME NEW t \in Ticks, deferred'[PDU("resp", t)] # "none"
        PROVE  t <= perBindClock' /\ t < perBindClock'
    <3>1. t \in Nat /\ t <= perBindClock
      BY <1>1, <2>2, SessionConfig DEF HoldInv, Ticks
    <3> QED BY <2>1, <3>1
  <2>3. Len(todo') = 0
    BY <2>1
  <2>4. \A t \in Ticks :
          /\ deferred'[PDU("resp", t)] # "none" => t <= perBindClock' /\ (rpc' = "record" => t < perBindClock')
          /\ \A i \in 1..Len(todo') : todo'[i] = Hold(PDU("resp", t)) =>
               i = 1 /\ t = perBindClock' /\ deferred'[PDU("resp", t)] = "none"
    BY <2>2, <2>3
  <2> QED BY <2>4, Zenon DEF HoldInv, Hold, PDU
<1>3. CASE ~Commit
  <2>1. perBindClock' = perBindClock /\ rpc' # "record" /\ perBindClock \in Nat
    BY <1>0, <1>3, LoopEffect DEF LoopPCs, HandlerStep, HandleOther, RefuseBind, AcceptBind,
       IncBind, StoreBound, RefuseSubmit, Evaluate, ServeLatency, Panic, Reply, Then, ReaderTypes
  <2>2. todo' = todo \/ \A i \in 1..Len(todo') : todo'[i].op # "hold"
    <3>1. CASE LoopStep
      <4>1. CASE todo' = Emit(pending)
        <5>1. pending \in Seq(Events)
          BY <1>0 DEF ReaderTypes
        <5> QED BY <4>1, <5>1, EmittedSteps
      <4>2. CASE todo' \in {<<>>, <<Send(PDU("nack", 0))>>}
        <5>1. CASE todo' = <<>>
          BY <5>1
        <5>2. CASE todo' = <<Send(PDU("nack", 0))>>
          BY <5>2 DEF Send
        <5> QED BY <4>2, <5>1, <5>2
      <4> QED BY <3>1, <4>1, <4>2, LoopEffect
    <3>2. CASE HandleOther \/ RefuseBind \/ RefuseSubmit \/ StoreBound
      BY <3>2 DEF HandleOther, RefuseBind, RefuseSubmit, StoreBound, Reply, Then, Send, Close
    <3>3. CASE AcceptBind \/ IncBind \/ Evaluate \/ ServeLatency \/ Panic
      BY <3>3 DEF AcceptBind, IncBind, Evaluate, ServeLatency, Panic
    <3> QED BY <1>3, <3>1, <3>2, <3>3 DEF HandlerStep
  <2>3. \A t \in Ticks : \A i \in 1..Len(todo') : todo'[i] = Hold(PDU("resp", t)) => i \in 1..Len(todo) /\ todo[i] = todo'[i]
    BY <2>2 DEF Hold
  <2> QED BY <1>1, <2>1, <2>3, HoldsStay
<1> QED BY <1>2, <1>3

\* Answer: the response of this very submit, which nobody holds yet, first.
LEMMA AnswerHoldsOnce ==
  ASSUME BindScheduleInv, HoldInv, Answer
  PROVE  HoldInv'
<1>0. ReaderTypes /\ Phases /\ DueInv
  BY DEF BindScheduleInv
<1>1. /\ deferred' = deferred /\ rpc = "record" /\ rpc' = "do" /\ perBindClock' = perBindClock
      /\ perBindClock \in Nat /\ Ticks \subseteq Nat
  BY <1>0, AnswerShape, SessionConfig DEF Answer, HandlerUnchanged, ReaderTypes, Ticks
<1>2. \A t \in Ticks : deferred[PDU("resp", t)] # "none" => t < perBindClock
  BY <1>1 DEF HoldInv
<1>3. \A i \in 1..Len(todo') : todo'[i].op # "hold" \/ (i = 1 /\ todo'[i] = Hold(PDU("resp", perBindClock)))
  <2>0. Send(PDU("resp", perBindClock)) \in Steps /\ Hold(PDU("resp", perBindClock)) \in Steps
    BY <1>1, StepsOfHandlers
  <2>1. CASE todo' = <<Close("scheduled_disconnect")>> \/ todo' = <<>> \o <<Close("fault_injection")>>
    BY <2>1 DEF Close
  <2>2. CASE todo' = <<Send(PDU("resp", perBindClock))>> \o <<Close("fault_injection")>>
    <3>1. Close("fault_injection") \in Steps /\ Close("fault_injection").op = "close"
      BY StepsOfHandlers DEF HandlerReasons, Close
    <3>2. Len(todo') = 2 /\ todo'[1] = Send(PDU("resp", perBindClock)) /\ todo'[2] = Close("fault_injection")
      BY <2>0, <2>2, <3>1, TwoSteps
    <3>3. Send(PDU("resp", perBindClock)).op = "send"
      BY DEF Send
    <3> QED BY <3>1, <3>2, <3>3
  <2>3. CASE \E r \in {<<>>, <<Send(PDU("resp", perBindClock))>>, <<Hold(PDU("resp", perBindClock))>>} :
               todo' = r \o Emit(SubSeq(ScheduleDLR, 1, DueCount(ScheduleDLR, perBindClock))) \o <<Cut>>
    <3> DEFINE d == SubSeq(ScheduleDLR, 1, DueCount(ScheduleDLR, perBindClock))
               m == Emit(d)
    <3>1. PICK r \in {<<>>, <<Send(PDU("resp", perBindClock))>>, <<Hold(PDU("resp", perBindClock))>>} :
            todo' = r \o m \o <<Cut>>
      BY <2>3
    <3>2. d \in Seq(Events)
      <4> DEFINE E == ScheduleDLR
      <4>1. E \in Seq(Events) /\ Len(E) \in Nat
        BY <1>0, <1>1, ScheduledDLREvents DEF DueInv
      <4> HIDE DEF E
      <4>2. DueCount(E, perBindClock) \in 0..Len(E)
        BY <4>1, DrainSearchStops
      <4>3. SubSeq(E, 1, DueCount(E, perBindClock)) \in Seq(Events)
        BY <4>1, <4>2, SubSeqProperties
      <4> QED BY <4>3 DEF E
    <3> HIDE DEF d
    <3>3. m \in Seq(Steps) /\ Len(m) \in Nat /\ \A i \in 1..Len(m) : m[i].op # "hold"
      BY <3>2, EmittedSteps
    <3> HIDE DEF m
    <3>4. /\ r \in Seq(Steps) /\ Len(r) \in {0, 1}
          /\ Len(r) = 1 => r[1].op # "hold" \/ r[1] = Hold(PDU("resp", perBindClock))
      <4>1. CASE r = <<>>
        BY <4>1
      <4>2. CASE r = <<Send(PDU("resp", perBindClock))>>
        <5>1. Send(PDU("resp", perBindClock)).op = "send"
          BY DEF Send
        <5> QED BY <2>0, <4>2, <5>1
      <4>3. CASE r = <<Hold(PDU("resp", perBindClock))>>
        BY <2>0, <4>3
      <4> QED BY <4>1, <4>2, <4>3
    <3>5. /\ Len(todo') = Len(r) + Len(m) + 1
          /\ \A i \in 1..Len(r) : todo'[i] = r[i]
          /\ \A i \in 1..Len(m) : todo'[Len(r) + i] = m[i]
          /\ todo'[Len(r) + Len(m) + 1] = Cut
      BY <3>1, <3>3, <3>4, AnsweredSteps
    <3>6. ASSUME NEW i \in 1..Len(todo'), ~(i <= Len(r)) PROVE todo'[i].op # "hold"
      <4>1. CASE i = Len(r) + Len(m) + 1
        BY <3>5, <4>1 DEF Cut
      <4>2. CASE i # Len(r) + Len(m) + 1
        <5>0. Len(r) \in {0, 1} /\ Len(m) \in Nat /\ i \in 1..(Len(r) + Len(m) + 1)
          BY <3>3, <3>4, <3>5
        <5>1. i - Len(r) \in 1..Len(m) /\ Len(r) + (i - Len(r)) = i
          BY <3>6, <4>2, <5>0
        <5> QED BY <3>3, <3>5, <5>1
      <4> QED BY <4>1, <4>2
    <3>7. ASSUME NEW i \in 1..Len(todo'), i <= Len(r)
          PROVE  todo'[i].op # "hold" \/ (i = 1 /\ todo'[i] = Hold(PDU("resp", perBindClock)))
      <4>1. i = 1 /\ Len(r) = 1 /\ todo'[i] = r[1]
        BY <3>4, <3>5, <3>7
      <4> QED BY <3>4, <4>1
    <3> QED BY <3>6, <3>7
  <2> QED BY <2>1, <2>2, <2>3, AnswerShape
<1>4. ASSUME NEW t \in Ticks, NEW i \in 1..Len(todo'), todo'[i] = Hold(PDU("resp", t))
      PROVE  i = 1 /\ t = perBindClock' /\ deferred'[PDU("resp", t)] = "none"
  <2>1. i = 1 /\ Hold(PDU("resp", t)) = Hold(PDU("resp", perBindClock))
    BY <1>3, <1>4 DEF Hold
  <2>2. t = perBindClock
    BY <2>1 DEF Hold, PDU
  <2>3. deferred[PDU("resp", t)] = "none"
    BY <1>1, <1>2, <2>2
  <2> QED BY <1>1, <2>1, <2>2, <2>3
<1>5. ASSUME NEW t \in Ticks, deferred'[PDU("resp", t)] # "none" PROVE t <= perBindClock' /\ rpc' # "record"
  BY <1>1, <1>2, <1>5
<1>6. \A t \in Ticks :
        /\ deferred'[PDU("resp", t)] # "none" => t <= perBindClock' /\ (rpc' = "record" => t < perBindClock')
        /\ \A i \in 1..Len(todo') : todo'[i] = Hold(PDU("resp", t)) =>
             i = 1 /\ t = perBindClock' /\ deferred'[PDU("resp", t)] = "none"
  BY <1>4, <1>5
<1> QED BY <1>6, Zenon DEF HoldInv, Hold, PDU

\* The handler's steps: once its first step is done no hold is left, and that step is the only one
\* that holds this submit's response back.
LEMMA SendsHoldOnce ==
  ASSUME BindScheduleInv, ShutdownInv, HoldInv, SendStep
  PROVE  HoldInv'
<1>0. /\ todo \in Seq(Steps) /\ Phases /\ perBindClock \in Nat /\ Ticks \subseteq Nat
      /\ DOMAIN deferred = Deferrable /\ \A t \in Ticks : PDU("resp", t) \in Deferrable
  <2>1. todo \in Seq(Steps) /\ Phases /\ perBindClock \in Nat /\ Ticks \subseteq Nat
    BY SessionConfig DEF BindScheduleInv, ReaderTypes, Ticks
  <2>2. DOMAIN deferred = Deferrable /\ \A t \in Ticks : PDU("resp", t) \in Deferrable
    BY DEF ShutdownInv, Deferrable, Ticks
  <2> QED BY <2>1, <2>2
<1>1. perBindClock' = perBindClock /\ rpc' # "record" /\ (~Spawn => deferred' = deferred)
  BY DEF SendStep, HandlerReturns, ReaderBeginSend, ReaderEndSend, DropMO, ReaderCloses, Spawn,
     ApplyDueDisconnects, DoUnchanged, ReturnUnchanged
<1>2. CASE HandlerReturns \/ ReaderBeginSend
  <2>1. todo' = todo /\ deferred' = deferred
    BY <1>2 DEF HandlerReturns, ReaderBeginSend
  <2> QED BY <1>0, <1>1, <2>1, HoldsStay
<1>3. CASE ~(HandlerReturns \/ ReaderBeginSend)
  <2>1. todo # <<>> /\ todo' = Tail(todo)
    BY <1>0, <1>3 DEF SendStep, ReaderEndSend, DropMO, ReaderCloses, Spawn, ApplyDueDisconnects, Phases
  <2>2. /\ Head(todo) = todo[1] /\ Head(todo) \in Steps /\ 1 \in 1..Len(todo) /\ Len(todo') = Len(todo) - 1
        /\ \A i \in 1..(Len(todo) - 1) : todo'[i] = todo[i + 1] /\ i + 1 \in 1..Len(todo) /\ i + 1 # 1
    BY <1>0, <2>1, NextStep
  <2>3. \A t \in Ticks : \A i \in 1..Len(todo') : todo'[i] # Hold(PDU("resp", t))
    BY <2>2 DEF HoldInv
  <2>4. ASSUME NEW t \in Ticks, deferred'[PDU("resp", t)] # "none"
        PROVE  deferred[PDU("resp", t)] # "none" \/ t = perBindClock
    <3>1. CASE Spawn
      <4>1. /\ deferred' = [deferred EXCEPT ![Head(todo).arg] = "wait"]
            /\ Head(todo).op \in {"hold", "receipt"}
        BY <3>1 DEF Spawn
      <4>2. CASE Head(todo).arg = PDU("resp", t)
        <5>1. Head(todo) = Hold(PDU("resp", t))
          BY <2>2, <4>1, <4>2 DEF Steps, Cut, Replies, Hold, PDU
        <5> QED BY <2>2, <5>1 DEF HoldInv
      <4>3. CASE Head(todo).arg # PDU("resp", t)
        BY <1>0, <2>4, <4>1, <4>3
      <4> QED BY <4>2, <4>3
    <3> QED BY <1>1, <2>4, <3>1
  <2> QED BY <1>0, <1>1, <2>3, <2>4, HoldsStay
<1> QED BY <1>2, <1>3

\* Every step of the session.
LEMMA HoldNext == BindScheduleInv /\ ShutdownInv /\ HoldInv /\ [Next]_vars => HoldInv'
<1> SUFFICES ASSUME BindScheduleInv, ShutdownInv, HoldInv, [Next]_vars PROVE HoldInv'
  OBVIOUS
<1>0. perBindClock \in Nat
  BY DEF BindScheduleInv, ReaderTypes
<1>1. CASE LoopStep \/ HandlerStep
  BY <1>1, HandlersHoldNothing, AnswerHoldsOnce
<1>2. CASE SendStep
  BY <1>2, SendsHoldOnce
<1>3. CASE TeardownStep
  <2>1. UNCHANGED <<perBindClock, todo, deferred>> /\ rpc' # "record"
    BY <1>3 DEF TeardownStep, Teardown, JoinCloser, JoinDeferred, JoinWriter, Deregister, TeardownUnchanged
  <2> QED BY <1>0, <2>1, HoldsStay
<1>4. CASE OtherStep \/ UNCHANGED vars
  <2>1. UNCHANGED <<perBindClock, todo, rpc>>
    BY <1>4, OthersLeaveReaderAlone
  <2>2. CASE \E p \in Deferrable : Deferred(p)
    <3>1. PICK p \in Deferrable : Deferred(p)
      BY <2>2
    <3>2. PICK v \in {"select", "ended"} : deferred[p] # "none" /\ deferred' = [deferred EXCEPT ![p] = v]
      BY <3>1 DEF Deferred, DeferredBeginSend, DeferredEndSend, DeferredStops
    <3>3. DOMAIN deferred = Deferrable /\ \A t \in Ticks : PDU("resp", t) \in Deferrable
      BY DEF ShutdownInv, Deferrable, Ticks
    <3>4. \A t \in Ticks : deferred'[PDU("resp", t)] # "none" => deferred[PDU("resp", t)] # "none"
      BY <3>2, <3>3
    <3>5. \A t \in Ticks : deferred[PDU("resp", t)] = "none" => deferred'[PDU("resp", t)] = "none"
      BY <3>2, <3>3
    <3>6. \A t \in Ticks : \A i \in 1..Len(todo) : todo[i] = Hold(PDU("resp", t)) => deferred[PDU("resp", t)] = "none"
      BY DEF HoldInv
    <3> QED BY <1>0, <2>1, <3>4, <3>5, <3>6, HoldsStay
  <2>3. CASE ~\E p \in Deferrable : Deferred(p)
    <3>1. deferred' = deferred
      BY <1>4, <2>3 DEF OtherStep, Writer, WriterReceive, WriterWrites, WriterFails, WriterEnds, Closer,
         CloserWakesReader, CloserBeginSend, CloserEndSend, CloserStops, Quit, WindowElapses, OlderLeaves,
         SessionUnchanged, vars
    <3> QED BY <1>0, <2>1, <3>1, HoldsStay
  <2> QED BY <2>2, <2>3
<1> QED BY <1>1, <1>2, <1>3, <1>4, StepsByActor
-----------------------------------------------------------------------------
Joined == {"deregister", "ended"}

\* sendBytes begins: the gauge and the callers go up together.
LEMMA BeginCounts ==
  ASSUME CountInv, outbound \in Seq(PDUs), BeginSend, wpc' = wpc, Selecting' = Selecting + 1, rpc' \notin Joined
  PROVE  CountInv'
<1>1. Len(outbound) \in Nat /\ Selecting \in Nat
  BY SelectingType
<1>2. /\ depth' = depth + 1 /\ owed' = owed + 1 /\ outbound' = outbound
  BY DEF BeginSend
<1>3. depth' = Len(outbound') + Selecting'
  BY <1>1, <1>2 DEF CountInv
<1>4. owed' = depth' + (IF wpc' = "write" THEN 1 ELSE 0)
  BY <1>1, <1>2 DEF CountInv
<1> QED BY <1>3, <1>4 DEF CountInv, Joined

\* sendBytes ends: the caller is in the queue now, or dropped and out of the gauge.
LEMMA EndCounts ==
  ASSUME CountInv, outbound \in Seq(PDUs), NEW p \in PDUs, EndSend(p), wpc' = wpc, Selecting' = Selecting - 1,
         rpc' \notin Joined
  PROVE  CountInv'
<1>1. Len(outbound) \in Nat /\ Selecting \in Nat
  BY SelectingType
<1>2. CASE Queue(p)
  <2>1. depth' = depth /\ owed' = owed /\ Len(outbound') = Len(outbound) + 1
    BY <1>2 DEF Queue
  <2>2. depth' = Len(outbound') + Selecting'
    BY <1>1, <2>1 DEF CountInv
  <2>3. owed' = depth' + (IF wpc' = "write" THEN 1 ELSE 0)
    BY <2>1 DEF CountInv
  <2> QED BY <2>2, <2>3 DEF CountInv, Joined
<1>3. CASE DropSend
  <2>1. depth' = depth - 1 /\ owed' = owed - 1 /\ outbound' = outbound
    BY <1>3 DEF DropSend
  <2>2. depth' = Len(outbound') + Selecting'
    BY <1>1, <2>1 DEF CountInv
  <2>3. owed' = depth' + (IF wpc' = "write" THEN 1 ELSE 0)
    BY <1>1, <2>1 DEF CountInv
  <2> QED BY <2>2, <2>3 DEF CountInv, Joined
<1> QED BY <1>2, <1>3 DEF EndSend

\* A step that sends nothing.
LEMMA SameCounts ==
  ASSUME CountInv, UNCHANGED <<outbound, depth, owed, wpc>>, Selecting' = Selecting, rpc' \in Joined => rpc \in Joined
  PROVE  CountInv'
<1>1. depth' = Len(outbound') + Selecting' /\ owed' = depth' + (IF wpc' = "write" THEN 1 ELSE 0)
  BY DEF CountInv
<1> QED BY <1>1 DEF CountInv, Joined

\* The reader outside of a send: it starts no goroutine twice, so no caller is lost from the count.
LEMMA ReaderCounts ==
  ASSUME BindScheduleInv, ShutdownInv, OrderInv, HoldInv, CountInv, SendStep
  PROVE  CountInv'
<1>0. /\ todo \in Seq(Steps) /\ Phases /\ outbound \in Seq(PDUs) /\ Ticks \subseteq Nat /\ ReceiptOrder
      /\ deferred \in [Deferrable -> {"none", "wait", "select", "ended"}]
  BY SessionConfig DEF BindScheduleInv, ReaderTypes, ShutdownInv, OrderInv, WireOrder, Ticks
<1>1. UNCHANGED <<wpc, cpc>> /\ rpc \in {"do", "select"} /\ rpc' \notin Joined
  BY DEF SendStep, HandlerReturns, ReaderBeginSend, ReaderEndSend, DropMO, ReaderCloses, Spawn,
     ApplyDueDisconnects, DoUnchanged, ReturnUnchanged, Joined
<1>2. CASE ReaderBeginSend
  <2>1. BeginSend /\ rpc = "do" /\ rpc' = "select" /\ deferred' = deferred
    BY <1>2 DEF ReaderBeginSend
  <2>2. Selecting' = Selecting + 1
    BY <1>1, <2>1, SelectingType, SelectingNext
  <2> QED BY <1>0, <1>1, <2>1, <2>2, BeginCounts
<1>3. CASE ReaderEndSend
  <2>1. /\ EndSend(Head(todo).arg) /\ rpc = "select" /\ rpc' = "do" /\ deferred' = deferred
        /\ todo # <<>> /\ Head(todo).op \in {"send", "mo", "receipt"}
    BY <1>0, <1>3 DEF ReaderEndSend, Phases
  <2>2. Head(todo).arg \in PDUs
    BY <1>0, <2>1, NextStep, StepForms
  <2>3. Selecting' = Selecting - 1
    BY <1>1, <2>1, SelectingType, SelectingNext
  <2> QED BY <1>0, <1>1, <2>1, <2>2, <2>3, EndCounts
<1>4. CASE Spawn
  <2>1. /\ todo # <<>> /\ rpc' = rpc /\ UNCHANGED <<outbound, depth, owed>>
        /\ deferred' = [deferred EXCEPT ![Head(todo).arg] = "wait"]
        /\ \/ Head(todo).op = "hold"
           \/ Head(todo).op = "receipt" /\ ResponseHeld(Head(todo).arg.tick)
    BY <1>4 DEF Spawn
  <2>2. Head(todo) \in Steps /\ Head(todo) = todo[1] /\ 1 \in 1..Len(todo)
    BY <1>0, <2>1, NextStep
  <2>3. Cardinality(SelectSet(deferred')) = Cardinality(SelectSet(deferred))
    <3>1. CASE Head(todo).arg \in Deferrable
      <4>1. PICK k \in {"resp", "dlr"}, t \in Ticks : Head(todo).arg = PDU(k, t)
        BY <3>1 DEF Deferrable, Ticks
      <4>2. deferred[Head(todo).arg] # "select"
        <5>1. CASE Head(todo).op = "hold"
          <6>1. Head(todo) = Hold(PDU("resp", t))
            BY <2>2, <4>1, <5>1 DEF Steps, Cut, Replies, Hold, PDU
          <6>2. Head(todo).arg = PDU("resp", t)
            BY <6>1 DEF Hold
          <6>3. deferred[PDU("resp", t)] = "none"
            BY <2>2, <6>1 DEF HoldInv
          <6> QED BY <6>2, <6>3
        <5>2. CASE Head(todo).op = "receipt" /\ ResponseHeld(Head(todo).arg.tick)
          <6>1. Head(todo).arg = PDU("dlr", Head(todo).arg.tick) /\ Head(todo).arg.kind = "dlr"
            BY <2>2, <5>2, StepsByKind
          <6>2. k = "dlr" /\ Head(todo).arg.tick = t
            BY <4>1, <6>1 DEF PDU
          <6>3. t \notin sent
            BY <5>2, <6>2 DEF ResponseHeld
          <6> QED BY <1>0, <4>1, <6>2, <6>3 DEF ReceiptOrder
        <5> QED BY <2>1, <5>1, <5>2
      <4>3. PICK q \in Deferrable : q = Head(todo).arg
        BY <3>1
      <4>4. deferred[q] # "select" /\ deferred \in [Deferrable -> {"none", "wait", "select", "ended"}]
        BY <1>0, <4>2, <4>3
      <4>5. ASSUME NEW v, v = "wait"
            PROVE  Cardinality(SelectSet([deferred EXCEPT ![q] = v])) = Cardinality(SelectSet(deferred))
        <5>1. v # "select"
          BY <4>5
        <5> QED BY <4>4, <5>1, OneGoroutine
      <4> QED BY <2>1, <4>3, <4>5
    <3>2. CASE Head(todo).arg \notin Deferrable
      <4>1. deferred' = deferred
        BY <1>0, <2>1, <3>2
      <4> QED BY <4>1
    <3> QED BY <3>1, <3>2
  <2>4. Selecting' = Selecting
    BY <1>1, <2>1, <2>3, SelectingType, SelectingNext
  <2> QED BY <1>1, <2>1, <2>4, SameCounts
<1>5. CASE HandlerReturns \/ DropMO \/ ReaderCloses \/ ApplyDueDisconnects
  <2>1. UNCHANGED <<outbound, depth, owed, deferred>> /\ rpc = "do" /\ rpc' # "select"
    BY <1>5 DEF HandlerReturns, DropMO, ReaderCloses, ApplyDueDisconnects
  <2>2. Selecting' = Selecting
    BY <1>1, <2>1, SelectingType, SelectingNext
  <2> QED BY <1>1, <2>1, <2>2, SameCounts
<1> QED BY <1>2, <1>3, <1>4, <1>5 DEF SendStep

\* Everybody else.
LEMMA CountNext ==
  BindScheduleInv /\ ShutdownInv /\ OrderInv /\ HoldInv /\ CountInv /\ [Next]_vars => CountInv'
<1> SUFFICES ASSUME BindScheduleInv, ShutdownInv, OrderInv, HoldInv, CountInv, [Next]_vars PROVE CountInv'
  OBVIOUS
<1>0. /\ outbound \in Seq(PDUs) /\ Len(outbound) \in Nat /\ Selecting \in Nat
      /\ deferred \in [Deferrable -> {"none", "wait", "select", "ended"}]
  BY SelectingType DEF ShutdownInv, OrderInv, WireOrder
<1>1. CASE LoopStep \/ HandlerStep
  <2>1. UNCHANGED <<outbound, depth, owed, wpc, cpc, deferred>> /\ rpc # "select" /\ rpc' # "select" /\ rpc' \notin Joined
    <3>1. CASE LoopStep
      BY <3>1, LoopEffect DEF LoopStep, LoopPCs, ArmReadDeadline, CheckQuit, ReadTimeout, FirstByte, ExtendDeadline,
         RecheckQuit, FrameComplete, FrameTimeout, ReadFault, LoopUnchanged, Joined
    <3>2. CASE HandlerStep
      BY <3>2 DEF HandlerStep, HandleOther, RefuseBind, AcceptBind, IncBind, StoreBound, RefuseSubmit, Evaluate,
         ServeLatency, Commit, Answer, Panic, Reply, Then, HandlerUnchanged, Joined
    <3> QED BY <1>1, <3>1, <3>2
  <2>2. Selecting' = Selecting
    BY <2>1, SelectingType, SelectingNext
  <2> QED BY <2>1, <2>2, SameCounts
<1>2. CASE SendStep
  BY <1>2, ReaderCounts
<1>3. CASE TeardownStep
  <2>1. UNCHANGED <<wpc, cpc, deferred>> /\ rpc # "select" /\ rpc' # "select"
    BY <1>3 DEF TeardownStep, Teardown, JoinCloser, JoinDeferred, JoinWriter, Deregister, TeardownUnchanged
  <2>2. Selecting' = Selecting
    BY <2>1, SelectingType, SelectingNext
  <2>3. CASE JoinWriter
    <3>1. /\ wpc = "exited" /\ outbound' = <<>> /\ Len(outbound') = 0
          /\ depth' = depth - Len(outbound) /\ owed' = owed - Len(outbound)
      BY <2>3 DEF JoinWriter
    <3>2. depth' = Len(outbound') + Selecting'
      BY <1>0, <2>2, <3>1 DEF CountInv
    <3>3. owed' = depth' + (IF wpc' = "write" THEN 1 ELSE 0)
      BY <1>0, <2>1, <3>1 DEF CountInv
    <3> QED BY <2>1, <3>1, <3>2, <3>3 DEF CountInv
  <2>4. CASE ~JoinWriter
    <3>1. UNCHANGED <<outbound, depth, owed>> /\ (rpc' \in Joined => rpc \in Joined)
      BY <1>3, <2>4 DEF TeardownStep, Teardown, JoinCloser, JoinDeferred, Deregister, Joined
    <3> QED BY <2>1, <2>2, <3>1, SameCounts
  <2> QED BY <2>3, <2>4
<1>4. CASE Writer
  <2>1. UNCHANGED <<rpc, cpc, deferred>>
    BY <1>4 DEF Writer, WriterReceive, WriterWrites, WriterFails, WriterEnds, ReaderUnchanged
  <2>2. Selecting' = Selecting
    BY <2>1, SelectingType, SelectingNext
  <2>3. rpc' \notin Joined
    BY <1>4, <2>1 DEF CountInv, Joined, Writer, WriterReceive, WriterWrites, WriterFails, WriterEnds
  <2>4. CASE WriterReceive
    <3>1. /\ wpc = "receive" /\ wpc' = "write" /\ depth' = depth - 1 /\ owed' = owed
          /\ outbound # <<>> /\ outbound' = Tail(outbound)
      BY <2>4 DEF WriterReceive
    <3>2. Len(outbound') = Len(outbound) - 1
      BY <1>0, <3>1, HeadTailProperties
    <3>3. depth' = Len(outbound') + Selecting'
      BY <1>0, <2>2, <3>1, <3>2 DEF CountInv
    <3>4. owed' = depth' + (IF wpc' = "write" THEN 1 ELSE 0)
      BY <1>0, <3>1 DEF CountInv
    <3> QED BY <2>3, <3>3, <3>4 DEF CountInv, Joined
  <2>5. CASE WriterWrites \/ \E r \in WriteFaults : WriterFails(r)
    <3>1. wpc = "write" /\ wpc' # "write" /\ depth' = depth /\ owed' = owed - 1 /\ outbound' = outbound
      BY <2>5 DEF WriterWrites, WriterFails
    <3>2. depth' = Len(outbound') + Selecting'
      BY <2>2, <3>1 DEF CountInv
    <3>3. owed' = depth' + (IF wpc' = "write" THEN 1 ELSE 0)
      BY <1>0, <3>1 DEF CountInv
    <3> QED BY <2>3, <3>2, <3>3 DEF CountInv, Joined
  <2>6. CASE WriterEnds
    <3>1. wpc = "receive" /\ wpc' = "exited" /\ depth' = depth /\ owed' = owed /\ outbound' = outbound
      BY <2>6 DEF WriterEnds
    <3>2. depth' = Len(outbound') + Selecting' /\ owed' = depth' + (IF wpc' = "write" THEN 1 ELSE 0)
      BY <2>2, <3>1 DEF CountInv
    <3> QED BY <2>3, <3>2 DEF CountInv, Joined
  <2> QED BY <1>4, <2>4, <2>5, <2>6 DEF Writer
<1>5. CASE Closer
  <2>1. UNCHANGED <<rpc, wpc, deferred>> /\ rpc \notin Joined
    BY <1>5 DEF ShutdownInv, Joined, Closer, CloserWakesReader, CloserBeginSend, CloserEndSend, CloserStops,
       ReaderUnchanged
  <2>2. CASE CloserBeginSend /\ bound
    <3>1. BeginSend /\ cpc = "unbind" /\ cpc' = "select"
      BY <2>2 DEF CloserBeginSend
    <3>2. Selecting' = Selecting + 1
      BY <2>1, <3>1, SelectingType, SelectingNext
    <3> QED BY <1>0, <2>1, <3>1, <3>2, BeginCounts
  <2>3. CASE CloserEndSend
    <3>1. EndSend(PDU("unbind", 0)) /\ cpc = "select" /\ cpc' = "ended" /\ PDU("unbind", 0) \in PDUs
      BY <2>3 DEF CloserEndSend, PDU, PDUs
    <3>2. Selecting' = Selecting - 1
      BY <2>1, <3>1, SelectingType, SelectingNext
    <3> QED BY <1>0, <2>1, <3>1, <3>2, EndCounts
  <2>4. CASE ~((CloserBeginSend /\ bound) \/ CloserEndSend)
    <3>1. UNCHANGED <<outbound, depth, owed>> /\ cpc # "select" /\ cpc' # "select"
      BY <1>5, <2>4 DEF Closer, CloserWakesReader, CloserBeginSend, CloserEndSend, CloserStops
    <3>2. Selecting' = Selecting
      BY <2>1, <3>1, SelectingType, SelectingNext
    <3> QED BY <2>1, <3>1, <3>2, SameCounts
  <2> QED BY <2>2, <2>3, <2>4
<1>6. CASE \E p \in Deferrable : Deferred(p)
  <2>1. PICK p \in Deferrable : Deferred(p)
    BY <1>6
  <2>2. UNCHANGED <<rpc, wpc, cpc>> /\ rpc \notin Joined
    <3>1. UNCHANGED <<rpc, wpc, cpc>> /\ deferred[p] \notin {"none", "ended"}
      BY <2>1 DEF Deferred, DeferredBeginSend, DeferredEndSend, DeferredStops, ReaderUnchanged
    <3> QED BY <3>1 DEF ShutdownInv, Quiescent, Joined
  <2>3. p \in PDUs
    BY SessionConfig DEF Deferrable, PDUs, PDU
  <2>4. CASE DeferredBeginSend(p)
    <3>1. BeginSend /\ deferred[p] = "wait" /\ deferred' = [deferred EXCEPT ![p] = "select"]
      BY <2>4 DEF DeferredBeginSend
    <3>2. Cardinality(SelectSet(deferred')) = Cardinality(SelectSet(deferred)) + 1
      BY <1>0, <3>1, OneGoroutine
    <3>3. Selecting' = Selecting + 1
      BY <2>2, <3>2, SelectingType, SelectingNext
    <3> QED BY <1>0, <2>2, <3>1, <3>3, BeginCounts
  <2>5. CASE DeferredEndSend(p)
    <3>1. EndSend(p) /\ deferred[p] = "select" /\ deferred' = [deferred EXCEPT ![p] = "ended"]
      BY <2>5 DEF DeferredEndSend
    <3>2. Cardinality(SelectSet(deferred')) = Cardinality(SelectSet(deferred)) - 1
      BY <1>0, <3>1, OneGoroutine
    <3>3. Selecting' = Selecting - 1
      BY <2>2, <3>2, SelectingType, SelectingNext
    <3> QED BY <1>0, <2>2, <2>3, <3>1, <3>3, EndCounts
  <2>6. CASE DeferredStops(p)
    <3>1. /\ UNCHANGED <<outbound, depth, owed>> /\ deferred[p] = "wait"
          /\ deferred' = [deferred EXCEPT ![p] = "ended"]
      BY <2>6 DEF DeferredStops
    <3>2. Cardinality(SelectSet(deferred')) = Cardinality(SelectSet(deferred))
      BY <1>0, <3>1, OneGoroutine
    <3>3. Selecting' = Selecting
      BY <2>2, <3>2, SelectingType, SelectingNext
    <3> QED BY <2>2, <3>1, <3>3, SameCounts
  <2> QED BY <2>1, <2>4, <2>5, <2>6 DEF Deferred
<1>7. CASE Quit \/ WindowElapses \/ OlderLeaves \/ UNCHANGED vars
  <2>1. UNCHANGED <<outbound, depth, owed, wpc, cpc, rpc, deferred>>
    BY <1>7 DEF Quit, WindowElapses, OlderLeaves, SessionUnchanged, vars
  <2>2. Selecting' = Selecting
    BY <2>1, SelectingType, SelectingNext
  <2> QED BY <2>1, <2>2, SameCounts
<1> QED BY <1>1, <1>2, <1>3, <1>4, <1>5, <1>6, <1>7, StepsByActor DEF OtherStep

\* newSession: no goroutine, nothing queued.
LEMMA CountInit == Init => HoldInv /\ CountInv
<1> SUFFICES ASSUME Init PROVE HoldInv /\ CountInv
  OBVIOUS
<1>1. /\ outbound = <<>> /\ todo = <<>> /\ wpc = "receive" /\ cpc = "wait" /\ rpc = "arm" /\ depth = 0 /\ owed = 0
      /\ deferred = [p \in Deferrable |-> "none"]
  BY DEF Init
<1>2. Len(outbound) = 0 /\ Len(todo) = 0
  BY <1>1
<1>3. \A t \in Ticks : deferred[PDU("resp", t)] = "none"
  BY <1>1 DEF Ticks, Deferrable
<1>4. HoldInv
  BY <1>2, <1>3 DEF HoldInv
<1>5. SelectSet(deferred) = {}
  BY <1>1 DEF SelectSet
<1>6. Cardinality(SelectSet(deferred)) = 0
  BY <1>5, FS_EmptySet
<1>7. Selecting = 0
  BY <1>1, <1>6, SelectingType
<1> QED BY <1>1, <1>2, <1>4, <1>7 DEF CountInv

\* sendBytes, writeLoop, sendWhen and teardown: for every capacity, every failure of the writer and
\* every number of held responses, the gauge is the queue plus the callers blocked on it, no PDU
\* handed over goes uncounted, and a session that ended has taken back all it added.
THEOREM EveryPDUIsAccounted == Spec => []OutboundAccounted
<1>1. ShutdownInv /\ CountInv => OutboundAccounted
  <2> SUFFICES ASSUME ShutdownInv, CountInv PROVE OutboundAccounted
    OBVIOUS
  <2>1. ASSUME rpc = "ended" PROVE depth = 0 /\ owed = 0
    <3>1. cpc = "ended" /\ outbound = <<>> /\ wpc = "exited" /\ Len(outbound) = 0
      BY <2>1 DEF ShutdownInv, CountInv
    <3>2. SelectSet(deferred) = {}
      BY <2>1 DEF ShutdownInv, Quiescent, SelectSet
    <3>3. Cardinality(SelectSet(deferred)) = 0
      BY <3>2, FS_EmptySet
    <3>4. Selecting = 0
      BY <2>1, <3>1, <3>3, SelectingType
    <3> QED BY <3>1, <3>4 DEF CountInv
  <2> QED BY <2>1 DEF CountInv, OutboundAccounted
<1> QED BY <1>1, CountInit, CountNext, HoldNext, OrderInit, OrderNext, BindScheduleSafety, ShutdownSafety, PTL DEF Spec
-----------------------------------------------------------------------------
(***************************************************************************)
(* The type invariant. Its parts that are more than types: what the client *)
(* may still send, that the numbers on the schedule are used up, that a    *)
(* session which read on has no reason to close, and that the record is    *)
(* written once, with a reason.                                            *)
(***************************************************************************)
ControlTypes ==
  /\ quit \in BOOLEAN /\ older \in BOOLEAN /\ rejects \in BOOLEAN /\ registered \in BOOLEAN
  /\ canSubmit \in BOOLEAN /\ canReceive \in BOOLEAN /\ quiet \in BOOLEAN /\ bound \in BOOLEAN
  /\ outboundClosed \in BOOLEAN /\ done \in BOOLEAN /\ stopDeferred \in BOOLEAN /\ failedFirst \in BOOLEAN
  /\ rpc \in ReaderPCs /\ cmd \in Commands \cup {"none"}
  /\ deadline \in {"none", "idle", "quiescence", "past"}
  /\ wpc \in {"receive", "write", "exited"}
  /\ writeErr \in WriteFaults \cup {"unset"}
  /\ cpc \in {"wait", "unbind", "select", "ended"}
  /\ decision = <<>> \/ decision \in Decision

\* FrameComplete: a submit that is being handled has a tick left for it.
Budget ==
  /\ perBindClock \in 0..MaxTick
  /\ (rpc = "handle" /\ cmd = "submit_sm") \/ rpc \in {"latency", "commit"} => perBindClock < MaxTick

\* schedule.Runner: no event waits with a number that is still to be given out.
SeqUsed == \A i \in 1..Len(pending) : pending[i].seq < seq

SetReasons == LoopReasons \cup HandlerReasons
Reasons ==
  /\ closeReason \in SetReasons \cup {"unset"}
  /\ IF rpc \in Joined THEN recordedReason \in CloseReasons ELSE recordedReason = "unset"

Bounded == Len(outbound) <= OutboundCap /\ sent \subseteq Ticks

TypeInv == ControlTypes /\ Budget /\ SeqUsed /\ Reasons /\ Bounded

\* newSession.
LEMMA TypeInit == Init => TypeInv
<1> SUFFICES ASSUME Init PROVE TypeInv
  OBVIOUS
<1>1. ControlTypes
  BY SessionConfig DEF Init, ControlTypes, ReaderPCs
<1>2. Budget
  BY SessionConfig DEF Init, Budget
<1>3. Len(pending) = 0 /\ Len(outbound) = 0 /\ sent = {} /\ closeReason = "unset" /\ recordedReason = "unset" /\ rpc = "arm"
  BY DEF Init
<1>4. SeqUsed /\ Bounded /\ Reasons
  BY <1>3, SessionConfig DEF SeqUsed, Bounded, Reasons, Joined
<1> QED BY <1>1, <1>2, <1>4 DEF TypeInv

\* The control state of the read loop.
LEMMA LoopControl ==
  ASSUME ControlTypes, LoopStep
  PROVE  ControlTypes'
<1>1. /\ UNCHANGED <<quit, older, rejects, registered, canSubmit, canReceive, bound, outboundClosed, done, stopDeferred,
                     failedFirst, wpc, writeErr, cpc, decision>>
      /\ quiet' = quiet
  BY DEF LoopStep, ArmReadDeadline, CheckQuit, ReadTimeout, FirstByte, ExtendDeadline, RecheckQuit, FrameComplete,
     FrameTimeout, ReadFault, LoopUnchanged
<1>2. rpc' \in ReaderPCs /\ cmd' \in Commands \cup {"none"} /\ deadline' \in {"none", "idle", "quiescence", "past"}
  BY DEF ControlTypes, ReaderPCs, LoopStep, ArmReadDeadline, CheckQuit, ReadTimeout, FirstByte, ExtendDeadline,
     RecheckQuit, FrameComplete, FrameTimeout, ReadFault
<1> QED BY <1>1, <1>2 DEF ControlTypes

\* The control state of the handlers: what Evaluate decides is one of the profile's decisions.
LEMMA HandlerControl ==
  ASSUME ControlTypes, BindScheduleInv, BindScheduleInv', HandlerStep
  PROVE  ControlTypes'
<1>1. /\ UNCHANGED <<quit, older, rejects, outboundClosed, done, stopDeferred, failedFirst, wpc, writeErr, cpc, cmd, deadline>>
      /\ rpc' \in ReaderPCs
  BY DEF ReaderPCs, HandlerStep, HandleOther, RefuseBind, AcceptBind, IncBind, StoreBound, RefuseSubmit, Evaluate,
     ServeLatency, Commit, Answer, Panic, Reply, Then, HandlerUnchanged
<1>2. registered' \in BOOLEAN /\ canSubmit' \in BOOLEAN /\ canReceive' \in BOOLEAN /\ quiet' \in BOOLEAN /\ bound' \in BOOLEAN
  BY DEF ControlTypes, HandlerStep, HandleOther, RefuseBind, AcceptBind, IncBind, StoreBound, RefuseSubmit, Evaluate,
     ServeLatency, Commit, Answer, Panic
<1>3. decision' = <<>> \/ decision' \in Decision
  <2>1. CASE Evaluate
    <3>1. rpc' \in {"latency", "commit"}
      BY <2>1 DEF Evaluate
    <3>2. decision' \in DecisionsOf[profile'] /\ profile' \in DOMAIN DecisionsOf
      BY <3>1 DEF BindScheduleInv, ReaderTypes, Submitting
    <3> QED BY <3>2, ScheduleConfig
  <2>2. CASE ~Evaluate
    <3>1. decision' = decision
      BY <2>2 DEF HandlerStep, HandleOther, RefuseBind, AcceptBind, IncBind, StoreBound, RefuseSubmit, ServeLatency,
         Commit, Answer, Panic
    <3> QED BY <3>1 DEF ControlTypes
  <2> QED BY <2>1, <2>2
<1> QED BY <1>1, <1>2, <1>3 DEF ControlTypes

\* The control state of a handler's sends and of the teardown.
LEMMA SendControl ==
  ASSUME ControlTypes, SendStep \/ TeardownStep
  PROVE  ControlTypes'
<1>1. CASE SendStep
  <2>1. /\ UNCHANGED <<quit, older, rejects, registered, canSubmit, canReceive, quiet, bound, outboundClosed, done,
                       stopDeferred, failedFirst, wpc, writeErr, cpc, deadline>>
        /\ cmd' \in {cmd, "none"} /\ decision' \in {decision, <<>>} /\ rpc' \in ReaderPCs
    BY <1>1 DEF ReaderPCs, SendStep, HandlerReturns, ReaderBeginSend, ReaderEndSend, DropMO, ReaderCloses, Spawn,
       ApplyDueDisconnects, DoUnchanged, ReturnUnchanged
  <2> QED BY <2>1 DEF ControlTypes
<1>2. CASE TeardownStep
  <2>1. /\ UNCHANGED <<quit, older, rejects, canSubmit, canReceive, quiet, bound, wpc, writeErr, cpc, deadline, cmd, decision>>
        /\ rpc' \in ReaderPCs
    BY <1>2 DEF ReaderPCs, TeardownStep, Teardown, JoinCloser, JoinDeferred, JoinWriter, Deregister, TeardownUnchanged
  <2>2. /\ registered' \in BOOLEAN /\ outboundClosed' \in BOOLEAN /\ done' \in BOOLEAN /\ stopDeferred' \in BOOLEAN
        /\ failedFirst' \in BOOLEAN
    BY <1>2 DEF ControlTypes, TeardownStep, Teardown, JoinCloser, JoinDeferred, JoinWriter, Deregister
  <2> QED BY <2>1, <2>2 DEF ControlTypes
<1> QED BY <1>1, <1>2

\* The control state of everybody else.
LEMMA OtherControl ==
  ASSUME ControlTypes, OtherStep \/ UNCHANGED vars
  PROVE  ControlTypes' /\ recordedReason' = recordedReason
<1>1. /\ UNCHANGED <<rpc, cmd, decision, canSubmit, canReceive, bound, registered>>
      /\ UNCHANGED <<rejects, outboundClosed, done, stopDeferred, failedFirst, recordedReason>>
  BY OthersLeaveReaderAlone DEF OtherStep, Writer, WriterReceive, WriterWrites, WriterFails, WriterEnds, Closer,
     CloserWakesReader, CloserBeginSend, CloserEndSend, CloserStops, Deferred, DeferredBeginSend, DeferredEndSend,
     DeferredStops, ReaderUnchanged, Quit, WindowElapses, OlderLeaves, SessionUnchanged, vars
<1>2. CASE Writer
  <2>1. /\ UNCHANGED <<quit, older, quiet, deadline, cpc>> /\ wpc' \in {"receive", "write", "exited"}
        /\ writeErr' \in WriteFaults \cup {"unset"}
    BY <1>2 DEF ControlTypes, Writer, WriterReceive, WriterWrites, WriterFails, WriterEnds, ReaderUnchanged
  <2> QED BY <1>1, <2>1 DEF ControlTypes
<1>3. CASE Closer
  <2>1. /\ UNCHANGED <<quit, older, quiet, wpc, writeErr>> /\ cpc' \in {"wait", "unbind", "select", "ended"}
        /\ deadline' \in {deadline, "past"}
    BY <1>3 DEF Closer, CloserWakesReader, CloserBeginSend, CloserEndSend, CloserStops, ReaderUnchanged
  <2> QED BY <1>1, <2>1 DEF ControlTypes
<1>4. CASE \E p \in Deferrable : Deferred(p)
  <2>1. UNCHANGED <<quit, older, quiet, wpc, writeErr, cpc, deadline>>
    BY <1>4 DEF Deferred, DeferredBeginSend, DeferredEndSend, DeferredStops, ReaderUnchanged
  <2> QED BY <1>1, <2>1 DEF ControlTypes
<1>5. CASE Quit \/ WindowElapses \/ OlderLeaves \/ UNCHANGED vars
  <2>1. UNCHANGED <<wpc, writeErr, cpc, deadline>>
    BY <1>5 DEF Quit, WindowElapses, OlderLeaves, SessionUnchanged, vars
  <2>2. quit' \in BOOLEAN /\ older' \in BOOLEAN /\ quiet' \in BOOLEAN
    BY <1>5 DEF ControlTypes, Quit, WindowElapses, OlderLeaves, vars
  <2> QED BY <1>1, <2>1, <2>2 DEF ControlTypes
<1> QED BY <1>2, <1>3, <1>4, <1>5 DEF OtherStep

\* The submits left, over the reader's steps.
LEMMA BudgetKept ==
  ASSUME Budget, perBindClock \in Nat, [Next]_vars
  PROVE  Budget'
<1>0. MaxTick \in Nat
  BY SessionConfig
<1>1. CASE Commit
  <2>1. rpc = "commit" /\ perBindClock' = perBindClock + 1 /\ rpc' = "record"
    BY <1>1 DEF Commit
  <2> QED BY <1>0, <2>1 DEF Budget
<1>2. CASE LoopStep
  <2>1. perBindClock' = perBindClock
    BY <1>2, LoopEffect
  <2>2. CASE FrameComplete
    <3>1. rpc' = "handle" /\ (cmd' = "submit_sm" => perBindClock < MaxTick)
      BY <2>2 DEF FrameComplete
    <3> QED BY <2>1, <3>1 DEF Budget
  <2>3. CASE ~FrameComplete
    <3>1. rpc' \notin {"handle", "latency", "commit"}
      BY <1>2, <2>3 DEF LoopStep, ArmReadDeadline, CheckQuit, ReadTimeout, FirstByte, ExtendDeadline, RecheckQuit,
         FrameTimeout, ReadFault
    <3> QED BY <2>1, <3>1 DEF Budget
  <2> QED BY <2>2, <2>3
<1>3. CASE HandlerStep /\ ~Commit
  <2>1. perBindClock' = perBindClock /\ rpc' # "handle"
    BY <1>3 DEF HandlerStep, HandleOther, RefuseBind, AcceptBind, IncBind, StoreBound, RefuseSubmit, Evaluate,
       ServeLatency, Answer, Panic, Reply, Then
  <2>2. rpc' \in {"latency", "commit"} => (rpc = "handle" /\ cmd = "submit_sm") \/ rpc = "latency"
    BY <1>3 DEF HandlerStep, HandleOther, RefuseBind, AcceptBind, IncBind, StoreBound, RefuseSubmit, Evaluate,
       ServeLatency, Answer, Panic, Reply, Then
  <2> QED BY <2>1, <2>2 DEF Budget
<1>4. CASE SendStep \/ TeardownStep
  <2>1. perBindClock' = perBindClock /\ rpc' \notin {"handle", "latency", "commit"}
    BY <1>4 DEF SendStep, HandlerReturns, ReaderBeginSend, ReaderEndSend, DropMO, ReaderCloses, Spawn,
       ApplyDueDisconnects, DoUnchanged, ReturnUnchanged, TeardownStep, Teardown, JoinCloser, JoinDeferred, JoinWriter,
       Deregister, TeardownUnchanged
  <2> QED BY <2>1 DEF Budget
<1>5. CASE OtherStep \/ UNCHANGED vars
  <2>1. UNCHANGED <<perBindClock, rpc, cmd>>
    BY <1>5, OthersLeaveReaderAlone
  <2> QED BY <2>1 DEF Budget
<1> QED BY <1>1, <1>2, <1>3, <1>4, <1>5, StepsByActor

\* The numbers given out: an event takes the next one, and draining only takes events away.
LEMMA SeqKept ==
  ASSUME BindScheduleInv, SeqUsed, [Next]_vars
  PROVE  SeqUsed'
<1>0. /\ pending \in Seq(Events) /\ seq \in Nat /\ Len(pending) \in Nat
      /\ \A i \in 1..Len(pending) : pending[i].seq \in Nat /\ pending[i].seq < seq
  <2>1. pending \in Seq(Events) /\ seq \in Nat
    BY DEF BindScheduleInv, ReaderTypes
  <2>2. \A i \in 1..Len(pending) : pending[i] \in Events
    BY <2>1
  <2> QED BY <2>1, <2>2 DEF Events, SeqUsed
<1>1. CASE StoreBound
  <2>1. pending = <<>>
    BY <1>1 DEF BindScheduleInv, Phases, StoreBound
  <2>2. pending' = ScheduledMOs /\ seq' = seq + Len(MOTicks)
    BY <1>1 DEF StoreBound
  <2> QED BY <1>0, <2>1, <2>2, ScheduledMOEvents DEF SeqUsed
<1>2. CASE Answer
  <2>0. rpc = "record" /\ ReaderTypes /\ DueSorted(pending)
    BY <1>2 DEF BindScheduleInv, DueInv, Answer
  <2>1. CASE UNCHANGED <<pending, seq>>
    BY <2>1 DEF SeqUsed
  <2>2. CASE /\ seq' = IF HasReceipt THEN seq + 1 ELSE seq
             /\ pending' = SubSeq(ScheduleDLR, DueCount(ScheduleDLR, perBindClock) + 1, Len(ScheduleDLR))
    <3> DEFINE ev == ScheduleDLR
               n == DueCount(ev, perBindClock)
    <3>1. /\ ev \in Seq(Events)
          /\ \A k \in 1..Len(ev) : \/ \E i \in 1..Len(pending) : ev[k] = pending[i]
                                   \/ HasReceipt /\ ev[k].seq = seq
      BY <2>0, ScheduledDLREvents
    <3>2. pending' = SubSeq(ev, n + 1, Len(ev))
      BY <2>2
    <3> HIDE DEF ev
    <3>3. Len(ev) \in Nat /\ n \in 0..Len(ev)
      BY <3>1, DrainSearchStops
    <3> HIDE DEF n
    <3>4. \A k \in 1..Len(ev) : ev[k].seq < seq'
      <4> SUFFICES ASSUME NEW k \in 1..Len(ev) PROVE ev[k].seq < seq'
        OBVIOUS
      <4>1. CASE \E i \in 1..Len(pending) : ev[k] = pending[i]
        BY <1>0, <2>2, <4>1
      <4>2. CASE HasReceipt /\ ev[k].seq = seq
        BY <1>0, <2>2, <4>2
      <4> QED BY <3>1, <4>1, <4>2
    <3>5. /\ Len(pending') = Len(ev) - n
          /\ \A k \in 1..(Len(ev) - n) : pending'[k] = ev[n + k] /\ n + k \in 1..Len(ev)
      BY <3>1, <3>2, <3>3
    <3> QED BY <3>3, <3>4, <3>5 DEF SeqUsed
  <2> QED BY <1>2, <2>1, <2>2 DEF Answer
<1>3. CASE LoopStep
  <2>1. seq' = seq /\ (pending' = pending \/ pending' = <<>>)
    BY <1>3, LoopEffect
  <2> QED BY <1>0, <2>1 DEF SeqUsed
<1>4. CASE (HandlerStep /\ ~StoreBound /\ ~Answer) \/ SendStep \/ TeardownStep
  <2>1. UNCHANGED <<pending, seq>>
    BY <1>4 DEF HandlerStep, HandleOther, RefuseBind, AcceptBind, IncBind, RefuseSubmit, Evaluate, ServeLatency, Commit,
       Panic, SendStep, HandlerReturns, ReaderBeginSend, ReaderEndSend, DropMO, ReaderCloses, Spawn,
       ApplyDueDisconnects, DoUnchanged, ReturnUnchanged, TeardownStep, Teardown, JoinCloser, JoinDeferred, JoinWriter,
       Deregister, TeardownUnchanged
  <2> QED BY <2>1 DEF SeqUsed
<1>5. CASE OtherStep \/ UNCHANGED vars
  <2>1. UNCHANGED <<pending, seq>>
    BY <1>5, OthersLeaveReaderAlone
  <2> QED BY <2>1 DEF SeqUsed
<1> QED BY <1>1, <1>2, <1>3, <1>4, <1>5, StepsByActor

\* closeWith and recordClose: the reader sets a reason of its own, and the record, written once the
\* writer is joined, has the writer's failure, that reason, or a panic.
LEMMA ReasonsKept ==
  ASSUME BindScheduleInv, ControlTypes, Reasons, [Next]_vars
  PROVE  Reasons'
<1>0. todo \in Seq(Steps) /\ LoopReasons \subseteq SetReasons /\ HandlerReasons \subseteq SetReasons /\ SetReasons \subseteq CloseReasons
  BY DEF BindScheduleInv, ReaderTypes, SetReasons, CloseReasons, LoopReasons, HandlerReasons
<1>1. CASE LoopStep
  <2>1. rpc \notin Joined /\ rpc' \notin Joined /\ (closeReason' = closeReason \/ closeReason' \in LoopReasons)
    BY <1>1, LoopEffect DEF LoopPCs, Joined
  <2>2. recordedReason' = recordedReason
    BY <1>1 DEF LoopStep, ArmReadDeadline, CheckQuit, ReadTimeout, FirstByte, ExtendDeadline, RecheckQuit, FrameComplete,
       FrameTimeout, ReadFault, LoopUnchanged
  <2> QED BY <1>0, <2>1, <2>2 DEF Reasons
<1>2. CASE HandlerStep
  <2>1. /\ rpc \notin Joined /\ rpc' \notin Joined /\ recordedReason' = recordedReason
        /\ closeReason' = closeReason \/ closeReason' = "shutdown"
    BY <1>2 DEF Joined, HandlerStep, HandleOther, RefuseBind, AcceptBind, IncBind, StoreBound, RefuseSubmit, Evaluate,
       ServeLatency, Commit, Answer, Panic, Reply, Then, HandlerUnchanged, CloseWith
  <2>2. "shutdown" \in SetReasons
    BY DEF SetReasons, LoopReasons
  <2> QED BY <2>1, <2>2 DEF Reasons
<1>3. CASE SendStep
  <2>1. rpc \notin Joined /\ rpc' \notin Joined /\ recordedReason' = recordedReason
    BY <1>3 DEF Joined, SendStep, HandlerReturns, ReaderBeginSend, ReaderEndSend, DropMO, ReaderCloses, Spawn,
       ApplyDueDisconnects, DoUnchanged, ReturnUnchanged
  <2>2. closeReason' = closeReason \/ closeReason' \in HandlerReasons
    <3>1. CASE ReaderCloses
      <4>1. todo # <<>> /\ Head(todo).op = "close" /\ closeReason' = Head(todo).arg
        BY <3>1 DEF ReaderCloses, CloseWith
      <4> QED BY <1>0, <4>1, NextStep, StepsByKind
    <3>2. CASE ApplyDueDisconnects
      BY <3>2 DEF ApplyDueDisconnects, CloseWith, HandlerReasons
    <3>3. CASE ~ReaderCloses /\ ~ApplyDueDisconnects
      BY <1>3, <3>3 DEF SendStep, HandlerReturns, ReaderBeginSend, ReaderEndSend, DropMO, Spawn
    <3> QED BY <3>1, <3>2, <3>3
  <2> QED BY <1>0, <2>1, <2>2 DEF Reasons
<1>4. CASE JoinWriter
  <2>1. rpc' = "deregister" /\ recordedReason' = CloseRecord /\ closeReason' = closeReason
    BY <1>4 DEF JoinWriter, TeardownUnchanged
  <2>2. writeErr \in {"write_error", "write_timeout", "unset"}
    BY SessionConfig DEF ControlTypes
  <2>3. CloseRecord \in CloseReasons
    BY <1>0, <2>2 DEF CloseRecord, Reasons, CloseReasons
  <2> QED BY <2>1, <2>3 DEF Reasons, Joined
<1>5. CASE TeardownStep /\ ~JoinWriter
  <2>1. UNCHANGED <<recordedReason, closeReason>> /\ (rpc \in Joined) = (rpc' \in Joined)
    BY <1>5 DEF TeardownStep, Teardown, JoinCloser, JoinDeferred, Deregister, TeardownUnchanged, Joined
  <2> QED BY <2>1 DEF Reasons
<1>6. CASE OtherStep \/ UNCHANGED vars
  <2>1. UNCHANGED <<recordedReason, closeReason, rpc>>
    BY <1>6, OthersLeaveReaderAlone, OtherControl
  <2> QED BY <2>1 DEF Reasons
<1> QED BY <1>1, <1>2, <1>3, <1>4, <1>5, <1>6, StepsByActor

\* sendBytes, sendWhen: the channel never holds more than its capacity, and what is signalled as
\* queued is the response of a tick.
LEMMA BoundedKept ==
  ASSUME OrderInv, Bounded, [Next]_vars
  PROVE  Bounded'
<1>0. outbound \in Seq(PDUs) /\ Len(outbound) \in Nat /\ Len(outbound) <= OutboundCap /\ OutboundCap \in Nat
  BY SessionConfig DEF OrderInv, WireOrder, Bounded
<1>1. CASE UNCHANGED <<outbound, sent>>
  BY <1>1 DEF Bounded
<1>2. ASSUME NEW p, EndSend(p) PROVE Len(outbound') <= OutboundCap
  <2>1. CASE Queue(p)
    <3>1. Len(outbound) < OutboundCap /\ outbound' = Append(outbound, p)
      BY <2>1 DEF Queue
    <3>2. Len(outbound') = Len(outbound) + 1
      BY <1>0, <3>1
    <3> QED BY <1>0, <3>1, <3>2
  <2>2. CASE DropSend
    BY <1>0, <2>2 DEF DropSend
  <2> QED BY <1>2, <2>1, <2>2 DEF EndSend
<1>3. CASE ReaderEndSend \/ CloserEndSend
  <2>1. sent' = sent
    BY <1>3 DEF ReaderEndSend, CloserEndSend
  <2>2. Len(outbound') <= OutboundCap
    BY <1>2, <1>3 DEF ReaderEndSend, CloserEndSend
  <2> QED BY <2>1, <2>2 DEF Bounded
<1>4. CASE \E p \in Deferrable : DeferredEndSend(p)
  <2>1. PICK p \in Deferrable : DeferredEndSend(p)
    BY <1>4
  <2>2. p.tick \in Ticks
    BY DEF Deferrable, PDU, Ticks
  <2>3. Len(outbound') <= OutboundCap /\ sent' \subseteq sent \cup {p.tick}
    BY <1>2, <2>1 DEF DeferredEndSend
  <2> QED BY <2>2, <2>3 DEF Bounded
<1>5. CASE WriterReceive
  <2>1. outbound # <<>> /\ outbound' = Tail(outbound) /\ sent' = sent
    BY <1>5 DEF WriterReceive
  <2>2. Len(outbound') = Len(outbound) - 1
    BY <1>0, <2>1, HeadTailProperties
  <2> QED BY <1>0, <2>1, <2>2 DEF Bounded
<1>6. CASE JoinWriter
  <2>1. outbound' = <<>> /\ sent' = sent
    BY <1>6 DEF JoinWriter, TeardownUnchanged
  <2> QED BY <1>0, <2>1 DEF Bounded
<1>7. \/ UNCHANGED <<outbound, sent>> \/ ReaderEndSend \/ CloserEndSend \/ WriterReceive \/ JoinWriter
      \/ \E p \in Deferrable : DeferredEndSend(p)
  <2>1. CASE LoopStep
    BY <2>1 DEF LoopStep, ArmReadDeadline, CheckQuit, ReadTimeout, FirstByte, ExtendDeadline, RecheckQuit, FrameComplete,
       FrameTimeout, ReadFault, LoopUnchanged
  <2>2. CASE HandlerStep
    BY <2>2 DEF HandlerStep, HandleOther, RefuseBind, AcceptBind, IncBind, StoreBound, RefuseSubmit, Evaluate,
       ServeLatency, Commit, Answer, Panic, HandlerUnchanged
  <2>3. CASE SendStep
    BY <2>3 DEF SendStep, HandlerReturns, ReaderBeginSend, DropMO, ReaderCloses, Spawn, ApplyDueDisconnects, BeginSend
  <2>4. CASE TeardownStep
    BY <2>4 DEF TeardownStep, Teardown, JoinCloser, JoinDeferred, Deregister, TeardownUnchanged
  <2>5. CASE OtherStep \/ UNCHANGED vars
    BY <2>5 DEF OtherStep, Writer, WriterWrites, WriterFails, WriterEnds, Closer, CloserWakesReader, CloserBeginSend,
       CloserStops, Deferred, DeferredBeginSend, DeferredStops, BeginSend, Quit, WindowElapses, OlderLeaves,
       SessionUnchanged, vars
  <2> QED BY <2>1, <2>2, <2>3, <2>4, <2>5, StepsByActor
<1> QED BY <1>1, <1>3, <1>4, <1>5, <1>6, <1>7

\* Every step keeps the types.
LEMMA TypeNext ==
  BindScheduleInv /\ BindScheduleInv' /\ OrderInv /\ TypeInv /\ [Next]_vars => TypeInv'
<1> SUFFICES ASSUME BindScheduleInv, BindScheduleInv', OrderInv, TypeInv, [Next]_vars PROVE TypeInv'
  OBVIOUS
<1>0. ControlTypes /\ Budget /\ SeqUsed /\ Reasons /\ Bounded /\ perBindClock \in Nat
  BY DEF TypeInv, BindScheduleInv, ReaderTypes
<1>1. ControlTypes'
  BY <1>0, LoopControl, HandlerControl, SendControl, OtherControl, StepsByActor
<1> QED BY <1>0, <1>1, BudgetKept, SeqKept, ReasonsKept, BoundedKept DEF TypeInv

\* run, its goroutines and its close record: for every configuration, capacity and number of submits
\* the type invariant holds; the clocks and the record never count past the submits sent, an event on
\* the schedule has a number no later one gets, outbound stays within its capacity, and the close
\* record names a reason exactly when it is written.
THEOREM SessionIsTyped == Spec => []TypeOK
<1>1. BindScheduleInv /\ ShutdownInv /\ ClockInv /\ TypeInv => TypeOK
  <2> SUFFICES ASSUME BindScheduleInv, ShutdownInv, ClockInv, TypeInv PROVE TypeOK
    OBVIOUS
  <2>1. ControlTypes /\ Budget /\ SeqUsed /\ Reasons /\ Bounded /\ ReaderTypes /\ Phases
    BY DEF TypeInv, BindScheduleInv
  <2>2. \A x \in {quit, older, rejects, registered, canSubmit, canReceive, quiet, bound, outboundClosed, done,
                  stopDeferred, failedFirst} : x \in BOOLEAN
    BY <2>1 DEF ControlTypes
  <2>3. logicalClock \in 0..MaxTick /\ recorded \in 0..MaxTick
    <3>1. rpc = "record" => perBindClock > 0
      BY <2>1 DEF Phases
    <3> QED BY <2>1, <3>1, SessionConfig DEF ClockInv, Budget
  <2>4. \A i \in DOMAIN pending : pending[i].kind \in {"mo", "dlr"} /\ pending[i].seq < seq
    <3>1. pending \in Seq(Events)
      BY <2>1 DEF ReaderTypes
    <3>2. DOMAIN pending = 1..Len(pending) /\ \A i \in 1..Len(pending) : pending[i] \in Events
      BY <3>1
    <3> QED BY <2>1, <3>2 DEF SeqUsed, Events
  <2>5. closeReason \in (CloseReasons \cup {"unset"}) \ {"panic", "write_error", "write_timeout"}
    BY <2>1 DEF Reasons, SetReasons, LoopReasons, HandlerReasons, CloseReasons
  <2>6. (closeReason # "unset") <=> (state = "closed")
    BY <2>1 DEF Phases
  <2>7. IF rpc \in {"deregister", "ended"} THEN recordedReason \in CloseReasons ELSE recordedReason = "unset"
    BY <2>1 DEF Reasons, Joined
  <2>8. Len(outbound) <= OutboundCap /\ sent \subseteq 1..MaxTick
    BY <2>1 DEF Bounded, Ticks
  <2>9. /\ rpc \in ReaderPCs /\ cmd \in Commands \cup {"none"} /\ (decision = <<>> \/ decision \in Decision)
        /\ deadline \in {"none", "idle", "quiescence", "past"} /\ wpc \in {"receive", "write", "exited"}
        /\ writeErr \in WriteFaults \cup {"unset"} /\ cpc \in {"wait", "unbind", "select", "ended"}
    BY <2>1 DEF ControlTypes
  <2>10. /\ state \in {"open", "bound", "closed"} /\ perBindClock \in 0..MaxTick /\ profile \in DOMAIN DecisionsOf
         /\ transitionCursor \in 0..Len(Transitions) /\ disconnectCursor \in 0..Len(Disconnects)
         /\ deferred \in [Deferrable -> {"none", "wait", "select", "ended"}]
    BY <2>1 DEF Phases, Budget, ReaderTypes, ShutdownInv
  <2> QED BY <2>2, <2>3, <2>4, <2>5, <2>6, <2>7, <2>8, <2>9, <2>10 DEF TypeOK
<1>2. Init => ClockInv
  BY DEF Init, ClockInv
<1> QED BY <1>1, <1>2, TypeInit, TypeNext, ClockInvNext, OrderInit, OrderNext, BindScheduleSafety, ShutdownSafety, PTL DEF Spec
=============================================================================
