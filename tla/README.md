# go-smsc-simulator: TLA+ models, checks and proofs

The program simulates SMS centres: each *virtual SMSC* listens on a TCP port, accepts SMPP
clients ("binds"), answers their `submit_sm` as a configured scenario says, sends delivery
receipts and mobile-originated messages (MO) at logical ticks, and exposes what it received
over a read-only HTTP surface. Its promise is determinism per bind on top of goroutines,
deadlines and channels, and that is what this project models.

## 1. Inventory

| Component | State | Operations | What makes it correct |
|---|---|---|---|
| **session** (`internal/smsc/session.go`, `close_reason.go`) | protocol state, per-bind clock, read deadline, bounded channel `outbound`, channels `quit`, `done`, `stopDeferred`, `writerClosed`, close reason | reader (`readLoop` and handlers), writer (`writeLoop`), closer, one goroutine per held-back response or receipt, `run`'s teardown | channels closed in a safe order; shutdown never stalls; every outbound PDU accounted for; gauges and registry balanced; clock and journal in step |
| **session schedule** (`dlr.go`, `schedule_events.go`) | transition and disconnect cursors, pending events | schedule at bind and at submit, drain at each submit, flush at quiescence | everything tick-anchored follows the bind's clock; a receipt follows its response; nothing pending is lost or frozen |
| **schedule runner** (`internal/schedule`) | sorted slice, insertion counter | `Schedule`, `DrainDue`, `DrainAll` | total order, no loss, on time |
| **recorder** (`internal/recorder`) | ring buffer, total, size | `Append`, `Snapshot` | exact pages, stable cursor |
| **virtual SMSC, bind registry** (`virtualsmsc.go`, `binds.go`, `metrics.go`) | bind ordinals, registry, logical clock, active profile and its gauge | add, remove, isOldest, setActiveProfile, views | ordinals and message ids unique, one bind's corpus complete and in order, profile and gauge agree |
| **engine** (`engine.go`) | listeners, `quit`, WaitGroup, `serving` | New, Serve, Shutdown, accept loops, panic boundary | Shutdown drains every session; a panic stays in its session |
| **scenario, fault, rng** | immutable engines; per bind: PRNG, throughput gate | Evaluate, weighted picks, LatencyMS, Allow | a seeded decision is a function of bind ordinal and tick; weights respected; the gate bounds what it admits |
| **codec** (`internal/smpp`) | none | ReadPDU, Decode, Encode, EncodeEdgeCase | no octet lost between frames, what is encoded is what is decoded, decoding is a fixed point |
| **config** | none after load | parse, validate | only coherent configurations run: what the other parts assume is checked |
| **observability** | none of its own | read-only handlers | bounded pages |
| **process** (`cmd/smsc-simulator`) | engine, HTTP server | boot, signal, two shutdowns | no half-started process |

**Interactions.** Sessions share with their virtual SMSC the registry, two gauges, the logical
clock and the recorder, and with the engine the channel `quit`. Inside a session, the reader
owns the protocol state; `outbound` (capacity 8) and the connection's read deadline are shared
with the closer, the writer and the deferred goroutines. The hard part is the meeting of these
four kinds of goroutine with client behaviour, write failures, deadlines and shutdown. The
complete list of what is hard to test, each at its line, is `hazards` in `PROJECT.json`.

## 2. Modules

| Module | Models | Notes |
|---|---|---|
| `Session` | one connection, from accept to deregistration | one action per step between two points where another goroutine can act |
| `SessionProperties` | what a session promises | invariants, liveness, and statements of docs and comments |
| `MCSession` | instances for TLC | scenarios and configurations used by the `Session*.cfg` files |
| `SessionProofs` | shutdown, frames, gauge, clocks of `Session`, and what is tick-anchored in it | TLAPS, uses `ScheduleProofs` |
| `SessionQueueProofs` | what goes through `outbound` in `Session`, and its types | TLAPS, uses `SessionProofs` |
| `Schedule` | the slice operations of the Runner | used by `ScheduleRunner` and by `Session` |
| `ScheduleProofs` | lemmas about the slice operations and the stable sort | TLAPS |
| `ScheduleSpec` | what a Runner promises: a set of waiting events | abstract |
| `ScheduleRunner` | the Runner | refines `ScheduleSpec` |
| `ScheduleRunnerProofs` | theorems about the Runner | TLAPS |
| `Engine` | the engine: listeners, Serve, accept loops, Shutdown, WaitGroup | a session is what the WaitGroup sees of it |
| `Boot` | `main`'s `run` and the HTTP server's life, around `Engine` | the specification that runs both |
| `BootProofs` | theorems about `Boot` | TLAPS |
| `Config` | `validate`: the set of faults of a decoded configuration | operators only |
| `Fault` | latency distributions, the throughput window | operators only |
| `Scenario` | engines built from configurations, and their decisions | operators only |
| `VirtualSMSC` | Load, then the binds of one virtual SMSC and what they share | composes `Config`, `Fault`, `Scenario`, `Schedule` |
| `MCVirtualSMSC` | configurations and streams for TLC | accepted ones of every profile, one per check that refuses |
| `VirtualSMSCProofs` | theorems about `VirtualSMSC` | TLAPS |
| `Codec` | frames, bodies, and the read loop's use of them | octet by octet |
| `MCCodec` | what a peer sends, for TLC | |
| `CodecProofs` | theorems about `Codec` | TLAPS |
| `RecorderWindow` | what a recorder promises: the last `Cap` records | abstract |
| `Recorder` | the ring buffer, `Snapshot`, a client that pages | refines `RecorderWindow`; `Snapshot` is the code's loop over the ring |
| `RecorderProofs` | theorems about the recorder | TLAPS |

Definitions whose comment starts with *Faulty variant* are plausible bugs. No specification
uses them; each is what one property is known to notice (`mutants` in `PROJECT.json`).

### How `Session` corresponds to the code

* `rpc` is the reader's program point: `arm`, `checkQuit`, `read` are the top of `readLoop`;
  `gotByte`, `extended`, `midFrame` are `frameReader.Read` and the rest of the frame; `handle`
  to `record` are the handlers; `do` and `select` are the sends a handler makes, in order,
  through `sendBytes`; `teardown` to `deregister` are the deferred function of `run`.
* What a handler has decided but not yet done is `todo`: sends, held-back responses, receipts,
  `closeWith` and the disconnect check, in program order. `sendBytes` is two steps because the
  gauge goes up before the select; the select blocks when the queue is full and the writer lives.
* `wpc`, `cpc` and `deferred[p]` are the writer, the closer and the `sendWhen` goroutines.
* The read deadline is named after what set it (`idle`, `quiescence`, `past`). `quiet` says the
  quiescence window since `lastSubmit` has elapsed. An idle deadline or a latency timer may fire
  at any moment, a quiescence deadline only once `quiet`; a passed deadline fails a read even if
  data is there, as in Go.
* `DecisionsOf` gives what `Evaluate` may decide under each profile; the choice among them is
  nondeterministic, so the results hold for every scenario with those decisions.
* PDUs are reduced to their kind and the tick of their submit; their octets are `Codec`'s.
* What a drain returns is dispatched event by event: a receipt (`Receipt`) or an MO (`MO`), which a
  bind that cannot receive drops (`DropMO`).
* `depth` and `owed`, `wire`, `failedFirst` and `recordedReason` are the gauge, the PDUs not yet
  written or counted as dropped, what was written, teardown's sample of the writer and the close
  record. A reason or an error that was never assigned (Go's empty string) is `"unset"`.
* A panic is possible where the code says one is expected: at dispatch and between registering
  and counting a bind.

### How `Engine` and `Boot` correspond to the code

* `Engine` has one action per step of `New`'s listen loop, `Serve`, `acceptLoop` and `Shutdown`
  between which another goroutine can act; `serve`, `acceptor[v]` and `shutdown` are their program
  points. `serve = "registering"` is Serve holding `mu`, which Shutdown's read of `serving` waits for.
* `wg` is the WaitGroup's counter. A connection waits in the backlog (`backlog`), has been returned by
  Accept (`accepted`), is counted and served (`running`), or is over. A session may end at any moment
  or never: the panic boundary makes a panic an end like any other.
* `Boot` is `run`: `run` is its program point, `cause` the arm or failure that ended it, `result` what
  it returns. `surface`, `surfaceServe` and `surfaceStop` are the HTTP listener, `srv.Serve` and
  `srv.Shutdown`; `net/http` is external and described in the module's header. The drain deadlines may
  expire at any moment. Validation of the configuration and certificates are steps that may fail.

### How `VirtualSMSC`, `Scenario`, `Fault` and `Config` correspond to the code

* A configuration is the record that the YAML decodes to; an optional block that is absent is not
  in its domain. `Validate` collects the sentinel errors of every check, one operator per function of
  `validate.go`. Texts are their lengths, files `present` or `missing`, and `success_rate` counts in
  `Grain`s, the number of values a draw can have here.
* An engine is a value (`New`). `Evaluate` takes the engine, what the gate answered, the PRNG's
  next draws and the tick, and says how many draws it took: the draw order is part of the model.
* The seeded PRNG is `Stream[ordinal]`, one fixed sequence per bind ordinal; without a seed any
  draws may come. How `rng.go` mixes seed, name and ordinal is not modelled.
* A slot is a connection; `pc` cuts its reader at each access to shared state: `ordinal` (taken, not
  yet registered), `bound`, `transition` and `gauge` (between `activeProfile` and
  `SetActiveScenario`), `commit` (decided, latency being served), `record` (clocks advanced, not yet
  in the recorder), `leave`. What a session does beside that is `Session`'s.
* `gate` is the bind's `WallWindow`, built from the initial profile and kept across transitions.
  `now` is the wall clock, in steps of `Second`; it may stand still or jump between any two steps.

### How `Codec` corresponds to the code

* The layout is the code's with smaller numbers: an octet is a digit to the base `Base` (256), a
  `uint32` is `Word` (4) octets, a `uint16` half of them. Every bound the code compares with (the
  header length, `MaxPDULen`, `maxCOctetLen`, `maxShortMessageLen`, `maxTLVs`) is a parameter or
  derived from one, so each can be met, and exceeded, by short frames.
* A body is the sequence of its fields, and `Layouts` says how each is written. `Marshal` and
  `ReadField` are the two directions; `DecodeBody` runs the reader over a layout, stopping at its
  first error as the code's early returns do.
* `rpc` is the read loop: `read` (inside `ReadPDU`, octet by octet), `length` (the four octets are
  there), `decode`, `rearm` (woken between frames), `closed`. `ReadFails` may happen after any octet,
  as an end of input, a reset or a timeout.

## 3. Runs

| Run | Question |
|---|---|
| `session_shutdown` | shutdown, hang-ups, refused binds, a rejecting SMSC, write failures, panics: safe channel closing, the shutdown deadline, frames never cut by the quiescence wake-up, balanced gauges and registry, clock and journal in step, every PDU accounted for |
| `session_schedule` | transitions, disconnects, MOs, receipts and late responses configured out of order, with flushes, timeouts and an older bind that leaves; receipt after response; no event lost or doubled between the Runner and the client |
| `session_liveness` | a stopping or closing session ends, with a dead writer and a full queue too; keepalives do not postpone the flush of pending events |
| `schedule_runner` | the Runner's invariants, and that it implements `ScheduleSpec` |
| `recorder` | pages, cursors, wrap-around, and that the ring implements `RecorderWindow` |
| `boot` | zero to two virtual SMSCs, with or without the surface; failures at each step of boot, signals at any moment, accept errors, a dying surface, drains that overrun |
| `virtual_smsc` | Load on good and bad configurations, then concurrent binds: identities, corpus, seeded replay, weights, the gate, the observed profile |
| `codec` | a byte stream read octet by octet, with wake-ups, stalls, cuts and malformed frames |
| `session_shutdown_unbind`, `session_before_response`, `session_write_failure`, `virtual_smsc_slow_target` | what a doc or comment says and the code does not do (section 5) |

What the two newer runs show. `DecisionsReplay` compares what each bind decided, under every
interleaving of two binds and a third that replaces one, with a bind alone on the same ordinal. It
needs `validate` to keep wall-clock limits away from seeded deterministic profiles: without that
check it fails. `TwiceCapPerSecond` is what a fixed window can promise: with a cap of 2 the run lets by
submits at times 0, 1, 2 and 2 of a clock whose second lasts 2, three of them within a second, and a fifth
must wait. The guides promise more, a sliding window (section 5).
`ObservedProfilesAgree` has an exception that the code has: two binds that
transition at the same time may leave GET's `active_profile` and the gauge with different profiles
until the next transition, each bind having written both in turn. `NoOctetLost` rests on
`ErrPartialFrame`: a timeout inside a frame must not look like the timeout of a quiet link, on which
the loop goes on reading.

**Bounds.** `OutboundCap = 1` makes the queue full as soon as one PDU waits, so every sender
meets both branches of the select; the code's 8 only delays that. `MaxTick` (submits) is 1 to 3:
one submit is enough for the races of shutdown, two for a receipt released by a later submit, three
to cross three configured ticks with a tie. The bound on submits is a bound on what the client
sends. The Runner gets 5 events over 4 ticks with flushes in between, enough for ties from
different calls. The ring has 3 slots and 5 appends, so it wraps while a client pages, with limits
below, at and above the page cap. `virtual_smsc` has two slots, three ordinals and three submits in all
(`MaxShared`) once there is a second bind: a bind that leaves and another that takes its slot while a third
submits, and enough ticks for a transition there and back with a tie; a bind alone has five (`MaxSubmits`),
so that a gate with a cap of 2 fills two windows and meets a third; slots are symmetric (only the ordinal tells binds apart). Its
clock runs to two windows of `Second = 2`, so a window can be met at its start, in its middle and at
its boundary with caps of 1 and 2; draws have 8 values, and the streams hold low and high ones. `codec`
scales octets to base 16, words to 2 octets and the frame cap to 48, and reads every pair of 37 frames
and triples around each malformation, so a bad length meets each kind of successor. `boot` needs two virtual SMSCs for a boot that fails half-way and for
a registration that Shutdown meets in the middle, none for the black box, and two connections so that
one is accepted while another is served; deadlock is checked there. Sessions really stop, so deadlock is not checked; that they stop
only when they should is what the liveness runs say.

**Fairness.** `FairSpec` assumes weak fairness of each goroutine and of the quiescence window. The
Go scheduler runs runnable goroutines; read deadlines and timers fire; the write deadline makes
every write return. Nothing is assumed of the client (it may send for ever, or never) nor of the
engine. In `PendingEventuallyReleased` the client runs out of submits (the bound), which is the
case that the quiescence flush exists for; keepalives may go on for ever. In `Boot`, `run`, the
engine's goroutines, Shutdown (with its deadline) and the surface's goroutine are weakly fair; sessions,
clients, signals and failures are not, so every stop completes even if no session ever ends.

## 4. Proofs

Every theorem holds for every value of the constants that satisfies the named assumptions of the
modules, so for any number of submits, events, binds, slots and virtual SMSCs, any capacity, and any
configuration. The inductive invariants below were first checked by TLC on the instances of section 3 (but for
`ReplayInv`, whose unbounded choice TLC cannot evaluate; `DecisionsReplay`, which it strengthens, stands in for it).

**The Runner.** `ScheduleProofs` says what each slice operation does, by position: where the binary
searches of `Schedule` and `DrainDue` stop, what an insertion moves, what a drain takes and leaves;
that the stable sort of configured entries is a permutation that keeps the order of ties; and that a
cursor behind exactly the due entries of the sorted list stands at the one the configuration says to rule
(`CursorAtLastDue`, used for a session's transitions and for those of a virtual SMSC's binds).
`ScheduleRunnerProofs` proves that `ScheduleInv` (typed, sorted, lossless, on time, release order) is
invariant, and from it `ReleaseOrder`, `NoEventLostOrDuplicated` and `ReleasedOnTime`. Order across
drains is not inductive alone: it needs that whatever a drain released is due and whatever stays is
not, which in turn needs the slice sorted. `RunnerRefinesSpec` then maps the slice to the set of its
events and shows that each operation is one of `ScheduleSpec`.

**The session, around its goroutines.** `SessionProofs` has one invariant per promise:

* `ShutdownInv` gives `NoSendAfterClose` and `ShutdownDeadlineHolds`: `done` is closed by teardown
  only; the closer leaves its wait only for `quit` or `done`; each join, once passed, stays passed. The
  deadline part needs the middle fact: if the closer has moved while the reader is still reading, then
  `quit` is closed, so each re-check that precedes a blocking read sees it.
* `FrameInv` gives `QuiescenceNeverCutsFrame`: past the first byte the deadline is the idle window or
  the past one.
* `BindInv` gives `BindsBalanced`: the gauge is 1 exactly from `IncBind` to `DecBind`, `bound` is stored
  in between, and a session binds once.
* `ClockInv` gives `JournalMatchesClock`: the recorder is one behind the clocks between their advance
  and `Append`, and at no other moment.

**The session's schedule.** `SessionProofs` also proves `NothingDueKept`, `TransitionsFollowTheClock` and `ScheduledCutAtItsTick` from one invariant, `BindScheduleInv`, in five
parts that need each other: `ReaderTypes`; `Phases` (what the reader's program point says of the handler's
remaining steps, of the state and of the clock); `DueInv` (the pending slice is sorted and, from the
first submit on, nothing in it is due except while a submit is being recorded or a close is on its way); `ProfileInv` (the transition
cursor stands behind exactly the entries that are due, and the profile is that of the last one);
`CutInv` (an entry ahead of the disconnect cursor is not due, unless the check that meets it is still among
the handler's steps or a close is; one behind it that surely targets the bind has closed the session; and a
scheduled cut is at the tick of an entry that may target it). The events put on the Runner at bind
time are a recursive function of the configured list; that each insertion keeps the slice typed and sorted
goes through a least counterexample, since an induction scheme cannot be cited.

**The session's queue.** `SessionQueueProofs` proves the two promises about `outbound`:

* `DLRAfterResponse`, from `OrderInv`. `WireOrder`: the channel keeps its order, so a receipt that is
  queued has its response written, being written or ahead of it; a response that was signalled as sent
  is out. `ReceiptOrder`: a receipt that is still scheduled, or among the handler's steps, has its
  response out, held by a goroutine, or earlier among those steps; and a goroutine sends a receipt only
  after the signal. "Out" includes that the writer is gone, since then nothing is written any more.
* `OutboundAccounted`, from `CountInv` and `HoldInv`. The count of callers is a cardinality over the
  goroutines, so a step changes it by one only if no goroutine is ever started twice for one PDU:
  `HoldInv` says so for responses (held once, by the first step of the handler of that very tick) and
  `ReceiptOrder` for receipts.

**The session's types.** `SessionIsTyped`, in `SessionQueueProofs`, states `TypeOK`. Most of it follows
from the invariants above; what they leave out is `TypeInv`: `Budget` (a submit that is being handled has a
tick left for it), `SeqUsed` (no event on the schedule has a number that is still to be given out), `Reasons`
(which reasons the loop and the handlers can set, and that the record is written once, at the end of teardown)
and that the queue stays within its capacity. That a session has a reason exactly when it is closed needs
`Phases`.

The session's theorems rest on `SessionConfig` and `ScheduleConfig`: a capacity of at least one, and what
the schema's types and `validate` grant of the lists and profiles of a configuration.

**The recorder.** `RecorderProofs` proves that the ring implements `RecorderWindow` and that `Snapshot`
returns exactly the oldest retained matches (`SnapshotIsPage` for a request without `since`; the lemma
`PageIsExact` for every bound on the index), from `RingInv` (every index from the oldest on is found in its slot), with
a lemma on each turn of the loop: what it has collected so far is the page of the indices it has passed.
`PagingIsExact` adds `PagingInv` (the client's cursor is past all it received, and not past what was
recorded).

**The process.** `BootProofs` proves, for any number of virtual SMSCs and connections:

* `EngineNeverStopsByItself` and `NoListenerLeftOpen`, from `BootInv`: `quit` closes after the
  listeners and only in a Shutdown that `run` called, Serve drains only after `quit`, and `run` goes past the
  engine only when that call has returned; for the surface, that its goroutine cannot start serving once
  its Shutdown was called. Neither property is inductive alone: that `run` returns with closed listeners
  rests on what Shutdown has already done.
* `ExitStatusTellsWhy`, from `ExitInv`: an error in the surface's channel is its own failure as long as
  nobody has called its Shutdown.
* `DrainedLeavesNobody` and `NoAddDuringWait`, from `WaitGroupInv`: the counter is the number of accept
  loops and sessions alive (a cardinality), a connection in hand belongs to a loop that is still counted,
  and all loops are registered before anybody waits.

**The virtual SMSC.** `VirtualSMSCProofs` proves, for any number of connections, binds and submits, every
configuration and every stream of draws:

* `NoSharedIdentity`, from `IdentityInv`: ordinals in use and in the recorder are at most `bindSeq`, and
  a live bind has recorded nothing past its clock, nor the tick it is about to record. The first part is
  what makes a new ordinal new (so `registry.remove` takes out one bind only); the second, what makes
  a new entry of the recorder new.
* `TwiceCapPerSecond`, from `GateInv`: the submits counted in the open window are the last ones let by
  and none of the earlier ones falls in it; the earlier ones, all but the last cap of them, are more than
  a second older than the open window. The bound on a second that straddles two windows needs that
  history; the property alone says nothing of the next window.
* `CorpusPerBind`, from `CorpusInv`: the entries of an ordinal are exactly its ticks, a live bind's clock is
  their number plus the submit it is about to record, and the logical clock counts all of these.
* `ObservedProfilesAgree`, from `ObservedInv`: the gauge is that of the label last stored, and the label
  follows the observed profile except between the two stores; two binds that overlap there are remembered.
  That every profile has a series is read off `Validate`: an accepted configuration names known profiles.
* `DecisionsReplay`, invariant (a), from those two and three more: `BudgetInv` (a tick in hand is within the
  bound on submits), `CursorInv` (a bind's cursor stands at the entry whose profile it has) and `ReplayInv`
  (no gate is ever built, and decisions and position in the stream are those of the bind alone at the same
  tick). That no gate is built is what `validate`'s refusal of a limit under a seed is for.
* `EdgeCasesShiftNothing`: at each tick an engine and the same engine without edge cases take as many draws
  and decide the same but for the malformation, so the stream stays at the same position.

* `OutcomesFollowWeights`, of `PicksFollowWeights`: after each round of `buildDLRMix` and `buildErrorMix`
  the entries kept are the values met so far with a weight above zero, in order, each with the sum of the weights up to its own
  (`WeighedMixes`). The sums grow strictly, so a draw falls in the interval of exactly one entry, and the
  interval has as many numbers as the entry's weight. That the sum is not zero, on which `Uint64N` would
  panic, is read off `Validate`.

`Solo`, the bind alone, is a recursive function. Its existence, its unfolding and the two facts about every tick
of it are shown by looking at the least tick that would fail, since an induction scheme cannot be
cited. They rest on `SecondAssumption` (a second lasts), `VirtualSMSCConfig` (the bounds are naturals),
`LimitsAreNumbers` (the two limits a gate is built from are integers in the schema), `WeightsAreNumbers` (so
are the weights, and a receipt's are all there, being fields of a struct) and
`TransitionsAreEvents` (a configuration has a virtual SMSC, whose transitions have a tick and a name). Only
configurations that `Load` accepts ever serve, and the theorems use `Validate` itself for that, not an
assumption.

**The codec.** `CodecProofs` proves, for every size of octet and word, every cap and every script of a peer:

* `NoOctetIsLost`, from `FrameInv`: the frames read, followed by the part held, are the octets taken so far;
  a part that has its first word has a length that was accepted, and one that is handed to `Decode` is as
  long as that word says. That a close for an end of input or for silence cuts no frame rests on where the
  loop stands when a read fails: such a close is only reached with nothing held.
* `DecodingIsStable`, from `FrameInv` and two lemmas about the whole of `Encode` and `Decode`. `RoundTrip`: a
  PDU whose fields fit their layout, encoded within the cap, decodes to itself. `DecodedIsSent`: what the
  octets of any frame decode to fits its layout and can be encoded within the cap. The second is where the refusal of an `sm_length` of 255 is needed: without it a message
  decodes that does not fit.
* `FramesDecodeAsMeant`, from `StreamInv` (the stream is the script's frames one after the other, and each
  frame read is as long as its first word says). `FramesAlign` looks at the least frame that would not be the
  one sent: the frames before it are those sent, so it starts where it was sent, and its first word gives its end, up to the first
  length that lies. `WordsAre` says what each malformation does to the four words, and `RoundTrip` the
  rest.
* `AnswersFollowFrames`, from `AnswerInv`: an answer is a bare response that decodes, it is about a frame already
  read and has its sequence number, and each frame read has one answer if one is due and none otherwise. One is
  due to every frame that does not decode, an unknown command id with the response bit set included; only a
  malformed response of a known command gets none. The
  number of answers about a frame is a cardinality, so a step needs that no earlier answer is about the new
  frame.

`Number`, `Values`, `TLVTurns`, `ReadFields` and `FlattenSeq` are loops. What they compute is shown by looking at
the least round that would fail, as for `Solo`. The theorems rest on `CodecConfig` (the code's constants satisfy it: an
octet and a word of even sizes, a cap between the header and the largest length, command ids below
the response bit) and on `ScriptsAreSent`: a peer sends PDUs that fit their layouts, malformations of those,
and any other octets at all, so it limits no stream of octets.

**Only model-checked.** Liveness (`ShutdownEnds`, `CloseCompletes`, `PendingEventuallyReleased`,
`SignalEndsRun`, `DeadSurfaceEndsRun`): fairness is out of the prover's reach. `EventsConserved`, which counts
the places of every MO and receipt from the Runner to the client and says that a session lets go of one only
where it may: TLC checks it on the instance of `session_schedule`; its proof has not been attempted. Every
other property of a passing run is a theorem. The four statements of section 5 are refuted by their runs.

## 5. Where the code and what is said of it differ

1. **Unbind at shutdown** (`session_shutdown_unbind`). The closer reads `bound` once. A bind
   acknowledged after that read ends on `shutdown` without the `unbind` that the specification
   (section 5.2.1) promises active binds.
2. **`before_response` with `scope: oldest`** (`session_before_response`). The registry is asked
   before and after the response. If the older bind leaves in between, a `before_response` entry
   cuts a bind that has just been answered.
3. **A failed writer** (`session_write_failure`). The write deadline is said to turn a client that
   stopped reading into "a write error and teardown" (`session.go:246`). It ends the writer only: the
   reader goes on for as long as the client sends, and every answer is dropped.
4. **A transition to `slow-carrier`** (`virtual_smsc_slow_target`). The engine built for a transition
   target has no latency block, so the slow carrier answers at once (`virtualsmsc.go:85`).

Smaller differences, read in the code while modelling, which no run is about:

* `api-observabilite.md:66` and `inspecter-les-pdu-recues.md:33` (with the example "à partir du tick 50")
  document `since` as a lower bound on `per_bind_clock`. `Snapshot` compares it with the recorder's index
  (`recorder.go:38`, "inclusive lower bound on Index; page with lastIndex+1"), which counts the submits of all
  binds from 0: with a single bind a record's index is its clock minus one, with several the two drift apart.
  `SnapshotIsPage` is about requests without `since`, on which all agree; `PagingIsExact` is about the
  cursor that `recorder.go:38` describes.
* `session.go:211`: a writer that has exited is said to have failed before the read side ended; it is
  sampled after `closeWith`, so a `generic_nack` that cannot be written becomes the recorded cause.
* `plafonner-le-debit.md:15`, `profils-de-scenario.md:62` and `determinisme.md:111` promise a sliding
  window ("fenêtre glissante") of one second, so at most the cap in any second. `throughput.go:32` opens a
  fixed one, which a burst can straddle: `TwiceCapPerSecond` is what holds instead. The first guide also gives
  `throughput_limit_per_sec` the whole virtual SMSC as its scope (line 13); each bind has its own gate
  (`scenario.go:219`).
* `schema.go:143` speaks of a wall clock for receipts; `validateClock` refuses it always.
* `engine.go:167`: an accept error other than a closed listener ends that virtual SMSC's accept loop
  and leaves its listener open with nobody accepting.
* `engine.go:94`: two virtual SMSCs may share a name, since `validate` compares ports only; the
  read-only views then show the last.
* `codec.go:50`: a connection that ends exactly after the four length octets gives `ErrPartialFrame`,
  not the truncation error. The session closes either way.
* `codec_edge.go:57`: a malformed frame is said never to be accepted as the PDU it was made from. An
  inflated length on a `submit_sm_resp` is: `Decode` does not compare `command_length` with the frame,
  and the octets swallowed from the next frame are not looked at. What is lost is the next frame.
* `session.go:566`: "a response is never answered". A response whose command id is unknown is answered
  with `generic_nack` by the case before (line 573; `AnswersCorrelate` states it so), and so is one that
  decodes but that a session does not expect (`enquire_link_resp`, `unbind_resp`, `generic_nack`).

## 6. Not modelled, and the plan

Left out for good: TLS certificates, HTTP plumbing, logging, metrics export, deployment files and
dashboards, the test client, YAML parsing, the mixing functions of the PRNG and the shape of the latency
distributions, the wording of a receipt's text.

What could follow:

1. An abstract session (starts, ends, promises to end after `quit`) that `Session` implements and `Engine`
   uses.
