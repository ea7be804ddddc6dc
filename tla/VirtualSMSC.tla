---------------------------- MODULE VirtualSMSC -----------------------------
(***************************************************************************)
(* internal/smsc/virtualsmsc.go and binds.go: what the binds of one        *)
(* virtual SMSC share, composed with config.Load, the scenario engines and *)
(* the throughput gate. Each slot is a connection; its read goroutine is   *)
(* cut at every access to state that another bind can see: the ordinal,    *)
(* the registry, the observed profile and its gauge, the logical clock and *)
(* the recorder. What a session does beside that (its writer, its          *)
(* schedule, its teardown) is Session's.                                   *)
(***************************************************************************)
EXTENDS Scenario, Schedule

CONSTANTS
  Slots,        \* connections that may be open at the same time
  Configs,      \* the configurations Load may find in the file
  Stream,       \* the seeded PRNG: the draws of each bind ordinal, in order
  ChaosDraws,   \* the draws of an unseeded PRNG
  MaxBinds, MaxNow,   \* bounds: ordinals, time
  MaxSubmits,   \* bound: submits of all binds
  MaxShared     \* bound: the same once there is a second bind

ASSUME VirtualSMSCConfig ==
  MaxBinds \in Nat /\ MaxSubmits \in Nat /\ MaxShared \in 0..MaxSubmits /\ MaxNow \in Nat

\* The two limits of a throughput gate are numbers in the YAML schema (*int).
ASSUME LimitsAreNumbers ==
  \A c \in Configs :
    LET smsc == c.virtual_smscs[1]
    IN  /\ Has(smsc, "throughput_limit_per_sec") => smsc.throughput_limit_per_sec \in Int
        /\ (Has(smsc.scenario, "params") /\ Has(smsc.scenario.params, "throughput_cap_per_sec"))
             => smsc.scenario.params.throughput_cap_per_sec \in Int

\* So are the weights of the two mixes (uint); a receipt's are the fields of a struct, all there.
ASSUME WeightsAreNumbers ==
  \A c \in Configs :
    LET sc == c.virtual_smscs[1].scenario
    IN  /\ Has(sc, "dlr") => sc.dlr.outcome_weights \in [ToSet(DLROutcomes) -> Nat]
        /\ (Has(sc, "params") /\ Has(sc.params, "error_mix"))
             => \A x \in DOMAIN sc.params.error_mix : sc.params.error_mix[x] \in Nat

\* The virtual SMSC that is modelled is the file's first; a transition is a tick (uint64) and a
\* profile's name.
ASSUME TransitionsAreEvents ==
  \A c \in Configs : /\ 1 \in DOMAIN c.virtual_smscs
                     /\ c.virtual_smscs[1].scheduled_transitions \in Seq([at : Nat, to : STRING])

VARIABLES
  cfg, phase,                         \* the configuration, and what became of it
  now,                                \* the wall clock
  bindSeq, registry, logicalClock,    \* the virtual SMSC's counters and its bind registry
  journal,                            \* the recorder: [bind, tick] of every submit, in order
  activeProfile, gauge, scenarioLabel,\* GET's active_profile; smsc_active_scenario and its memory
  pc, id, perBindClock, profile, cursor, drawn, gate,   \* what each slot's session owns
  decisions, admitted,                \* history: its bind's decisions, and when the gate let one by
  overlapped                          \* history: two binds applied transitions at the same time

smscVars == <<bindSeq, registry, logicalClock, journal>>
observedVars == <<activeProfile, gauge, scenarioLabel, overlapped>>
bindVars == <<id, perBindClock, profile, cursor, drawn, gate, decisions, admitted>>
vars == <<cfg, phase, now, smscVars, observedVars, pc, bindVars>>

NoGate == [capPerSec |-> 0, windowStart |-> 0, count |-> 0]
\* The draws one submit may take: success, code, latency, receipt.
DrawsPerTick == 4

vs == cfg.virtual_smscs[1]
Seeded == Has(vs, "seed")
Limit == IF Has(vs, "throughput_limit_per_sec") THEN {vs.throughput_limit_per_sec} ELSE {}
Initial == vs.scenario.profile
Targets == {vs.scheduled_transitions[i].to : i \in DOMAIN vs.scheduled_transitions}

\* buildEngines: the configured engine, and a bare one per other transition target.
Engines ==
  [p \in {Initial} \cup Targets |->
     IF p = Initial THEN New(vs.scenario, Limit) ELSE New([profile |-> p], Limit)]

\* The PRNG from a position on: a pure function of the ordinal with a seed, anything without.
\* NewBind, NewChaos
NextDraws(ordinal, taken) ==
  IF Seeded THEN {[i \in 1..DrawsPerTick |-> Stream[ordinal][taken + i]]}
  ELSE [1..DrawsPerTick -> ChaosDraws]

Init ==
  /\ cfg \in Configs /\ phase = "boot" /\ now = 0
  /\ bindSeq = 0 /\ registry = {} /\ logicalClock = 0 /\ journal = <<>>
  /\ activeProfile = "none" /\ scenarioLabel = "none" /\ gauge = [p \in KnownProfiles |-> 0]
  /\ overlapped = FALSE
  /\ pc = [s \in Slots |-> "closed"] /\ id = [s \in Slots |-> 0]
  /\ perBindClock = [s \in Slots |-> 0] /\ profile = [s \in Slots |-> "none"]
  /\ cursor = [s \in Slots |-> 0] /\ drawn = [s \in Slots |-> 0]
  /\ gate = [s \in Slots |-> NoGate]
  /\ decisions = [s \in Slots |-> <<>>] /\ admitted = [s \in Slots |-> <<>>]

\* Faulty variant: the profile that is replaced keeps its series at 1.
SetActiveScenarioOnly(p) == gauge' = [gauge EXCEPT ![p] = 1] /\ scenarioLabel' = p

\* SetActiveScenario, under its mutex: zero the profile it remembers, raise the new one.
SetActiveScenario(p) ==
  /\ gauge' = [q \in KnownProfiles |-> IF q = p THEN 1 ELSE IF q = scenarioLabel THEN 0 ELSE gauge[q]]
  /\ scenarioLabel' = p

\* Load and newVirtualSMSC: a configuration with a fault never opens a port.
Load ==
  /\ phase = "boot"
  /\ IF Validate(cfg) = {}
     THEN /\ phase' = "serving"
          /\ activeProfile' = Initial /\ SetActiveScenario(Initial)
     ELSE phase' = "rejected" /\ UNCHANGED <<activeProfile, gauge, scenarioLabel>>
  /\ UNCHANGED <<cfg, now, smscVars, overlapped, pc, bindVars>>

\* The wall clock matters only to a gate.
Elapse ==
  /\ now < MaxNow /\ \E s \in Slots : gate[s] # NoGate
  /\ now' = now + 1
  /\ UNCHANGED <<cfg, phase, smscVars, observedVars, pc, bindVars>>
-----------------------------------------------------------------------------
\* Faulty variant: the ordinal is the size the registry will have.
TakeOrdinalFromRegistry(s) ==
  /\ phase = "serving" /\ pc[s] = "closed" /\ bindSeq < MaxBinds
  /\ ~RejectBind(Engines[Initial])
  /\ bindSeq' = bindSeq + 1
  /\ id' = [id EXCEPT ![s] = Cardinality(registry) + 1]
  /\ profile' = [profile EXCEPT ![s] = Initial]
  /\ pc' = [pc EXCEPT ![s] = "ordinal"]
  /\ UNCHANGED <<cfg, phase, now, registry, logicalClock, journal, observedVars, perBindClock, cursor,
                 drawn, gate, decisions, admitted>>

\* handleBind, accepted: the next ordinal, and with it NewBindState (the gate is built from
\* the initial profile, for the life of the bind).
TakeOrdinal(s) ==
  /\ phase = "serving" /\ pc[s] = "closed" /\ bindSeq < MaxBinds
  /\ ~RejectBind(Engines[Initial])
  /\ bindSeq' = bindSeq + 1
  /\ id' = [id EXCEPT ![s] = bindSeq + 1]
  /\ profile' = [profile EXCEPT ![s] = Initial]
  /\ LET cap == EffectiveCap(Engines[Initial])
     IN  gate' = [gate EXCEPT ![s] = IF cap = {} THEN NoGate ELSE NewWallWindow(CHOOSE c \in cap : TRUE)]
  /\ pc' = [pc EXCEPT ![s] = "ordinal"]
  /\ UNCHANGED <<cfg, phase, now, registry, logicalClock, journal, observedVars, perBindClock, cursor,
                 drawn, decisions, admitted>>

\* bindRegistry.add
Register(s) ==
  /\ pc[s] = "ordinal"
  /\ registry' = registry \cup {id[s]}
  /\ pc' = [pc EXCEPT ![s] = "bound"]
  /\ UNCHANGED <<cfg, phase, now, bindSeq, logicalClock, journal, observedVars, bindVars>>

\* teardown's bindRegistry.remove, whatever ended the session; the session is gone with it. A
\* shutdown may end it while it serves the latency of a submit it has decided.
Leave(s) ==
  /\ pc[s] \in {"bound", "commit", "leave"}
  /\ registry' = registry \ {id[s]}
  /\ pc' = [pc EXCEPT ![s] = "closed"]
  /\ id' = [id EXCEPT ![s] = 0] /\ perBindClock' = [perBindClock EXCEPT ![s] = 0]
  /\ profile' = [profile EXCEPT ![s] = "none"]
  /\ cursor' = [cursor EXCEPT ![s] = 0] /\ drawn' = [drawn EXCEPT ![s] = 0]
  /\ gate' = [gate EXCEPT ![s] = NoGate]
  /\ decisions' = [decisions EXCEPT ![s] = <<>>] /\ admitted' = [admitted EXCEPT ![s] = <<>>]
  /\ UNCHANGED <<cfg, phase, now, bindSeq, logicalClock, journal, observedVars>>
-----------------------------------------------------------------------------
(***************************************************************************)
(* handleSubmit at tick perBindClock + 1.                                  *)
(***************************************************************************)
Schedules == SortedByTick(vs.scheduled_transitions)
Due(s) == cursor[s] < Len(Schedules) /\ Schedules[cursor[s] + 1].at <= perBindClock[s] + 1

Submit(s) ==
  /\ pc[s] = "bound" /\ logicalClock + Cardinality({r \in Slots : pc[r] \notin {"closed", "ordinal", "bound"}})
                          < IF bindSeq = 1 THEN MaxSubmits ELSE MaxShared
  /\ pc' = [pc EXCEPT ![s] = "transition"]
  /\ UNCHANGED <<cfg, phase, now, smscVars, observedVars, bindVars>>

\* applyTransition: the bind's engine, then the observed profile ...
ApplyTransition(s) ==
  /\ pc[s] = "transition" /\ Due(s)
  /\ LET to == Schedules[cursor[s] + 1].to
     IN  profile' = [profile EXCEPT ![s] = to] /\ activeProfile' = to
  /\ cursor' = [cursor EXCEPT ![s] = @ + 1]
  /\ overlapped' = (overlapped \/ \E r \in Slots : pc[r] = "gauge")
  /\ pc' = [pc EXCEPT ![s] = "gauge"]
  /\ UNCHANGED <<cfg, phase, now, smscVars, gauge, scenarioLabel, id, perBindClock, drawn, gate,
                 decisions, admitted>>

\* ... then the gauge.
MoveGauge(s) ==
  /\ pc[s] = "gauge"
  /\ SetActiveScenario(profile[s])
  /\ pc' = [pc EXCEPT ![s] = "transition"]
  /\ UNCHANGED <<cfg, phase, now, smscVars, activeProfile, overlapped, bindVars>>

\* Evaluate on the bind's engine: the gate is asked once, the PRNG moves by what was drawn.
Decide(s) ==
  /\ pc[s] = "transition" /\ ~Due(s)
  /\ LET gated == gate[s] # NoGate
         allowed == gated => Allow(gate[s], now)
     IN  \E draws \in NextDraws(id[s], drawn[s]) :
           LET d == Evaluate(Engines[profile[s]], allowed, draws, perBindClock[s] + 1)
           IN  /\ decisions' = [decisions EXCEPT ![s] = Append(@, d)]
               /\ drawn' = [drawn EXCEPT ![s] = @ + d.used]
               /\ gate' = IF gated THEN [gate EXCEPT ![s] = Counted(@, now)] ELSE gate
               /\ admitted' = IF gated /\ allowed THEN [admitted EXCEPT ![s] = Append(@, now)] ELSE admitted
  /\ pc' = [pc EXCEPT ![s] = "commit"]
  /\ UNCHANGED <<cfg, phase, now, smscVars, observedVars, id, perBindClock, profile, cursor>>

\* Both clocks advance ...
Commit(s) ==
  /\ pc[s] = "commit"
  /\ perBindClock' = [perBindClock EXCEPT ![s] = @ + 1]
  /\ logicalClock' = logicalClock + 1
  /\ pc' = [pc EXCEPT ![s] = "record"]
  /\ UNCHANGED <<cfg, phase, now, bindSeq, registry, journal, observedVars, id, profile, cursor, drawn,
                 gate, decisions, admitted>>

\* Faulty variant: the id is made of the clock all binds share.
RecordShared(s) ==
  /\ pc[s] = "record"
  /\ journal' = Append(journal, [bind |-> id[s], tick |-> logicalClock])
  /\ pc' = [pc EXCEPT ![s] = IF Last(decisions[s]).outcome = "disconnect" THEN "leave" ELSE "bound"]
  /\ UNCHANGED <<cfg, phase, now, bindSeq, registry, logicalClock, observedVars, bindVars>>

\* ... then the submit is recorded under its message id: the ordinal and the bind's tick. A
\* disconnect ends the bind; so may anything else, at Leave.
Record(s) ==
  /\ pc[s] = "record"
  /\ journal' = Append(journal, [bind |-> id[s], tick |-> perBindClock[s]])
  /\ pc' = [pc EXCEPT ![s] = IF Last(decisions[s]).outcome = "disconnect" THEN "leave" ELSE "bound"]
  /\ UNCHANGED <<cfg, phase, now, bindSeq, registry, logicalClock, observedVars, bindVars>>

Next ==
  \/ Load \/ Elapse
  \/ \E s \in Slots : \/ TakeOrdinal(s) \/ Register(s) \/ Leave(s)
                      \/ Submit(s) \/ ApplyTransition(s) \/ MoveGauge(s) \/ Decide(s)
                      \/ Commit(s) \/ Record(s)

Spec == Init /\ [][Next]_vars
-----------------------------------------------------------------------------
Registered(s) == pc[s] \notin {"closed", "ordinal"}

\* bindSeq, messageID: no two binds, past or present, share an ordinal, so a message id names
\* one submit, and the registry counts every registered bind.
NoSharedIdentity ==
  /\ \A s, r \in Slots : (s # r /\ pc[s] # "closed" /\ pc[r] # "closed") => id[s] # id[r]
  /\ \A i, j \in DOMAIN journal : journal[i] = journal[j] => i = j
  /\ registry = {id[s] : s \in {r \in Slots : Registered(r)}}

\* handleSubmit: however the binds interleave in the recorder, one bind's submits are there
\* in tick order with none missing, and the logical clock is ahead only by those in hand.
CorpusPerBind ==
  /\ \A i \in DOMAIN journal : journal[i].tick =
       Cardinality({j \in 1..i : journal[j].bind = journal[i].bind})
  /\ logicalClock = Len(journal) + Cardinality({s \in Slots : pc[s] = "record"})

\* The profile that governs a tick: the last transition at or before it, the later config
\* entry on a tie.
ProfileAt(smsc, tick) ==
  LET all == smsc.scheduled_transitions
      due == {i \in DOMAIN all : all[i].at <= tick}
      last == {i \in due : \A j \in due : all[j].at < all[i].at \/ (all[j].at = all[i].at /\ j <= i)}
  IN  IF due = {} THEN smsc.scenario.profile ELSE all[CHOOSE i \in last : TRUE].to

\* A bind alone, never throttled: its decisions up to the bound, and the draws they took.
Solo(smsc, engines, ordinal) ==
  LET run[n \in 0..MaxSubmits] ==
        IF n = 0 THEN [decisions |-> <<>>, drawn |-> 0]
        ELSE LET before == run[n - 1]
                 d == Evaluate(engines[ProfileAt(smsc, n)], TRUE,
                               [i \in 1..DrawsPerTick |-> Stream[ordinal][before.drawn + i]], n)
             IN  [decisions |-> Append(before.decisions, d), drawn |-> before.drawn + d.used]
  IN  run[MaxSubmits]

\* Invariant (a): with a seed, on a configuration that Load accepts and whose profile is not a
\* throughput one, what a bind decides is a function of its ordinal and its tick, whatever the
\* other binds do and however long anything takes.
DecisionsReplay ==
  (phase = "serving" /\ Seeded /\ ~ThroughputExempt(Initial)) =>
    \A s \in Slots : pc[s] # "closed" =>
      IsPrefix(decisions[s], Solo(vs, Engines, id[s]).decisions)

\* Evaluate: "enabling it leaves a seeded replay byte-identical": with edge cases off, a bind
\* draws the same numbers and decides the same, response malformations aside.
EdgeCasesShiftNothing ==
  (phase = "serving" /\ Seeded) =>
    LET strict == [p \in DOMAIN Engines |-> [Engines[p] EXCEPT !.edgeEnabled = FALSE]]
    IN  \A o \in 1..bindSeq :
          LET with == Solo(vs, Engines, o)
              without == Solo(vs, strict, o)
          IN  /\ with.drawn = without.drawn
              /\ \A n \in 1..MaxSubmits : [with.decisions[n] EXCEPT !.edge = NoEdge] = without.decisions[n]

\* pickErrorStatus, pickDLROutcome, validateWeights: on an accepted configuration every draw
\* resolves, and an outcome is drawn exactly as often as its weight says.
PicksFollowWeights ==
  LET Faithful(mix, weights) ==
        /\ mix # <<>>
        /\ \A o \in DOMAIN weights :
             Cardinality({n \in 0..(mix[Len(mix)].cum - 1) : Pick(mix, n) = o}) = weights[o]
      e == Engines[Initial]
  IN  phase = "serving" =>
        /\ e.dlrEnabled => e.dlrDelayTicks >= 1 /\ Faithful(e.dlrMix, vs.scenario.dlr.outcome_weights)
        /\ Has(e.params, "error_mix") => Faithful(e.errorMix, e.params.error_mix)

\* WallWindow.Allow: of any 2*cap + 1 submits of a bind that were let by, the first and the
\* last are more than a second apart. This is what the fixed window of throughput.go gives: a
\* burst may straddle a boundary, so cap + 1 submits within a second do happen. The guides
\* promise a sliding window, hence cap and no more (plafonner-le-debit.md:15).
TwiceCapPerSecond ==
  \A s \in Slots : \A i, j \in DOMAIN admitted[s] :
    j = i + 2 * gate[s].capPerSec => admitted[s][j] - admitted[s][i] > Second

\* setActiveProfile, SetActiveScenario: "exactly one series per virtual SMSC reads 1", and it is
\* the observed profile's once nobody is between the two stores, unless two binds have applied
\* transitions at the same time.
ObservedProfilesAgree ==
  phase = "serving" =>
    /\ Cardinality({p \in KnownProfiles : gauge[p] = 1}) = 1
    /\ (~overlapped /\ \A s \in Slots : pc[s] # "gauge") => gauge[activeProfile] = 1
-----------------------------------------------------------------------------
(***************************************************************************)
(* What the repository says and the code does not keep.                    *)
(***************************************************************************)
\* The slow-carrier profile serves a latency of 2 to 4 seconds (validate holds a configured
\* one to that window).
SlowCarrierIsSlow ==
  \A s \in Slots : (pc[s] = "commit" /\ profile[s] = "slow-carrier" /\ Last(decisions[s]).outcome = "success")
    => Last(decisions[s]).latency \in 2000..4000
=============================================================================
