------------------------------ MODULE Scenario ------------------------------
(***************************************************************************)
(* internal/scenario: the engine a configured scenario becomes, and what   *)
(* it decides for the submit at a tick. Engine is immutable, so it is a    *)
(* value; what a bind owns (its PRNG position, its throughput gate) is     *)
(* state of VirtualSMSC and passed in. `draws` is the PRNG's future: the   *)
(* decision says how many of them it took.                                 *)
(***************************************************************************)
EXTENDS Fault

\* The error codes of the catalogue in the order of their names, which is the order of the mix.
ErrorCodes == <<"ESME_RINVDSTADR", "ESME_RINVSRCADR", "ESME_RMSGQFUL", "ESME_ROK", "ESME_RSUBMITFAIL",
                "ESME_RSYSERR", "ESME_RTHROTTLED">>
DLROutcomes == <<"delivered", "failed", "expired">>
EdgeKinds == <<"bad_length", "unknown_command_id", "bad_sequence">>
NoDLR == "none"
NoEdge == "none"

\* One round of the loop below: a weight that is set and not zero is added to the sum.
Weighed(before, x, weights) ==
  LET cum == before.cum + weights[x]
  IN  IF x \in DOMAIN weights /\ weights[x] > 0
      THEN [cum |-> cum, mix |-> Append(before.mix, [value |-> x, cum |-> cum])] ELSE before

\* buildErrorMix, buildDLRMix: the weights flattened in a fixed order, zeros dropped, each with
\* the sum of the weights up to it.
Flatten(order, weights) ==
  LET after[i \in 0..Len(order)] ==
        IF i = 0 THEN [cum |-> 0, mix |-> <<>>] ELSE Weighed(after[i - 1], order[i], weights)
  IN  after[Len(order)].mix

\* Faulty variant: an entry also takes the first draw of its successor.
PickInclusive(mix, draw) ==
  LET n == Uint64N(draw, mix[Len(mix)].cum)
  IN  mix[CHOOSE i \in DOMAIN mix : n <= mix[i].cum /\ \A j \in 1..(i - 1) : n > mix[j].cum].value

\* pickErrorStatus, pickDLROutcome: one draw selects an entry of a mix that is not empty.
Pick(mix, draw) ==
  LET n == Uint64N(draw, mix[Len(mix)].cum)
  IN  mix[CHOOSE i \in DOMAIN mix : n < mix[i].cum /\ \A j \in 1..(i - 1) : n >= mix[j].cum].value

\* New: params, latency, DLR and edge cases default to none, as on a bare transition target.
New(sc, limit) ==
  LET Field(f, default) == IF Has(sc, f) THEN sc[f] ELSE default
      params == Field("params", <<>>)
      edge == Field("protocol_edge_cases", <<>>)
      kinds == IF Has(edge, "kinds") THEN edge.kinds ELSE <<>>
  IN  [profile |-> sc.profile,
       params |-> params,
       latency |-> Field("latency", [distribution |-> "none", params |-> <<>>]),
       errorMix |-> IF Has(params, "error_mix") THEN Flatten(ErrorCodes, params.error_mix) ELSE <<>>,
       dlrEnabled |-> Has(sc, "dlr"),
       dlrMix |-> IF Has(sc, "dlr") THEN Flatten(DLROutcomes, sc.dlr.outcome_weights) ELSE <<>>,
       dlrDelayTicks |-> IF Has(sc, "dlr") /\ Has(sc.dlr, "ticks") THEN sc.dlr.ticks ELSE 0,
       edgeEnabled |-> Field("protocol_edge_cases_enabled", FALSE),
       edgeEveryTicks |-> IF Has(edge, "inject_every_ticks") THEN edge.inject_every_ticks ELSE 1,
       edgeKinds |-> IF kinds = <<>> THEN EdgeKinds ELSE kinds,
       limitPerSec |-> limit]

\* effectiveCap: the tightest cap that applies, {} if none does.
EffectiveCap(e) ==
  LET caps == e.limitPerSec \cup IF ThroughputExempt(e.profile) /\ Has(e.params, "throughput_cap_per_sec")
                                 THEN {e.params.throughput_cap_per_sec} ELSE {}
  IN  IF caps = {} THEN {} ELSE {Min(caps)}

\* RejectBind: a dead carrier that turns every bind away.
RejectBind(e) == e.profile = "dead-carrier" /\ Has(e.params, "mode") /\ e.params.mode = "reject_bind"

\* throttleStatus, statusFor
ThrottleStatus(e) ==
  IF e.profile = "throttling-carrier" /\ Has(e.params, "error_code") THEN e.params.error_code
  ELSE "ESME_RTHROTTLED"

\* edgeCaseFor: a pure function of the tick.
EdgeCaseFor(e, t) ==
  IF e.edgeEnabled /\ t # 0 /\ t % e.edgeEveryTicks = 0
  THEN e.edgeKinds[((t \div e.edgeEveryTicks - 1) % Len(e.edgeKinds)) + 1] ELSE NoEdge

Outcome(outcome, status, latency) ==
  [outcome |-> outcome, status |-> status, latency |-> latency.ms, dlr |-> NoDLR, edge |-> NoEdge,
   used |-> latency.used]

\* evaluateFlaky: success or error, the error's code, then the latency; the periodic
\* disconnect overlays the outcome that was drawn.
EvaluateFlaky(e, draws, t) ==
  LET successRate == IF Has(e.params, "success_rate") THEN e.params.success_rate ELSE Grain
      failed == draws[1] >= successRate
      picks == failed /\ e.errorMix # <<>>
      status == IF picks THEN Pick(e.errorMix, draws[2])
                ELSE IF failed THEN "ESME_RSUBMITFAIL" ELSE "ESME_ROK"
      taken == IF picks THEN 2 ELSE 1
      latency == LatencyMS(e.latency, t, draws[taken + 1])
      cuts == /\ Has(e.params, "disconnect_interval_ticks")
              /\ e.params.disconnect_interval_ticks # 0
              /\ t % e.params.disconnect_interval_ticks = 0
  IN  Outcome(IF cuts THEN "disconnect" ELSE IF failed THEN "error" ELSE "success", status,
              [latency EXCEPT !.used = @ + taken])

\* evaluate: the gate first, then the profile.
EvaluateProfile(e, allowed, draws, t) ==
  CASE ~allowed -> Outcome("error", ThrottleStatus(e), [ms |-> 0, used |-> 0])
    [] allowed /\ e.profile = "flaky-carrier" -> EvaluateFlaky(e, draws, t)
    [] allowed /\ e.profile = "dead-carrier" -> Outcome("timeout", "ESME_ROK", [ms |-> 0, used |-> 0])
    [] OTHER -> Outcome("success", "ESME_ROK", LatencyMS(e.latency, t, draws[1]))

\* Faulty variant: the malformation takes a draw after the receipt's.
EvaluateDrawingEdge(e, allowed, draws, t) ==
  LET d == EvaluateProfile(e, allowed, draws, t)
      receipt == e.dlrEnabled /\ d.outcome = "success"
      edge == EdgeCaseFor(e, t)
  IN  [d EXCEPT !.dlr = IF receipt THEN Pick(e.dlrMix, draws[d.used + 1]) ELSE NoDLR,
                !.edge = edge,
                !.used = @ + (IF receipt THEN 1 ELSE 0) + IF edge = NoEdge THEN 0 ELSE 1]

\* Evaluate: the receipt's outcome is the last draw of the tick, and only of a success; the
\* edge case takes none.
Evaluate(e, allowed, draws, t) ==
  LET d == EvaluateProfile(e, allowed, draws, t)
      receipt == e.dlrEnabled /\ d.outcome = "success"
      picks == receipt /\ e.dlrMix # <<>>
  IN  [d EXCEPT !.dlr = IF picks THEN Pick(e.dlrMix, draws[d.used + 1])
                        ELSE IF receipt THEN "delivered" ELSE NoDLR,
                !.edge = EdgeCaseFor(e, t),
                !.used = @ + IF picks THEN 1 ELSE 0]
=============================================================================
