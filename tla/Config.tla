------------------------------- MODULE Config -------------------------------
(***************************************************************************)
(* internal/config: what Load accepts. A configuration is the record the   *)
(* YAML decodes to: an optional block or knob that is absent is not in the *)
(* record's domain. validate returns every fault; here, the set of their   *)
(* sentinels, empty for a configuration that boots. The outside of the     *)
(* process is abstract: a file is "present" or "missing", an address_range *)
(* "ok" or "bad"; a text is its length; success_rate counts in Grains.     *)
(***************************************************************************)
EXTENDS Integers, Sequences, SequencesExt, FiniteSetsExt

CONSTANT Grain   \* the draws a PRNG call tells apart: success_rate counts in them, 1.0 is Grain

ASSUME GrainAssumption == Grain \in Nat \ {0}

\* Whether an optional block or knob is set.
Has(record, field) == field \in DOMAIN record
\* The empty text of an absent name or file.
Empty == "none"
\* The faults of a check that holds or does not.
Unless(ok, sentinel) == IF ok THEN {} ELSE {sentinel}
\* A numeric field, when it is set, must be in its range.
InRange(record, field, lo, hi) ==
  Unless(Has(record, field) => record[field] >= lo /\ record[field] <= hi, "ErrParamOutOfBounds")
Exposed(set, allowed) == Unless(set \subseteq allowed, "ErrParamNotExposed")
Required(set, needed) == Unless(needed \subseteq set, "ErrMissingParam")
Enum(value, valid) == Unless(value \in valid, "ErrInvalidEnum")

PortMax == 65535
OctetMax == 255
PDUBufferSizeMax == 1000000
ThroughputCapMax == 1000000
LatencyMSMax == 600000
WeightMax == 1000000000

\* profileCatalogue: the knobs a profile exposes, the one it requires, its latency window.
Profile(exposes, requires, lo, hi) ==
  [exposes |-> exposes, requires |-> requires, latencyMinMS |-> lo, latencyMaxMS |-> hi]

ProfileCatalogue ==
  [p \in {"healthy", "flaky-carrier", "throttling-carrier", "dead-carrier", "slow-carrier",
          "throughput-capped"} |->
     CASE p = "healthy" -> Profile({}, {}, 0, LatencyMSMax)
       [] p = "flaky-carrier" -> Profile({"success_rate", "error_mix", "disconnect_interval_ticks"},
                                         {"success_rate"}, 0, LatencyMSMax)
       [] p = "throttling-carrier" -> Profile({"throughput_cap_per_sec", "error_code"},
                                              {"throughput_cap_per_sec"}, 0, LatencyMSMax)
       [] p = "dead-carrier" -> Profile({"mode"}, {"mode"}, 0, LatencyMSMax)
       [] p = "slow-carrier" -> Profile({}, {}, 2000, 4000)
       [] p = "throughput-capped" -> Profile({"throughput_cap_per_sec"}, {"throughput_cap_per_sec"},
                                             0, LatencyMSMax)]

\* The enumerations, as their Valid methods list them.
KnownProfiles == DOMAIN ProfileCatalogue
ValidErrors == {"ESME_RTHROTTLED", "ESME_RSUBMITFAIL", "ESME_RINVDSTADR", "ESME_RSYSERR",
                "ESME_RMSGQFUL", "ESME_RINVSRCADR"}
EdgeCaseKinds == {"bad_length", "unknown_command_id", "bad_sequence"}
DeadCarrierModes == {"reject_bind", "timeout_all"}
Scopes == {"all", "oldest", "random"}
Whens == {"before_response", "after_response"}

\* throughputExempt: decided by the wall clock, outside the replayed corpus.
ThroughputExempt(profile) == profile \in {"throttling-carrier", "throughput-capped"}

\* validateClock: wallclock is reserved, and refused.
ValidateClock(block) == Unless(Has(block, "clock") => block.clock = "logical", "ErrInvalidEnum")

\* validateWeights: none so large that the sum could wrap, and not all zero.
ValidateWeights(weights) ==
  Unless(/\ \A w \in DOMAIN weights : weights[w] <= WeightMax
         /\ \E w \in DOMAIN weights : weights[w] > 0, "ErrParamOutOfBounds")

\* validateScenarioParams
ValidateScenarioParams(params, spec) ==
  LET set == DOMAIN params
      shown == [k \in set \cap spec.exposes |-> params[k]]
  IN  Exposed(set, spec.exposes) \cup Required(set, spec.requires)
      \cup InRange(shown, "success_rate", 0, Grain)
      \cup InRange(shown, "throughput_cap_per_sec", 1, ThroughputCapMax)
      \cup Unless(Has(shown, "disconnect_interval_ticks") => shown.disconnect_interval_ticks >= 1,
                  "ErrParamOutOfBounds")
      \cup (IF Has(shown, "error_code") THEN Enum(shown.error_code, ValidErrors) ELSE {})
      \cup (IF Has(shown, "mode") THEN Enum(shown.mode, DeadCarrierModes) ELSE {})
      \cup (IF Has(shown, "error_mix")
            THEN Unless(DOMAIN shown.error_mix \subseteq ValidErrors, "ErrInvalidEnum")
                 \cup ValidateWeights(shown.error_mix)
            ELSE {})

\* latencyRequiredKnobs
LatencyKnobs == [fixed |-> {"ms"}, uniform |-> {"min_ms", "max_ms"}, normal |-> {"mean_ms", "stddev_ms"},
                 spike |-> {"base_ms", "spike_ms", "interval_ticks"}]

\* validateLatency: exactly the distribution's knobs, and the positions in the profile's window.
ValidateLatency(lat, spec) ==
  LET p == lat.params
      needed == LatencyKnobs[lat.distribution]
  IN  IF lat.distribution \notin DOMAIN LatencyKnobs THEN {"ErrInvalidEnum"}
      ELSE Exposed(DOMAIN p, needed) \cup Required(DOMAIN p, needed)
           \cup (UNION {InRange(p, k, spec.latencyMinMS, spec.latencyMaxMS) :
                        k \in {"ms", "min_ms", "max_ms", "mean_ms", "base_ms", "spike_ms"}})
           \cup Unless({"min_ms", "max_ms"} \subseteq DOMAIN p => p.min_ms <= p.max_ms, "ErrParamOutOfBounds")
           \cup InRange(p, "stddev_ms", 0, spec.latencyMaxMS)
           \cup Unless(Has(p, "interval_ticks") => p.interval_ticks >= 1, "ErrParamOutOfBounds")

\* validateDLR: the fixed delay only, of at least one tick, and drawable weights.
ValidateDLR(dlr) ==
  ValidateClock(dlr)
  \cup (IF dlr.distribution # "fixed" THEN {"ErrInvalidEnum"}
        ELSE IF ~Has(dlr, "ticks") THEN {"ErrMissingParam"}
        ELSE Unless(dlr.ticks >= 1, "ErrParamOutOfBounds"))
  \cup Unless(DOMAIN dlr \cap {"min_ticks", "max_ticks"} = {}, "ErrParamNotExposed")
  \cup ValidateWeights(dlr.outcome_weights)

\* validateEdgeCases: the block needs its switch, a cadence of at least one tick, known kinds.
ValidateEdgeCases(enabled, edge) ==
  IF ~enabled THEN {"ErrParamNotExposed"}
  ELSE Unless(Has(edge, "inject_every_ticks") => edge.inject_every_ticks >= 1, "ErrParamOutOfBounds")
       \cup (IF Has(edge, "kinds") THEN Unless(ToSet(edge.kinds) \subseteq EdgeCaseKinds, "ErrInvalidEnum")
             ELSE {})

\* validateScenario: an unknown profile has no knobs to check against.
ValidateScenario(sc) ==
  IF sc.profile \notin KnownProfiles THEN {"ErrUnknownProfile"}
  ELSE ValidateScenarioParams(sc.params, ProfileCatalogue[sc.profile])
       \cup ValidateLatency(sc.latency, ProfileCatalogue[sc.profile])
       \cup (IF Has(sc, "dlr") THEN ValidateDLR(sc.dlr) ELSE {})
       \cup (IF Has(sc, "protocol_edge_cases")
             THEN ValidateEdgeCases(sc.protocol_edge_cases_enabled, sc.protocol_edge_cases) ELSE {})
-----------------------------------------------------------------------------
\* validateTLS: both files or none, only with TLS on, and on the disk.
ValidateTLS(tls) ==
  LET files == {tls.cert_file, tls.key_file}
  IN  IF (tls.cert_file = Empty) # (tls.key_file = Empty) THEN {"ErrTLSCertKeyMismatch"}
      ELSE IF tls.cert_file = Empty THEN {}
      ELSE Unless(tls.enabled, "ErrTLSCertWithoutEnabled") \cup Unless(files = {"present"}, "ErrTLSCertNotFound")

\* validateMOInjection: only the scheduled mode injects; auto is reserved, and refused.
ValidateMOInjection(mo) ==
  LET unused == {"rate_per_sec", "content_template"} \cap DOMAIN mo
      TooLong(ev) == ev.source_addr > 20 \/ ev.dest_addr > 20 \/ ev.content > 254
  IN  IF mo.mode \notin {"scheduled", "auto", "disabled"} THEN {"ErrInvalidEnum"}
      ELSE ValidateClock(mo)
           \cup CASE mo.mode = "scheduled" ->
                       Unless(Len(mo.events) > 0, "ErrMissingParam") \cup Unless(unused = {}, "ErrParamNotExposed")
                       \cup Unless(\A i \in DOMAIN mo.events : ~TooLong(mo.events[i]), "ErrParamOutOfBounds")
                  [] mo.mode = "auto" -> {"ErrInvalidEnum"}
                  [] mo.mode = "disabled" ->
                       Unless(unused = {} /\ Len(mo.events) = 0, "ErrParamNotExposed")

\* Faulty variant: a seed and a wall-clock limit go together on any profile.
SeededThroughputUnchecked(vs) == {}

\* What would let the wall clock into a seeded replay: a limit on a deterministic profile, or
\* a transition into a throughput profile.
SeededThroughput(vs) ==
  Unless(Has(vs, "seed") =>
           /\ Has(vs, "throughput_limit_per_sec") => ThroughputExempt(vs.scenario.profile)
           /\ \A i \in DOMAIN vs.scheduled_transitions : ~ThroughputExempt(vs.scheduled_transitions[i].to),
         "ErrSeededThroughputLimit")

\* Every transition goes to a profile of the catalogue.
TransitionTargets(vs) ==
  Unless(\A i \in DOMAIN vs.scheduled_transitions : vs.scheduled_transitions[i].to \in KnownProfiles,
         "ErrUnknownToProfile")

\* validateVirtualSMSC
ValidateVirtualSMSC(vs) ==
  Unless(vs.name # Empty, "ErrMissingParam")
  \cup InRange(vs, "port", 1, PortMax)
  \cup InRange(vs, "addr_ton", 0, OctetMax) \cup InRange(vs, "addr_npi", 0, OctetMax)
  \cup InRange(vs, "pdu_buffer_size", 1, PDUBufferSizeMax)
  \cup Unless(Has(vs, "throughput_limit_per_sec") => vs.throughput_limit_per_sec >= 1, "ErrParamOutOfBounds")
  \cup InRange(vs, "quiescence_flush_ms", 1, LatencyMSMax)
  \cup SeededThroughput(vs)
  \cup Unless(vs.address_range # "bad", "ErrInvalidAddressRange")
  \cup ValidateTLS(vs.tls)
  \cup ValidateScenario(vs.scenario)
  \cup (IF Has(vs, "mo_injection") THEN ValidateMOInjection(vs.mo_injection) ELSE {})
  \cup (UNION {Enum(vs.scheduled_disconnects[i].scope, Scopes) \cup Enum(vs.scheduled_disconnects[i].when, Whens) :
               i \in DOMAIN vs.scheduled_disconnects})
  \cup TransitionTargets(vs)

\* validate: the HTTP port, every virtual SMSC, and one port per listener. An HTTP port of 0 is
\* the system's choice and collides with none. Names may repeat.
Validate(cfg) ==
  (IF Has(cfg, "observability") THEN InRange(cfg.observability, "http_port", 0, PortMax) ELSE {})
  \cup (UNION {ValidateVirtualSMSC(cfg.virtual_smscs[i]) : i \in DOMAIN cfg.virtual_smscs})
  \cup Unless(\A i \in DOMAIN cfg.virtual_smscs :
                /\ \A j \in 1..(i - 1) : cfg.virtual_smscs[j].port # cfg.virtual_smscs[i].port
                /\ (Has(cfg, "observability") /\ cfg.observability.http_port > 0)
                     => cfg.observability.http_port # cfg.virtual_smscs[i].port, "ErrDuplicatePort")
=============================================================================
