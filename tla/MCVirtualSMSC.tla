--------------------------- MODULE MCVirtualSMSC ----------------------------
(***************************************************************************)
(* Instances of VirtualSMSC for TLC: configurations that Load accepts, and *)
(* one for each way in which it refuses the neighbours of those.           *)
(***************************************************************************)
EXTENDS VirtualSMSC

Fixed(ms) == [distribution |-> "fixed", params |-> [ms |-> ms]]
Uniform(lo, hi) == [distribution |-> "uniform", params |-> [min_ms |-> lo, max_ms |-> hi]]
Normal == [distribution |-> "normal", params |-> [mean_ms |-> 3, stddev_ms |-> 1]]
Spike(n) == [distribution |-> "spike", params |-> [base_ms |-> 1, spike_ms |-> 9, interval_ticks |-> n]]

Scene(p, params, latency) == [profile |-> p, params |-> params, latency |-> latency]
Receipts(d, f, e, ticks) == [distribution |-> "fixed", ticks |-> ticks,
                             outcome_weights |-> [delivered |-> d, failed |-> f, expired |-> e]]
Edges(sc, every) == sc @@ [protocol_edge_cases_enabled |-> TRUE,
                           protocol_edge_cases |-> [inject_every_ticks |-> every,
                                                    kinds |-> <<"bad_sequence", "bad_length">>]]
To(tick, p) == [at |-> tick, to |-> p]

FlakyParams == [success_rate |-> 5, disconnect_interval_ticks |-> 3,
                error_mix |-> [ESME_RSYSERR |-> 2, ESME_RINVDSTADR |-> 1, ESME_RMSGQFUL |-> 0]]
Flaky == Scene("flaky-carrier", FlakyParams, Uniform(0, 3))
Healthy == Scene("healthy", <<>>, Fixed(1))
Throttling(cap) == Scene("throttling-carrier", [throughput_cap_per_sec |-> cap, error_code |-> "ESME_RMSGQFUL"],
                         Fixed(0))

SMSC(sc, transitions, more) ==
  more @@ [name |-> "carrier", port |-> 2775, addr_ton |-> 0, addr_npi |-> 0, address_range |-> "ok",
           tls |-> [enabled |-> FALSE, cert_file |-> Empty, key_file |-> Empty], pdu_buffer_size |-> 10,
           scenario |-> sc, scheduled_disconnects |-> <<>>, scheduled_transitions |-> transitions]
Seed == [seed |-> 7]
Alone(smsc) == [virtual_smscs |-> <<smsc>>]

\* Seeded replays: flaky with receipts and malformations and back from healthy; a healthy one
\* with every latency; transitions out of order with a tie.
Replays == {
  SMSC(Edges(Flaky @@ [dlr |-> Receipts(1, 2, 0, 1)], 1), <<To(3, "flaky-carrier"), To(2, "healthy")>>, Seed),
  SMSC(Edges(Scene("healthy", <<>>, Normal) @@ [dlr |-> Receipts(1, 0, 1, 1)], 2), <<>>, Seed),
  SMSC(Scene("healthy", <<>>, Spike(2)), <<To(1, "healthy"), To(1, "dead-carrier")>>, Seed),
  SMSC(Scene("slow-carrier", <<>>, Uniform(2000, 2003)), <<To(0, "healthy"), To(2, "slow-carrier")>>, Seed)}

\* Decided by the wall clock, or by nothing reproducible.
Unreplayed == {
  SMSC(Throttling(2), <<>>, [throughput_limit_per_sec |-> 1]),
  SMSC(Throttling(2), <<>>, <<>>),
  SMSC(Throttling(1), <<To(2, "flaky-carrier")>>, Seed),
  SMSC(Scene("throughput-capped", [throughput_cap_per_sec |-> 1], Fixed(0)), <<>>, Seed),
  SMSC(Flaky, <<>>, <<>>),
  SMSC(Healthy, <<To(2, "throughput-capped")>>, <<>>),
  SMSC(Scene("dead-carrier", [mode |-> "reject_bind"], Fixed(0)), <<>>, Seed),
  SMSC(Scene("dead-carrier", [mode |-> "timeout_all"], Fixed(0)), <<>>, <<>>)}

\* One configuration per check that refuses it.
Refused == {
  SMSC(Flaky, <<>>, Seed @@ [throughput_limit_per_sec |-> 1]),
  SMSC(Healthy, <<To(1, "throttling-carrier")>>, Seed),
  SMSC(Healthy, <<To(1, "lost")>>, Seed),
  SMSC(Healthy, <<>>, [throughput_limit_per_sec |-> 0]),
  SMSC(Healthy, <<>>, [quiescence_flush_ms |-> 0]),
  SMSC(Healthy, <<>>, [mo_injection |-> [mode |-> "auto", events |-> <<>>]]),
  SMSC(Healthy, <<>>, [mo_injection |-> [mode |-> "scheduled", events |-> <<>>, clock |-> "wallclock"]]),
  SMSC(Healthy, <<>>, [mo_injection |-> [mode |-> "disabled", rate_per_sec |-> 1, events |-> <<>>]]),
  SMSC(Healthy, <<>>, [tls |-> [enabled |-> TRUE, cert_file |-> "present", key_file |-> Empty]]),
  SMSC(Healthy, <<>>, [tls |-> [enabled |-> FALSE, cert_file |-> "present", key_file |-> "missing"]]),
  SMSC(Healthy, <<>>, [scheduled_disconnects |-> <<[at |-> 1, scope |-> "youngest", when |-> "before_response"]>>]),
  SMSC(Healthy @@ [dlr |-> Receipts(0, 0, 0, 1)], <<>>, Seed),
  SMSC(Healthy @@ [dlr |-> Receipts(1, 0, 0, 0)], <<>>, Seed),
  SMSC(Edges(Healthy, 0), <<>>, Seed),
  SMSC(Scene("healthy", <<>>, Spike(0)), <<>>, Seed),
  SMSC(Scene("healthy", <<>>, Uniform(3, 1)), <<>>, Seed),
  SMSC(Scene("healthy", <<>>, [distribution |-> "none", params |-> <<>>]), <<>>, Seed),
  SMSC(Scene("slow-carrier", <<>>, Fixed(9)), <<>>, Seed),
  SMSC(Scene("healthy", [success_rate |-> 1], Fixed(0)), <<>>, Seed),
  SMSC(Scene("flaky-carrier", <<>>, Fixed(0)), <<>>, Seed),
  SMSC(Scene("lost", <<>>, Fixed(0)), <<>>, Seed)}

\* Two listeners on one port, and the HTTP surface on an SMPP port.
Collisions == {
  [virtual_smscs |-> <<SMSC(Healthy, <<>>, Seed), SMSC(Healthy, <<>>, Seed)>>],
  Alone(SMSC(Healthy, <<>>, Seed)) @@ [observability |-> [http_port |-> 2775]]}

AllConfigs == {Alone(c) : c \in Replays \cup Unreplayed \cup Refused} \cup Collisions
SlowTarget == {Alone(SMSC(Healthy, <<To(2, "slow-carrier")>>, Seed))}

SlotSymmetry == Permutations(Slots)

\* A stream per ordinal, each with low and high draws near the start.
MCStream == [o \in 1..MaxBinds |-> [i \in 1..(DrawsPerTick * MaxSubmits) |-> (5 * o + 3 * i * i + o * i) % Grain]]
=============================================================================
