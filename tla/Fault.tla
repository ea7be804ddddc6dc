------------------------------- MODULE Fault --------------------------------
(***************************************************************************)
(* internal/fault: the served latency and the throughput gate. Both are    *)
(* pure here: the caller passes the draw, or the time, that the code       *)
(* takes from the bind's PRNG or from the wall clock.                      *)
(***************************************************************************)
EXTENDS Config

CONSTANT Second   \* one second, in steps of the wall clock

ASSUME SecondAssumption == Second \in Nat \ {0}

\* A draw mapped to 0..n-1 (rand.Uint64N, which panics on n = 0).
Uint64N(draw, n) == draw % n

\* LatencyMS: the latency of the submit at tick t, and how many draws it took. A
\* bare transition target has no latency block: the zero distribution serves none.
LatencyMS(lat, t, draw) ==
  LET p == lat.params
      normal == p.mean_ms + p.stddev_ms * (draw - Grain \div 2)
  IN  CASE lat.distribution = "fixed" -> [ms |-> p.ms, used |-> 0]
        [] lat.distribution = "uniform" ->
             IF p.max_ms <= p.min_ms THEN [ms |-> p.min_ms, used |-> 0]
             ELSE [ms |-> p.min_ms + Uint64N(draw, p.max_ms - p.min_ms + 1), used |-> 1]
        [] lat.distribution = "normal" -> [ms |-> IF normal <= 0 THEN 0 ELSE normal, used |-> 1]
        [] lat.distribution = "spike" ->
             [ms |-> IF p.interval_ticks # 0 /\ t % p.interval_ticks = 0 THEN p.spike_ms ELSE p.base_ms,
              used |-> 0]
        [] OTHER -> [ms |-> 0, used |-> 0]
-----------------------------------------------------------------------------
(***************************************************************************)
(* WallWindow: a fixed window of one second that the first submit after it *)
(* has elapsed reopens.                                                    *)
(***************************************************************************)
\* The zero windowStart is far in the past: the first submit opens a window.
NewWallWindow(cap) == [capPerSec |-> cap, windowStart |-> -Second, count |-> 0]

\* Faulty variant: a window that has elapsed is counted afresh but not restarted.
CountedStuck(gate, now) ==
  [gate EXCEPT !.count = (IF now - gate.windowStart >= Second THEN 0 ELSE @) + 1]

\* Allow's effect on the window: reopen it if its second has elapsed, count the submit.
Counted(gate, now) ==
  LET fresh == now - gate.windowStart >= Second
  IN  [gate EXCEPT !.windowStart = IF fresh THEN now ELSE @, !.count = (IF fresh THEN 0 ELSE @) + 1]

\* Allow's answer: the submit is within the cap of its window.
Allow(gate, now) == Counted(gate, now).count <= gate.capPerSec
=============================================================================
