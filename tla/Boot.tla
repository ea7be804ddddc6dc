-------------------------------- MODULE Boot --------------------------------
(***************************************************************************)
(* cmd/smsc-simulator/main.go with internal/observability/server.go: the   *)
(* life of the process around the engine. run loads the configuration,     *)
(* opens the SMPP listeners, then the HTTP surface, starts both, waits for *)
(* a signal or a failure, and stops both in turn, each within a deadline.  *)
(*                                                                         *)
(* net/http is external: Serve returns an error of its own or because      *)
(* Shutdown was called, and closes the listener as it returns; Shutdown    *)
(* closes the listener of a running Serve, then waits for requests in      *)
(* flight. When run has returned its goroutines may still take steps, as   *)
(* they do in a test that calls run; the binary exits.                     *)
(***************************************************************************)
EXTENDS Engine

CONSTANT SurfaceModes   \* whether the configuration may have an observability block

ASSUME BootConfig == SurfaceModes \subseteq BOOLEAN

VARIABLES
  observed,        \* the configuration has an observability block
  run,             \* where run is
  cause,           \* what ended it: none, config, certs, port, surface_port, surface, engine, signal
  result,          \* what it returned: none, ok, error
  signalled,       \* SIGTERM or SIGINT arrived, or the caller cancelled ctx
  surface,         \* the HTTP listener: none, open, closed
  surfaceServe,    \* srv.Serve: none, called, serving, stopped, failed
  surfaceStop,     \* srv.Shutdown: none, draining, drained, overran
  obsErr, engineErr   \* the channels of capacity 1: none (empty), nil, err

surfaceVars == <<surface, surfaceServe, surfaceStop, obsErr>>
bootVars == <<observed, run, cause, result, signalled, surfaceVars, engineErr>>
vars == <<engineVars, bootVars>>

Causes == {"config", "certs", "port", "surface_port", "surface", "engine", "signal"}
BootFailures == {"config", "certs", "port", "surface_port"}

Init ==
  /\ EngineInit
  /\ observed \in SurfaceModes /\ run = "load" /\ cause = "none" /\ result = "none" /\ signalled = FALSE
  /\ surface = "none" /\ surfaceServe = "none" /\ surfaceStop = "none"
  /\ obsErr = "none" /\ engineErr = "none"

Return(why, res) == run' = "returned" /\ cause' = why /\ result' = res
StopEngine(why) == run' = "stopEngine" /\ cause' = why /\ shutdown' = "listeners" /\ UNCHANGED result
GoTo(where) == run' = where /\ UNCHANGED <<cause, result>>
-----------------------------------------------------------------------------
(***************************************************************************)
(* Start-up. Nothing binds a port before the configuration is loaded.      *)
(***************************************************************************)
LoadConfig ==
  /\ run = "load"
  /\ GoTo("certs") \/ Return("config", "error")
  /\ UNCHANGED <<engineVars, observed, signalled, surfaceVars, engineErr>>

LoadCerts ==
  /\ run = "certs"
  /\ GoTo("listen") \/ (hosted # {} /\ Return("certs", "error"))
  /\ UNCHANGED <<engineVars, observed, signalled, surfaceVars, engineErr>>

OpenListener ==
  /\ run = "listen"
  /\ \/ Listen /\ UNCHANGED <<run, cause, result>>
     \/ ListenFails /\ Return("port", "error")
  /\ UNCHANGED <<observed, signalled, surfaceVars, engineErr>>

ListenersOpen ==
  /\ run = "listen" /\ \A v \in hosted : listener[v] = "open"
  /\ GoTo("observe")
  /\ UNCHANGED <<engineVars, observed, signalled, surfaceVars, engineErr>>

\* Faulty variant: a surface that cannot bind its port returns without stopping the engine.
StartObservabilityBare ==
  /\ run = "observe"
  /\ \/ ~observed /\ GoTo("start") /\ UNCHANGED surface
     \/ observed /\ GoTo("start") /\ surface' = "open"
     \/ observed /\ Return("surface_port", "error") /\ UNCHANGED surface
  /\ UNCHANGED <<engineVars, observed, signalled, surfaceServe, surfaceStop, obsErr, engineErr>>

StartObservability ==
  /\ run = "observe"
  /\ \/ ~observed /\ GoTo("start") /\ UNCHANGED <<surface, shutdown>>
     \/ observed /\ GoTo("start") /\ surface' = "open" /\ UNCHANGED shutdown
     \/ observed /\ StopEngine("surface_port") /\ UNCHANGED surface
  /\ UNCHANGED <<hosted, listener, quit, serving, wg, serve, acceptor, conn, at>>
  /\ UNCHANGED <<observed, signalled, surfaceServe, surfaceStop, obsErr, engineErr>>

StartServing ==
  /\ run = "start"
  /\ surfaceServe' = IF observed THEN "called" ELSE surfaceServe
  /\ serve' = "called"
  /\ GoTo("select")
  /\ UNCHANGED <<hosted, listener, quit, serving, wg, acceptor, conn, at, shutdown>>
  /\ UNCHANGED <<observed, signalled, surface, surfaceStop, obsErr, engineErr>>

\* From NotifyContext on; before it a signal kills the process.
Signal ==
  /\ run \notin {"load", "returned"} /\ ~signalled
  /\ signalled' = TRUE
  /\ UNCHANGED <<engineVars, observed, run, cause, result, surfaceVars, engineErr>>
-----------------------------------------------------------------------------
(***************************************************************************)
(* The select of run, and the two drains that follow it.                   *)
(***************************************************************************)
\* Faulty variant: run waits for a signal or the engine, not for the surface.
ReadyArmsUnobserved == (IF engineErr # "none" THEN {"engine"} ELSE {}) \cup (IF signalled THEN {"signal"} ELSE {})

ReadyArms == (IF obsErr # "none" THEN {"surface"} ELSE {})
               \cup (IF engineErr # "none" THEN {"engine"} ELSE {})
               \cup (IF signalled THEN {"signal"} ELSE {})

Select(arm) ==
  /\ run = "select" /\ arm \in ReadyArms
  /\ IF arm = "engine"
       THEN run' = "stopSurface" /\ cause' = arm /\ UNCHANGED <<result, shutdown>>
       ELSE StopEngine(arm)
  /\ obsErr' = IF arm = "surface" THEN "none" ELSE obsErr
  /\ engineErr' = IF arm = "engine" THEN "none" ELSE engineErr
  /\ UNCHANGED <<hosted, listener, quit, serving, wg, serve, acceptor, conn, at>>
  /\ UNCHANGED <<observed, signalled, surface, surfaceServe, surfaceStop>>

\* The engine's drain overrunning is logged, not returned.
EngineStopped ==
  /\ run = "stopEngine" /\ shutdown \in ShutdownResults
  /\ IF cause = "signal" THEN GoTo("stopSurface") ELSE Return(cause, "error")
  /\ UNCHANGED <<engineVars, observed, signalled, surfaceVars, engineErr>>

\* Faulty variant: what the surface returned is dropped.
OutcomeIgnoring(err) == IF cause = "engine" THEN "error" ELSE "ok"

\* shutdown's error is dropped when the engine has stopped by itself.
Outcome(err) == IF cause = "engine" \/ err = "err" THEN "error" ELSE "ok"

StopSurface ==
  /\ run = "stopSurface"
  /\ \/ /\ ~observed
        /\ Return(cause, Outcome("nil"))
        /\ UNCHANGED <<surface, surfaceStop>>
     \/ /\ observed
        /\ surface' = IF surfaceServe = "serving" THEN "closed" ELSE surface
        /\ surfaceStop' = "draining"
        /\ GoTo("drainSurface")
  /\ UNCHANGED <<engineVars, observed, signalled, surfaceServe, obsErr, engineErr>>

SurfaceDrained ==
  /\ run = "drainSurface"
  /\ surfaceStop' = "drained"
  /\ GoTo("receive")
  /\ UNCHANGED <<engineVars, observed, signalled, surface, surfaceServe, obsErr, engineErr>>

\* A request in flight, so Serve has run; logged, and what Serve returned is not read.
SurfaceOverruns ==
  /\ run = "drainSurface" /\ surfaceServe # "called"
  /\ surfaceStop' = "overran"
  /\ Return(cause, Outcome("nil"))
  /\ UNCHANGED <<engineVars, observed, signalled, surface, surfaceServe, obsErr, engineErr>>

Receive ==
  /\ run = "receive" /\ obsErr # "none"
  /\ Return(cause, Outcome(obsErr))
  /\ obsErr' = "none"
  /\ UNCHANGED <<engineVars, observed, signalled, surface, surfaceServe, surfaceStop, engineErr>>
-----------------------------------------------------------------------------
(***************************************************************************)
(* srv.Serve: it serves, or returns at once if Shutdown came first.        *)
(***************************************************************************)
SurfaceServes ==
  /\ surfaceServe = "called" /\ surfaceStop = "none"
  /\ surfaceServe' = "serving"
  /\ UNCHANGED <<engineVars, observed, run, cause, result, signalled, surface, surfaceStop, obsErr,
                 engineErr>>

SurfaceStops ==
  /\ surfaceServe \in {"called", "serving"} /\ surfaceStop # "none"
  /\ surfaceServe' = "stopped" /\ surface' = "closed" /\ obsErr' = "nil"
  /\ UNCHANGED <<engineVars, observed, run, cause, result, signalled, surfaceStop, engineErr>>

SurfaceFails ==
  /\ surfaceServe = "serving" /\ surfaceStop = "none"
  /\ surfaceServe' = "failed" /\ surface' = "closed" /\ obsErr' = "err"
  /\ UNCHANGED <<engineVars, observed, run, cause, result, signalled, surfaceStop, engineErr>>

EngineServeReturns ==
  /\ ServeReturns /\ engineErr' = "nil"
  /\ UNCHANGED <<observed, run, cause, result, signalled, surfaceVars>>
-----------------------------------------------------------------------------
RunStep ==
  \/ LoadConfig \/ LoadCerts \/ OpenListener \/ ListenersOpen \/ StartObservability \/ StartServing
  \/ \E arm \in Causes : Select(arm)
  \/ EngineStopped \/ StopSurface \/ SurfaceDrained \/ SurfaceOverruns \/ Receive
ServeGoroutine == (ServeStep /\ UNCHANGED bootVars) \/ EngineServeReturns
AcceptLoop(v) == AcceptStep(v) /\ UNCHANGED bootVars
ShutdownCall == ShutdownStep /\ UNCHANGED bootVars
SurfaceGoroutine == SurfaceServes \/ SurfaceStops
Clients == \E c \in Conns : ((\E v \in SMSCs : Connect(c, v)) \/ SessionEnds(c)) /\ UNCHANGED bootVars

\* run has returned; whatever still runs dies with the process.
Ended == run = "returned" /\ UNCHANGED vars

Next ==
  \/ RunStep \/ ServeGoroutine \/ (\E v \in SMSCs : AcceptLoop(v)) \/ ShutdownCall
  \/ SurfaceGoroutine \/ SurfaceFails \/ Clients \/ Signal \/ Ended

Spec == Init /\ [][Next]_vars

(* Goroutines run, drains end or overrun, and a call of run on its way     *)
(* goes on. Nothing is assumed of clients, of sessions or of signals.      *)
FairSpec ==
  /\ Spec
  /\ WF_vars(RunStep) /\ WF_vars(ServeGoroutine) /\ WF_vars(ShutdownCall) /\ WF_vars(SurfaceGoroutine)
  /\ \A v \in SMSCs : WF_vars(AcceptLoop(v))
-----------------------------------------------------------------------------
(* Shutdown that reports a drained engine, or one that never served        *)
(* (engine.go:131-151), leaves no session running and no connection        *)
(* accepted, and none can start afterwards: every session, and every loop  *)
(* that may start one, was counted before the wait.                        *)
DrainedLeavesNobody ==
  /\ shutdown \in {"drained", "idle"} => \A c \in Conns : conn[c] \notin {"accepted", "running"}
  /\ shutdown = "drained" => \A v \in hosted : acceptor[v] = "ended"

Waiting == serve = "draining" \/ shutdown \in {"drain", "overran"}

(* No wg.Add takes the counter from zero while a wg.Wait may be under way, *)
(* the misuse that mu is there to exclude (engine.go:38-42): Shutdown may  *)
(* come before, during or after Serve's registration of its loops.         *)
NoAddDuringWait == [][wg = 0 /\ wg' > 0 => ~Waiting]_vars

(* Serve returns only after Shutdown (engine.go:98-101, main.go:131), even *)
(* with no virtual SMSC, or when every accept loop has ended on an error   *)
(* and every session is over: run never takes its engineErr arm.           *)
EngineNeverStopsByItself == cause # "engine"

(* When run returns, whatever failed or raced, no listener it opened is    *)
(* still open (main.go:72-76, 103-107): not those of a half-done boot, nor *)
(* the surface's when the stop overtakes the goroutine that serves it.     *)
NoListenerLeftOpen ==
  run = "returned" => /\ \A v \in SMSCs : listener[v] # "open"
                      /\ surface # "open"

(* The exit status tells an operator's stop from a failure (main.go:148,   *)
(* 182-186): ok only for a requested stop, and then a surface that died    *)
(* by itself was hidden only by its drain overrunning; error only for a    *)
(* failed boot or a dead surface, never for a slow drain.                  *)
ExitStatusTellsWhy ==
  /\ result = "ok" => signalled /\ (surfaceServe = "failed" => surfaceStop = "overran")
  /\ result = "error" => cause \in BootFailures \/ surfaceServe = "failed"

(* A signal ends run, at whatever point of boot or of a failure it comes,  *)
(* whatever the sessions do (shutdownTimeout, main.go:27-29).              *)
SignalEndsRun == signalled ~> run = "returned"

(* A surface that dies by itself ends run too, rather than leaving it      *)
(* waiting for a signal that would never come (main.go:120-122).           *)
DeadSurfaceEndsRun == surfaceServe = "failed" ~> run = "returned"
=============================================================================
