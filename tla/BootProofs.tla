----------------------------- MODULE BootProofs -----------------------------
(***************************************************************************)
(* Theorems about Boot, for any number of virtual SMSCs and connections.   *)
(* Both follow from the order in which run and Shutdown do things: quit is *)
(* closed only by a Shutdown that run called, after the listeners, and run *)
(* goes past the engine only when that call has returned.                  *)
(***************************************************************************)
EXTENDS Boot, FiniteSetTheorems, TLAPS

Booting == {"load", "certs", "listen", "observe", "start"}
StoppingSurface == {"stopSurface", "drainSurface", "receive"}
SurfaceOver == {"stopped", "failed"}

\* The engine's listeners, and how far Shutdown has gone with them.
ListenerOrder ==
  /\ hosted \subseteq SMSCs
  /\ listener \in [SMSCs -> {"none", "open", "closed"}]
  /\ \A v \in SMSCs \ hosted : listener[v] = "none"
  /\ run \in {"load", "certs"} => \A v \in SMSCs : listener[v] = "none"
  /\ shutdown \in {"quit", "check", "drain"} \cup ShutdownResults => \A v \in hosted : listener[v] = "closed"

\* quit, Serve and Shutdown, and how far run has gone with them.
CallOrder ==
  /\ quit \in BOOLEAN
  /\ quit => shutdown \in {"check", "drain"} \cup ShutdownResults
  /\ serve \in {"draining", "returned"} => quit
  /\ engineErr # "none" => serve = "returned"
  /\ run \in Booting => serve = "none"
  /\ run \in Booting \cup {"select"} => shutdown = "none"
  /\ run \in StoppingSurface => shutdown \in ShutdownResults
  /\ cause # "engine"

\* The surface: who has it open, and what its goroutine has reported.
SurfaceOrder ==
  /\ observed \in BOOLEAN /\ surfaceServe \in {"none", "called", "serving"} \cup SurfaceOver
  /\ run \in Booting \ {"start"} => surface = "none"
  /\ run \in Booting => surfaceServe = "none"
  /\ ~observed => surface = "none" /\ surfaceServe = "none"
  /\ run = "stopEngine" => cause \in {"surface_port", "surface", "signal"}
  /\ run = "stopEngine" /\ cause = "surface_port" => surface = "none" /\ surfaceServe = "none"
  /\ run = "stopEngine" /\ cause = "surface" => surfaceServe \in SurfaceOver
  /\ observed /\ (run \in {"select"} \cup StoppingSurface \/ (run = "stopEngine" /\ cause = "signal")) => surfaceServe # "none"
  /\ surfaceServe \in SurfaceOver => surface = "closed"
  /\ obsErr # "none" => surfaceServe \in SurfaceOver
  /\ run \in {"drainSurface", "receive"} =>
       observed /\ surfaceStop # "none" /\ (surfaceServe = "serving" => surface = "closed")

BootInv == ListenerOrder /\ CallOrder /\ SurfaceOrder /\ NoListenerLeftOpen
-----------------------------------------------------------------------------
(* Before run has done anything, BootInv holds: nothing is open, nothing   *)
(* is called (main.go:76).                                                 *)
LEMMA BootInitially == Init => BootInv
  <1> SUFFICES ASSUME Init PROVE BootInv
    OBVIOUS
  <1>1. hosted \subseteq SMSCs
    BY EngineConfig DEF Init, EngineInit, SMSCs
  <1>2. ListenerOrder
    BY <1>1 DEF Init, EngineInit, ListenerOrder, ShutdownResults
  <1>3. CallOrder
    BY DEF Init, EngineInit, CallOrder, ShutdownResults, Booting, StoppingSurface
  <1>4. SurfaceOrder
    BY BootConfig DEF Init, SurfaceOrder, Booting, StoppingSurface, SurfaceOver
  <1>5. NoListenerLeftOpen
    BY DEF Init, NoListenerLeftOpen
  <1>6. QED BY <1>2, <1>3, <1>4, <1>5 DEF BootInv

(* The steps of run itself (main.go:76-152) keep BootInv: the engine arm   *)
(* of its select is never ready, and each return leaves nothing open.      *)
LEMMA RunKeepsBootInv == BootInv /\ RunStep => BootInv'
  <1> SUFFICES ASSUME BootInv, RunStep PROVE BootInv'
    OBVIOUS
  <1> USE DEF BootInv, ListenerOrder, CallOrder, SurfaceOrder, NoListenerLeftOpen, Booting, StoppingSurface, SurfaceOver,
              ShutdownResults, engineVars, surfaceVars
  <1>1. CASE LoadConfig
    BY <1>1 DEF LoadConfig, GoTo, Return
  <1>2. CASE LoadCerts
    BY <1>2 DEF LoadCerts, GoTo, Return
  <1>3. CASE OpenListener
    <2>1. CASE Listen /\ UNCHANGED <<run, cause, result>>
      BY <1>3, <2>1 DEF OpenListener, Listen, NextToListen
    <2>2. CASE ListenFails /\ Return("port", "error")
      BY <1>3, <2>2 DEF OpenListener, ListenFails, NextToListen, Return
    <2>3. QED BY <1>3, <2>1, <2>2 DEF OpenListener
  <1>4. CASE ListenersOpen
    BY <1>4 DEF ListenersOpen, GoTo
  <1>5. CASE StartObservability
    BY <1>5 DEF StartObservability, GoTo, StopEngine
  <1>6. CASE StartServing
    BY <1>6 DEF StartServing, GoTo
  <1>7. CASE \E arm \in Causes : Select(arm)
    <2>1. PICK arm \in Causes : Select(arm)
      BY <1>7
    <2>2. arm # "engine"
      BY <2>1 DEF Select, ReadyArms
    <2>3. arm \in {"surface", "signal"}
      BY <2>1, <2>2 DEF Select, ReadyArms
    <2>4. QED BY <2>1, <2>2, <2>3 DEF Select, ReadyArms, StopEngine
  <1>8. CASE EngineStopped
    BY <1>8 DEF EngineStopped, GoTo, Return
  <1>9. CASE StopSurface
    BY <1>9 DEF StopSurface, GoTo, Return
  <1>10. CASE SurfaceDrained
    BY <1>10 DEF SurfaceDrained, GoTo
  <1>11. CASE SurfaceOverruns
    BY <1>11 DEF SurfaceOverruns, Return
  <1>12. CASE Receive
    BY <1>12 DEF Receive, Return
  <1>13. QED
    BY <1>1, <1>2, <1>3, <1>4, <1>5, <1>6, <1>7, <1>8, <1>9, <1>10, <1>11, <1>12 DEF RunStep

(* Whatever leaves the listeners and the progress of Shutdown alone        *)
(* (engine.go:154-160) keeps the order between them.                       *)
LEMMA ListenerOrderStable ==
  ASSUME ListenerOrder, UNCHANGED <<hosted, listener, shutdown, run>>
  PROVE  ListenerOrder'
  BY Zenon DEF ListenerOrder

(* Whatever leaves quit, Serve, Shutdown and the place of run alone        *)
(* (engine.go:99-152) keeps the order of these calls.                      *)
LEMMA CallOrderStable ==
  ASSUME CallOrder, UNCHANGED <<quit, serve, shutdown, run, cause, engineErr>>
  PROVE  CallOrder'
  BY Zenon DEF CallOrder

(* Whatever leaves the surface and the place of run alone (server.go:99-   *)
(* 117) keeps the order between them.                                      *)
LEMMA SurfaceOrderStable ==
  ASSUME SurfaceOrder, UNCHANGED <<observed, run, cause, surface, surfaceServe, surfaceStop, obsErr>>
  PROVE  SurfaceOrder'
  BY ZenonT(60) DEF SurfaceOrder

(* The engine's goroutines and its Shutdown (engine.go:99-181) keep        *)
(* BootInv: quit closes after the listeners, and Serve drains after quit.  *)
LEMMA EngineKeepsBootInv ==
  ASSUME BootInv,
         ServeGoroutine \/ (\E v \in SMSCs : AcceptLoop(v)) \/ ShutdownCall \/ Clients
  PROVE  BootInv'
  <1> USE DEF BootInv
  <1>1. UNCHANGED <<observed, run, cause, surface, surfaceServe, surfaceStop, obsErr, hosted>>
    BY DEF ServeGoroutine, EngineServeReturns, ServeReturns, AcceptLoop, ShutdownCall, Clients, bootVars,
           surfaceVars, ServeStep, ServeLocks, ServeStartsLoop, ServeUnlocks, ServeDrains, AcceptStep, Accept,
           StartSession, AcceptFails, ShutdownStep, ShutdownClosesListener, ShutdownListenersClosed,
           ShutdownClosesQuit, ShutdownChecks, ShutdownDrained, ShutdownOverruns, Connect, SessionEnds
  <1>2. SurfaceOrder'
    BY <1>1, SurfaceOrderStable
  <1>3. CASE UNCHANGED <<listener, quit, serve, shutdown, engineErr>>
    BY <1>1, <1>2, <1>3, ListenerOrderStable, CallOrderStable DEF NoListenerLeftOpen
  <1>4. CASE ServeGoroutine /\ ~ServeStartsLoop
    <2>1. UNCHANGED <<listener, shutdown, quit>>
      BY <1>4 DEF ServeGoroutine, ServeStep, EngineServeReturns, ServeReturns, ServeLocks, ServeUnlocks, ServeDrains
    <2>2. CallOrder'
      BY <1>1, <1>4, <2>1 DEF CallOrder, ServeGoroutine, ServeStep, EngineServeReturns, ServeReturns, ServeLocks,
           ServeUnlocks, ServeDrains, bootVars
    <2>3. QED BY <1>1, <1>2, <2>1, <2>2, ListenerOrderStable DEF NoListenerLeftOpen
  <1>5. CASE ShutdownCall
    <2>1. UNCHANGED <<serve, engineErr>>
      BY <1>5 DEF ShutdownCall, bootVars, ShutdownStep, ShutdownClosesListener, ShutdownListenersClosed,
           ShutdownClosesQuit, ShutdownChecks, ShutdownDrained, ShutdownOverruns
    <2>2. CallOrder'
      <3> USE <1>1, <2>1 DEF CallOrder, ShutdownResults, Booting, StoppingSurface
      <3>1. CASE ShutdownClosesListener
        BY <3>1, CallOrderStable DEF ShutdownClosesListener
      <3>2. CASE ShutdownListenersClosed
        BY <3>2 DEF ShutdownListenersClosed
      <3>3. CASE ShutdownClosesQuit
        BY <3>3 DEF ShutdownClosesQuit
      <3>4. CASE ShutdownChecks
        BY <3>4 DEF ShutdownChecks
      <3>5. CASE ShutdownDrained \/ ShutdownOverruns
        BY <3>5 DEF ShutdownDrained, ShutdownOverruns
      <3>6. QED BY <1>5, <3>1, <3>2, <3>3, <3>4, <3>5 DEF ShutdownCall, ShutdownStep
    <2>3. CASE ShutdownClosesListener
      BY <1>1, <1>2, <2>2, <2>3 DEF ShutdownClosesListener, ListenerOrder, NoListenerLeftOpen, ShutdownResults
    <2>4. CASE ~ShutdownClosesListener
      <3>1. listener' = listener
        BY <1>5, <2>4 DEF ShutdownCall, ShutdownStep, ShutdownListenersClosed, ShutdownClosesQuit,
             ShutdownChecks, ShutdownDrained, ShutdownOverruns
      <3>2. ListenerOrder'
        BY <1>1, <1>5, <2>4, <3>1 DEF ListenerOrder, ShutdownCall, ShutdownStep, ShutdownListenersClosed,
             ShutdownClosesQuit, ShutdownChecks, ShutdownDrained, ShutdownOverruns, ShutdownResults
      <3>3. QED BY <1>1, <1>2, <2>2, <3>1, <3>2 DEF NoListenerLeftOpen
    <2>5. QED BY <2>3, <2>4
  <1>6. ASSUME (\E v \in SMSCs : AcceptLoop(v)) \/ Clients \/ (ServeStartsLoop /\ UNCHANGED bootVars)
        PROVE  UNCHANGED <<listener, quit, serve, shutdown, engineErr>>
    BY <1>6 DEF AcceptLoop, AcceptStep, Accept, StartSession, AcceptFails, Clients, Connect, SessionEnds,
         ServeStartsLoop, bootVars
  <1>7. ServeGoroutine /\ ServeStartsLoop => UNCHANGED bootVars
    BY DEF ServeGoroutine, EngineServeReturns, ServeReturns, ServeStartsLoop
  <1>8. QED BY <1>3, <1>4, <1>5, <1>6, <1>7

(* The surface's goroutine (server.go:99-108), a signal and the end keep   *)
(* BootInv: a surface whose Shutdown was called never starts serving.      *)
LEMMA SurfaceKeepsBootInv ==
  ASSUME BootInv, SurfaceGoroutine \/ SurfaceFails \/ Signal \/ UNCHANGED vars
  PROVE  BootInv'
  <1> USE DEF BootInv
  <1>1. UNCHANGED <<hosted, listener, quit, serve, shutdown, run, cause, engineErr, observed>>
    BY DEF SurfaceGoroutine, SurfaceServes, SurfaceStops, SurfaceFails, Signal, vars, bootVars, engineVars
  <1>2. ListenerOrder' /\ CallOrder'
    BY <1>1, ListenerOrderStable, CallOrderStable
  <1>3. SurfaceOrder'
    <2>1. CASE SurfaceServes
      BY <1>1, <2>1 DEF SurfaceServes, SurfaceOrder, Booting, StoppingSurface, SurfaceOver
    <2>2. CASE SurfaceStops
      BY <1>1, <2>2 DEF SurfaceStops, SurfaceOrder, Booting, StoppingSurface, SurfaceOver
    <2>3. CASE SurfaceFails
      BY <1>1, <2>3 DEF SurfaceFails, SurfaceOrder, Booting, StoppingSurface, SurfaceOver
    <2>4. CASE Signal \/ UNCHANGED vars
      BY <1>1, <2>4, SurfaceOrderStable DEF Signal, vars, bootVars, surfaceVars
    <2>5. QED BY <2>1, <2>2, <2>3, <2>4 DEF SurfaceGoroutine
  <1>4. surface' \in {surface, "closed"}
    BY DEF SurfaceGoroutine, SurfaceServes, SurfaceStops, SurfaceFails, Signal, vars, bootVars, surfaceVars
  <1>5. QED BY <1>1, <1>2, <1>3, <1>4 DEF NoListenerLeftOpen

(* BootInv holds throughout every run of the process (main.go:76-152 with  *)
(* engine.go and server.go), whatever the number of virtual SMSCs.         *)
THEOREM BootOrder == Spec => []BootInv
  <1>1. BootInv /\ [Next]_vars => BootInv'
    BY RunKeepsBootInv, EngineKeepsBootInv, SurfaceKeepsBootInv DEF Next, Ended
  <1>2. QED BY BootInitially, <1>1, PTL DEF Spec

(* The engine's Serve never returns before run has asked it to stop, so    *)
(* the engineErr arm of run's select (main.go:130-136) is never taken.     *)
THEOREM EngineStopsOnlyWhenAsked == Spec => []EngineNeverStopsByItself
  <1>1. BootInv => EngineNeverStopsByItself
    BY DEF BootInv, CallOrder, EngineNeverStopsByItself
  <1>2. QED BY BootOrder, <1>1, PTL

(* However run ends (main.go:76-152: a failed boot, a dead surface or a    *)
(* signal at any point), it leaves none of the listeners it opened open.   *)
THEOREM ReturnsWithNothingOpen == Spec => []NoListenerLeftOpen
  <1>1. BootInv => NoListenerLeftOpen
    BY DEF BootInv
  <1>2. QED BY BootOrder, <1>1, PTL
-----------------------------------------------------------------------------
(***************************************************************************)
(* The exit status. What cause and result say is tied to what happened to  *)
(* the surface: an error in its channel is its own failure as long as      *)
(* nobody called its Shutdown, and run reads the channel after the drain.  *)
(***************************************************************************)
ExitInv ==
  /\ cause = "signal" => signalled
  /\ run # "returned" => result = "none"
  /\ run \in Booting \cup {"select"} => cause = "none"
  /\ run \in Booting \cup {"select", "stopEngine", "stopSurface"} => surfaceStop = "none"
  /\ run \in StoppingSurface => cause = "signal"
  /\ run = "drainSurface" => surfaceStop = "draining"
  /\ obsErr \in {"none", "nil", "err"}
  /\ obsErr = "nil" => surfaceServe = "stopped"
  /\ obsErr = "err" => surfaceServe = "failed"
  /\ surfaceServe = "stopped" => surfaceStop # "none"
  /\ cause = "surface" => surfaceServe = "failed"
  /\ surfaceServe = "failed" /\ cause # "surface" /\ run # "returned" => obsErr = "err"
  /\ result \in {"none", "ok", "error"}
  /\ result = "ok" => ~observed \/ surfaceStop # "none"
  /\ ExitStatusTellsWhy

(* run's own steps keep ExitInv: each of its returns (main.go:76-152) sets *)
(* the status that its cause and the surface call for.                     *)
LEMMA RunKeepsExitInv == BootInv /\ ExitInv /\ RunStep => ExitInv'
  <1> SUFFICES ASSUME BootInv, ExitInv, RunStep PROVE ExitInv'
    OBVIOUS
  <1> USE DEF BootInv, CallOrder, SurfaceOrder, ExitInv, ExitStatusTellsWhy, Booting, StoppingSurface, SurfaceOver,
              ShutdownResults, engineVars, surfaceVars, BootFailures
  <1>1. CASE LoadConfig
    BY <1>1 DEF LoadConfig, GoTo, Return
  <1>2. CASE LoadCerts
    BY <1>2 DEF LoadCerts, GoTo, Return
  <1>3. CASE OpenListener
    BY <1>3 DEF OpenListener, Listen, ListenFails, Return
  <1>4. CASE ListenersOpen
    BY <1>4 DEF ListenersOpen, GoTo
  <1>5. CASE StartObservability
    BY <1>5 DEF StartObservability, GoTo, StopEngine
  <1>6. CASE StartServing
    BY <1>6 DEF StartServing, GoTo
  <1>7. CASE \E arm \in Causes : Select(arm)
    <2>1. PICK arm \in Causes : Select(arm)
      BY <1>7
    <2>2. arm # "engine"
      BY <2>1 DEF Select, ReadyArms
    <2>3. arm \in {"surface", "signal"}
      BY <2>1, <2>2 DEF Select, ReadyArms
    <2>4. arm = "surface" => obsErr = "err"
      BY <2>1 DEF Select, ReadyArms
    <2>5. arm = "signal" => signalled
      BY <2>1 DEF Select, ReadyArms
    <2>6. QED BY <2>1, <2>2, <2>3, <2>4, <2>5 DEF Select, StopEngine
  <1>8. CASE EngineStopped
    BY <1>8 DEF EngineStopped, GoTo, Return
  <1>9. CASE StopSurface
    BY <1>9 DEF StopSurface, GoTo, Return, Outcome
  <1>10. CASE SurfaceDrained
    BY <1>10 DEF SurfaceDrained, GoTo
  <1>11. CASE SurfaceOverruns
    BY <1>11 DEF SurfaceOverruns, Return, Outcome
  <1>12. CASE Receive
    BY <1>12 DEF Receive, Return, Outcome
  <1>13. QED
    BY <1>1, <1>2, <1>3, <1>4, <1>5, <1>6, <1>7, <1>8, <1>9, <1>10, <1>11, <1>12 DEF RunStep

(* The other goroutines keep ExitInv: the surface reports what became of   *)
(* it (server.go:99-117), and the engine's do not touch what run reads.    *)
LEMMA OthersKeepExitInv ==
  ASSUME BootInv, ExitInv,
         \/ ServeGoroutine \/ (\E v \in SMSCs : AcceptLoop(v)) \/ ShutdownCall \/ Clients
         \/ SurfaceGoroutine \/ SurfaceFails \/ Signal \/ UNCHANGED vars
  PROVE  ExitInv'
  <1> USE DEF BootInv, SurfaceOrder, ExitInv, ExitStatusTellsWhy, Booting, StoppingSurface, SurfaceOver, surfaceVars
  <1>1. CASE ServeGoroutine \/ (\E v \in SMSCs : AcceptLoop(v)) \/ ShutdownCall \/ Clients \/ UNCHANGED vars
    <2>1. UNCHANGED <<observed, run, cause, result, signalled, surface, surfaceServe, surfaceStop, obsErr>>
      BY <1>1 DEF ServeGoroutine, EngineServeReturns, AcceptLoop, ShutdownCall, Clients, bootVars, vars
    <2>2. QED BY <2>1
  <1>2. CASE SurfaceServes
    BY <1>2 DEF SurfaceServes
  <1>3. CASE SurfaceStops
    BY <1>3 DEF SurfaceStops
  <1>4. CASE SurfaceFails
    BY <1>4 DEF SurfaceFails
  <1>5. CASE Signal
    BY <1>5 DEF Signal
  <1>6. QED BY <1>1, <1>2, <1>3, <1>4, <1>5 DEF SurfaceGoroutine

(* The exit status tells an operator's stop from a failure (main.go:148,   *)
(* 182-186), whatever races: a slow drain is never an error, and a surface *)
(* that died is hidden only by the overrun of its own drain.               *)
THEOREM ExitStatusIsTrue == Spec => []ExitStatusTellsWhy
  <1>1. Init => ExitInv
    BY DEF Init, ExitInv, ExitStatusTellsWhy, Booting, StoppingSurface, BootFailures
  <1>2. BootInv /\ ExitInv /\ [Next]_vars => ExitInv'
    BY RunKeepsExitInv, OthersKeepExitInv DEF Next, Ended
  <1>3. ExitInv => ExitStatusTellsWhy
    BY DEF ExitInv
  <1>4. QED BY BootOrder, <1>1, <1>2, <1>3, PTL DEF Spec
-----------------------------------------------------------------------------
(***************************************************************************)
(* The WaitGroup. Its counter is the number of accept loops and sessions   *)
(* that run; a loop that has accepted a connection has not counted it yet  *)
(* but is itself still counted, and every loop was counted before Serve    *)
(* released mu, so before any wait.                                        *)
(***************************************************************************)
Loops == {v \in SMSCs : acceptor[v] \in {"accept", "accepted"}}
Running == {c \in Conns : conn[c] = "running"}

\* Between Accept and wg.Add a loop holds exactly one connection, which is its own.
HandOver ==
  /\ \A c \in Conns : conn[c] = "accepted" => at[c] \in SMSCs /\ acceptor[at[c]] = "accepted"
  /\ \A v \in SMSCs : acceptor[v] = "accepted" => \E c \in Conns : conn[c] = "accepted" /\ at[c] = v
  /\ \A c, d \in Conns : conn[c] = "accepted" /\ conn[d] = "accepted" /\ at[c] = at[d] => c = d

\* The WaitGroup's counter.
Counted ==
  /\ IsFiniteSet(Running)
  /\ wg = Cardinality(Loops) + Cardinality(Running)

\* Serve has registered every loop before anybody waits for them.
Registered ==
  /\ \A v \in SMSCs : acceptor[v] # "none" => v \in hosted
  /\ serve \in {"none", "called"} =>
       /\ ~serving
       /\ \A v \in SMSCs : acceptor[v] = "none"
       /\ \A c \in Conns : conn[c] # "running"
  /\ serve \in {"registering", "blocked", "draining", "returned"} => serving
  /\ serve \in {"blocked", "draining", "returned"} => \A v \in hosted : acceptor[v] # "none"
  /\ shutdown \in {"drain", "drained", "overran"} => serve \in {"blocked", "draining", "returned"}

WaitGroupInv ==
  /\ acceptor \in [SMSCs -> {"none", "accept", "accepted", "ended"}]
  /\ DOMAIN conn = Conns /\ DOMAIN at = Conns
  /\ serve \in {"none", "called", "registering", "blocked", "draining", "returned"}
  /\ HandOver /\ Counted /\ Registered /\ DrainedLeavesNobody

(* There are finitely many virtual SMSCs, so the accept loops can be       *)
(* counted (engine.go:103-107).                                            *)
LEMMA LoopsFinite == IsFiniteSet(Loops)
  <1>1. 1 \in Int /\ MaxSMSCs \in Int
    BY EngineConfig
  <1>2. IsFiniteSet(1..MaxSMSCs)
    BY <1>1, FS_Interval
  <1>3. QED BY <1>2, FS_Subset DEF Loops, SMSCs

(* A counter at zero means no loop and no session is left (engine.go:140). *)
LEMMA ZeroMeansNobody ==
  ASSUME WaitGroupInv
  PROVE  /\ wg \in Nat
         /\ wg = 0 => Loops = {} /\ Running = {}
  <1>1. IsFiniteSet(Loops) /\ IsFiniteSet(Running)
    BY LoopsFinite DEF WaitGroupInv, Counted
  <1>2. Cardinality(Loops) \in Nat /\ Cardinality(Running) \in Nat
    BY <1>1, FS_CardinalityType
  <1>3. wg = 0 => Cardinality(Loops) = 0 /\ Cardinality(Running) = 0
    BY <1>2 DEF WaitGroupInv, Counted
  <1>4. QED BY <1>1, <1>2, <1>3, FS_EmptySet DEF WaitGroupInv, Counted

(* The steps that leave loops, sessions and calls alone: run before Serve  *)
(* is called, the surface, signals.                                        *)
LEMMA WaitGroupStable ==
  ASSUME WaitGroupInv, UNCHANGED <<hosted, serving, wg, serve, acceptor, conn, at, shutdown>>
  PROVE  WaitGroupInv'
  BY DEF WaitGroupInv, HandOver, Counted, Registered, DrainedLeavesNobody, Loops, Running

(* The steps that move neither a loop nor a session past wg.Add or         *)
(* wg.Done: the counter and what it counts stay.                           *)
LEMMA CountStable ==
  ASSUME Counted, wg' = wg, Loops' = Loops, Running' = Running
  PROVE  Counted'
  BY DEF Counted

(* Serve counts a loop before it starts it (engine.go:103-107).            *)
LEMMA LoopStartCounted ==
  ASSUME WaitGroupInv, BootInv, ServeStartsLoop
  PROVE  WaitGroupInv'
  <1>1. PICK v \in hosted : acceptor[v] = "none" /\ acceptor' = [acceptor EXCEPT ![v] = "accept"]
    BY DEF ServeStartsLoop
  <1>2. v \in SMSCs /\ v \notin Loops
    BY <1>1 DEF BootInv, ListenerOrder, Loops
  <1>3. /\ UNCHANGED <<hosted, serving, serve, conn, at, shutdown>> /\ wg' = wg + 1
        /\ serve = "registering"
    BY DEF ServeStartsLoop
  <1>4. Loops' = Loops \cup {v} /\ Running' = Running
    BY <1>1, <1>2, <1>3 DEF Loops, Running, WaitGroupInv
  <1>5. Cardinality(Loops') = Cardinality(Loops) + 1
    BY <1>2, <1>4, LoopsFinite, FS_AddElement
  <1>6. Counted'
    <2>1. Cardinality(Loops) \in Nat /\ Cardinality(Running) \in Nat
      BY LoopsFinite, FS_CardinalityType DEF WaitGroupInv, Counted
    <2>2. QED BY <2>1, <1>3, <1>4, <1>5 DEF WaitGroupInv, Counted
  <1>7. HandOver'
    BY <1>1, <1>2, <1>3 DEF WaitGroupInv, HandOver
  <1>8. Registered' /\ DrainedLeavesNobody'
    BY <1>1, <1>2, <1>3 DEF WaitGroupInv, Registered, DrainedLeavesNobody
  <1>9. QED BY <1>1, <1>3, <1>6, <1>7, <1>8 DEF WaitGroupInv

(* Accept hands the loop one connection (engine.go:164-172). After the     *)
(* listeners are closed none is accepted.                                  *)
LEMMA AcceptCounted ==
  ASSUME WaitGroupInv, BootInv, NEW v \in SMSCs, Accept(v)
  PROVE  WaitGroupInv'
  <1>1. PICK c \in Conns : conn[c] = "backlog" /\ at[c] = v /\ conn' = [conn EXCEPT ![c] = "accepted"]
    BY DEF Accept
  <1>2. /\ UNCHANGED <<hosted, listener, serving, wg, serve, at, shutdown>>
        /\ acceptor[v] = "accept" /\ listener[v] = "open"
        /\ acceptor' = [acceptor EXCEPT ![v] = "accepted"]
    BY DEF Accept
  <1>3. Loops' = Loops /\ Running' = Running
    BY <1>1, <1>2 DEF Loops, Running, WaitGroupInv
  <1>4. Counted'
    BY <1>2, <1>3, CountStable DEF WaitGroupInv
  <1>5. HandOver'
    <2>1. \A d \in Conns : conn[d] = "accepted" => at[d] # v
      BY <1>2 DEF WaitGroupInv, HandOver
    <2>2. QED BY <1>1, <1>2, <2>1 DEF WaitGroupInv, HandOver
  <1>6. v \in hosted /\ shutdown \notin {"idle", "drained"}
    BY <1>2 DEF WaitGroupInv, Registered, BootInv, ListenerOrder, ShutdownResults
  <1>7. Registered' /\ DrainedLeavesNobody'
    BY <1>2, <1>6 DEF WaitGroupInv, Registered, DrainedLeavesNobody
  <1>8. QED BY <1>1, <1>2, <1>4, <1>5, <1>7 DEF WaitGroupInv

(* The loop counts the session before it accepts again (engine.go:173).    *)
LEMMA SessionStartCounted ==
  ASSUME WaitGroupInv, NEW v \in SMSCs, StartSession(v)
  PROVE  WaitGroupInv' /\ wg # 0
  <1>1. /\ UNCHANGED <<hosted, serving, serve, at, shutdown>> /\ wg' = wg + 1
        /\ acceptor[v] = "accepted" /\ acceptor' = [acceptor EXCEPT ![v] = "accept"]
        /\ conn' = [c \in Conns |-> IF conn[c] = "accepted" /\ at[c] = v THEN "running" ELSE conn[c]]
    BY DEF StartSession
  <1>2. PICK c \in Conns : conn[c] = "accepted" /\ at[c] = v
    BY <1>1 DEF WaitGroupInv, HandOver
  <1>3. \A d \in Conns : conn[d] = "accepted" /\ at[d] = v <=> d = c
    BY <1>2 DEF WaitGroupInv, HandOver
  <1>4. /\ c \notin Running /\ Running' = Running \cup {c}
        /\ Loops' = Loops /\ v \in Loops
    BY <1>1, <1>2, <1>3 DEF Loops, Running, WaitGroupInv
  <1>5. IsFiniteSet(Running') /\ Cardinality(Running') = Cardinality(Running) + 1
    BY <1>4, FS_AddElement DEF WaitGroupInv, Counted
  <1>6. Counted'
    <2>1. Cardinality(Loops) \in Nat /\ Cardinality(Running) \in Nat
      BY LoopsFinite, FS_CardinalityType DEF WaitGroupInv, Counted
    <2>2. QED BY <2>1, <1>1, <1>4, <1>5 DEF WaitGroupInv, Counted
  <1>7. HandOver'
    BY <1>1, <1>2, <1>3 DEF WaitGroupInv, HandOver
  <1>8. Registered'
    BY <1>1 DEF WaitGroupInv, Registered
  <1>9. shutdown \notin {"idle", "drained"}
    BY <1>2 DEF WaitGroupInv, DrainedLeavesNobody
  <1>10. DrainedLeavesNobody'
    BY <1>1, <1>9 DEF DrainedLeavesNobody
  <1>11. wg # 0
    BY <1>4, ZeroMeansNobody
  <1>12. QED BY <1>1, <1>6, <1>7, <1>8, <1>10, <1>11 DEF WaitGroupInv

(* A loop that ends takes itself off the counter (engine.go:162).          *)
LEMMA LoopEndCounted ==
  ASSUME WaitGroupInv, NEW v \in SMSCs, AcceptFails(v)
  PROVE  WaitGroupInv'
  <1>1. /\ UNCHANGED <<hosted, serving, serve, conn, at, shutdown>> /\ wg' = wg - 1
        /\ acceptor[v] = "accept" /\ acceptor' = [acceptor EXCEPT ![v] = "ended"]
    BY DEF AcceptFails
  <1>2. v \in Loops /\ Loops' = Loops \ {v} /\ Running' = Running
    BY <1>1 DEF Loops, Running, WaitGroupInv
  <1>3. Cardinality(Loops') = Cardinality(Loops) - 1
    BY <1>2, LoopsFinite, FS_RemoveElement
  <1>4. Counted'
    <2>1. Cardinality(Loops) \in Nat /\ Cardinality(Running) \in Nat
      BY LoopsFinite, FS_CardinalityType DEF WaitGroupInv, Counted
    <2>2. QED BY <2>1, <1>1, <1>2, <1>3 DEF WaitGroupInv, Counted
  <1>5. HandOver'
    BY <1>1 DEF WaitGroupInv, HandOver
  <1>6. Registered' /\ DrainedLeavesNobody'
    BY <1>1 DEF WaitGroupInv, Registered, DrainedLeavesNobody
  <1>7. QED BY <1>1, <1>4, <1>5, <1>6 DEF WaitGroupInv

(* A session that ends, panicking or not, takes itself off the counter     *)
(* (engine.go:174-180).                                                    *)
LEMMA SessionEndCounted ==
  ASSUME WaitGroupInv, NEW c \in Conns, SessionEnds(c)
  PROVE  WaitGroupInv'
  <1>1. /\ UNCHANGED <<hosted, serving, serve, acceptor, at, shutdown>> /\ wg' = wg - 1
        /\ conn[c] = "running" /\ conn' = [conn EXCEPT ![c] = "ended"]
    BY DEF SessionEnds
  <1>2. c \in Running /\ Running' = Running \ {c} /\ Loops' = Loops
    BY <1>1 DEF Loops, Running, WaitGroupInv
  <1>3. IsFiniteSet(Running') /\ Cardinality(Running') = Cardinality(Running) - 1
    BY <1>2, FS_RemoveElement DEF WaitGroupInv, Counted
  <1>4. Counted'
    <2>1. Cardinality(Loops) \in Nat /\ Cardinality(Running) \in Nat
      BY LoopsFinite, FS_CardinalityType DEF WaitGroupInv, Counted
    <2>2. QED BY <2>1, <1>1, <1>2, <1>3 DEF WaitGroupInv, Counted
  <1>5. HandOver'
    BY <1>1 DEF WaitGroupInv, HandOver
  <1>6. Registered' /\ DrainedLeavesNobody'
    BY <1>1 DEF WaitGroupInv, Registered, DrainedLeavesNobody
  <1>7. QED BY <1>1, <1>4, <1>5, <1>6 DEF WaitGroupInv

(* Closing listeners and opening connections touch only connections that   *)
(* nobody has accepted (engine.go:53-80, 154-160).                         *)
LEMMA BacklogUncounted ==
  ASSUME WaitGroupInv,
         UNCHANGED <<hosted, serving, wg, serve, acceptor, shutdown>>,
         DOMAIN conn' = Conns, DOMAIN at' = Conns,
         \A c \in Conns : conn'[c] \in {"accepted", "running"} \/ conn[c] \in {"accepted", "running"}
                            => conn'[c] = conn[c] /\ at'[c] = at[c]
  PROVE  WaitGroupInv'
  <1>1. Loops' = Loops /\ Running' = Running
    BY DEF Loops, Running
  <1>2. Counted'
    BY <1>1, CountStable DEF WaitGroupInv
  <1>3. HandOver'
    BY DEF WaitGroupInv, HandOver
  <1>4. Registered' /\ DrainedLeavesNobody'
    BY DEF WaitGroupInv, Registered, DrainedLeavesNobody
  <1>5. QED BY <1>2, <1>3, <1>4 DEF WaitGroupInv

(* Shutdown and Serve moving on, with the loops and sessions as they are   *)
(* (engine.go:99-152): a wait begins only once every loop is registered    *)
(* and ends only at a counter of zero.                                     *)
LEMMA CallsCounted ==
  ASSUME WaitGroupInv, BootInv,
         \/ ServeLocks \/ ServeUnlocks \/ ServeDrains \/ ServeReturns
         \/ ShutdownListenersClosed \/ ShutdownClosesQuit \/ ShutdownChecks \/ ShutdownDrained \/ ShutdownOverruns
  PROVE  WaitGroupInv'
  <1>1. UNCHANGED <<hosted, wg, acceptor, conn, at>>
    BY DEF ServeLocks, ServeUnlocks, ServeDrains, ServeReturns, ShutdownListenersClosed, ShutdownClosesQuit,
           ShutdownChecks, ShutdownDrained, ShutdownOverruns
  <1>2. HandOver'
    BY <1>1 DEF WaitGroupInv, HandOver
  <1>3. Counted'
    <2>1. Loops' = Loops /\ Running' = Running
      BY <1>1 DEF Loops, Running
    <2>2. QED BY <1>1, <2>1, CountStable DEF WaitGroupInv
  <1>4. CASE ServeLocks \/ ServeUnlocks \/ ServeDrains \/ ServeReturns
    <2>1. Registered' /\ DrainedLeavesNobody' /\ serve' \in {"registering", "blocked", "draining", "returned"}
      BY <1>1, <1>4 DEF WaitGroupInv, Registered, DrainedLeavesNobody, ServeLocks, ServeUnlocks, ServeDrains, ServeReturns
    <2>2. QED BY <1>1, <1>2, <1>3, <2>1 DEF WaitGroupInv
  <1>5. CASE ShutdownListenersClosed \/ ShutdownClosesQuit \/ ShutdownOverruns
    BY <1>1, <1>2, <1>3, <1>5 DEF WaitGroupInv, Registered, DrainedLeavesNobody, ShutdownListenersClosed,
         ShutdownClosesQuit, ShutdownOverruns
  <1>6. CASE ShutdownChecks
    <2>1. UNCHANGED <<serving, serve>> /\ serve # "registering" /\ shutdown' = IF serving THEN "drain" ELSE "idle"
      BY <1>6 DEF ShutdownChecks
    <2>2. Registered'
      BY <1>1, <2>1 DEF WaitGroupInv, Registered
    <2>3. ~serving => \A c \in Conns : conn[c] \notin {"accepted", "running"}
      <3>1. ~serving => serve \in {"none", "called"}
        BY DEF WaitGroupInv, Registered
      <3>2. QED BY <3>1 DEF WaitGroupInv, Registered, HandOver
    <2>4. DrainedLeavesNobody'
      BY <1>1, <2>1, <2>3 DEF DrainedLeavesNobody
    <2>5. QED BY <1>1, <1>2, <1>3, <2>1, <2>2, <2>4 DEF WaitGroupInv
  <1>7. CASE ShutdownDrained
    <2>1. UNCHANGED <<serving, serve>> /\ wg = 0 /\ shutdown = "drain" /\ shutdown' = "drained"
      BY <1>7 DEF ShutdownDrained
    <2>2. Loops = {} /\ Running = {}
      BY <2>1, ZeroMeansNobody
    <2>3. \A c \in Conns : conn[c] \notin {"accepted", "running"}
      BY <2>2 DEF Loops, Running, WaitGroupInv, HandOver
    <2>4. \A v \in hosted : acceptor[v] = "ended"
      BY <2>1, <2>2 DEF Loops, WaitGroupInv, Registered, BootInv, ListenerOrder
    <2>5. DrainedLeavesNobody'
      BY <1>1, <2>3, <2>4 DEF DrainedLeavesNobody
    <2>6. QED BY <1>1, <1>2, <1>3, <2>1, <2>5 DEF WaitGroupInv, Registered
  <1>8. QED BY <1>4, <1>5, <1>6, <1>7

(* run calls Serve once and Shutdown once; nothing is counted before       *)
(* (main.go:76-152).                                                       *)
LEMMA RunKeepsWaitGroup ==
  ASSUME WaitGroupInv, BootInv, RunStep
  PROVE  WaitGroupInv' /\ wg' = wg
  <1> USE DEF engineVars
  <1>1. CASE LoadConfig \/ LoadCerts \/ ListenersOpen \/ EngineStopped \/ StopSurface
               \/ SurfaceDrained \/ SurfaceOverruns \/ Receive
    <2>1. UNCHANGED engineVars
      BY <1>1 DEF LoadConfig, LoadCerts, ListenersOpen, EngineStopped, StopSurface, SurfaceDrained,
           SurfaceOverruns, Receive
    <2>2. QED BY <2>1, WaitGroupStable
  <1>2. CASE OpenListener
    <2>1. CASE Listen
      BY <2>1, WaitGroupStable DEF Listen
    <2>2. CASE ListenFails
      <3>1. /\ UNCHANGED <<hosted, serving, wg, serve, acceptor, at, shutdown>>
            /\ DOMAIN conn' = Conns /\ DOMAIN at' = Conns
            /\ \A c \in Conns : conn'[c] = conn[c] \/ (conn[c] = "backlog" /\ conn'[c] = "refused")
        BY <2>2 DEF ListenFails, Refuses, WaitGroupInv
      <3>2. QED BY <3>1, BacklogUncounted
    <2>3. QED BY <1>2, <2>1, <2>2 DEF OpenListener
  <1>3. ASSUME UNCHANGED <<hosted, serving, wg, serve, acceptor, conn, at>>,
               shutdown' \in {shutdown, "listeners"}
        PROVE  WaitGroupInv'
    BY <1>3 DEF WaitGroupInv, HandOver, Counted, Registered, DrainedLeavesNobody, Loops, Running
  <1>4. CASE StartObservability \/ \E arm \in Causes : Select(arm)
    <2>1. UNCHANGED <<hosted, serving, wg, serve, acceptor, conn, at>> /\ shutdown' \in {shutdown, "listeners"}
      BY <1>4 DEF StartObservability, Select, StopEngine
    <2>2. QED BY <2>1, <1>3
  <1>5. CASE StartServing
    <2>1. /\ UNCHANGED <<hosted, serving, wg, acceptor, conn, at, shutdown>>
          /\ serve' = "called" /\ run = "start"
      BY <1>5 DEF StartServing
    <2>2. serve = "none"
      BY <2>1 DEF BootInv, CallOrder, Booting
    <2>3. QED BY <2>1, <2>2 DEF WaitGroupInv, HandOver, Counted, Registered, DrainedLeavesNobody, Loops, Running
  <1>6. QED BY <1>1, <1>2, <1>4, <1>5 DEF RunStep

(* Every step of every goroutine keeps the count (engine.go:99-181).       *)
LEMMA WaitGroupNext == WaitGroupInv /\ BootInv /\ [Next]_vars => WaitGroupInv'
  <1> SUFFICES ASSUME WaitGroupInv, BootInv, [Next]_vars PROVE WaitGroupInv'
    OBVIOUS
  <1>1. CASE RunStep
    BY <1>1, RunKeepsWaitGroup
  <1>2. CASE ServeGoroutine
    BY <1>2, LoopStartCounted, CallsCounted DEF ServeGoroutine, ServeStep, EngineServeReturns
  <1>3. ASSUME NEW v \in SMSCs, AcceptLoop(v) PROVE WaitGroupInv'
    BY <1>3, AcceptCounted, SessionStartCounted, LoopEndCounted DEF AcceptLoop, AcceptStep
  <1>4. CASE ShutdownCall
    <2>1. CASE ShutdownClosesListener
      <3>1. /\ UNCHANGED <<hosted, serving, wg, serve, acceptor, at, shutdown>>
            /\ DOMAIN conn' = Conns /\ DOMAIN at' = Conns
            /\ \A c \in Conns : conn'[c] = conn[c] \/ (conn[c] = "backlog" /\ conn'[c] = "refused")
        BY <2>1 DEF ShutdownClosesListener, Refuses, WaitGroupInv
      <3>2. QED BY <3>1, BacklogUncounted
    <2>2. QED BY <1>4, <2>1, CallsCounted DEF ShutdownCall, ShutdownStep
  <1>5. CASE Clients
    <2>1. ASSUME NEW c \in Conns, NEW v \in SMSCs, Connect(c, v) PROVE WaitGroupInv'
      <3>1. /\ UNCHANGED <<hosted, serving, wg, serve, acceptor, shutdown>>
            /\ DOMAIN conn' = Conns /\ DOMAIN at' = Conns
            /\ conn[c] = "none" /\ conn'[c] = "backlog"
            /\ \A d \in Conns \ {c} : conn'[d] = conn[d] /\ at'[d] = at[d]
        BY <2>1 DEF Connect, WaitGroupInv
      <3>2. QED BY <3>1, BacklogUncounted
    <2>2. QED BY <1>5, <2>1, SessionEndCounted DEF Clients
  <1>6. CASE SurfaceGoroutine \/ SurfaceFails \/ Signal \/ Ended \/ UNCHANGED vars
    <2>1. UNCHANGED engineVars
      BY <1>6 DEF SurfaceGoroutine, SurfaceServes, SurfaceStops, SurfaceFails, Signal, Ended, vars
    <2>2. QED BY <2>1, WaitGroupStable DEF engineVars
  <1>7. QED BY <1>1, <1>2, <1>3, <1>4, <1>5, <1>6 DEF Next

(* Before run has done anything nothing is counted (engine.go:44-51).      *)
LEMMA WaitGroupInitially == Init => WaitGroupInv
  <1> SUFFICES ASSUME Init PROVE WaitGroupInv
    OBVIOUS
  <1> USE DEF Init, EngineInit
  <1>1. Loops = {} /\ Running = {}
    BY DEF Loops, Running
  <1>2. Counted
    BY <1>1, FS_EmptySet DEF Counted
  <1>3. QED BY <1>2 DEF WaitGroupInv, HandOver, Registered, DrainedLeavesNobody

(* The WaitGroup counts exactly the loops and sessions that run, for any   *)
(* number of virtual SMSCs and connections (engine.go:103-181).            *)
THEOREM WaitGroupIsExact == Spec => []WaitGroupInv
  BY WaitGroupInitially, WaitGroupNext, BootOrder, PTL DEF Spec

(* A Shutdown that reports the engine drained (or never served) leaves no  *)
(* session and no accepted connection behind, ever (engine.go:131-151).    *)
THEOREM DrainLeavesNobodyBehind == Spec => []DrainedLeavesNobody
  <1>1. WaitGroupInv => DrainedLeavesNobody
    BY DEF WaitGroupInv
  <1>2. QED BY WaitGroupIsExact, <1>1, PTL

(* No wg.Add takes the counter from zero under a wait, the misuse sync     *)
(* forbids (engine.go:38-42): loops are counted under mu before Shutdown   *)
(* may look, and a session is counted by a loop that is itself counted.    *)
THEOREM NoAddUnderWait == Spec => NoAddDuringWait
  <1>1. WaitGroupInv /\ BootInv /\ [Next]_vars => [wg = 0 /\ wg' > 0 => ~Waiting]_vars
    <2> SUFFICES ASSUME WaitGroupInv, BootInv, [Next]_vars, wg = 0, wg' > 0 PROVE ~Waiting
      OBVIOUS
    <2>1. wg' # wg
      OBVIOUS
    <2>2. CASE RunStep
      BY <2>1, <2>2, RunKeepsWaitGroup
    <2>3. CASE ServeGoroutine
      <3>1. serve = "registering"
        BY <2>1, <2>3 DEF ServeGoroutine, ServeStep, EngineServeReturns, ServeReturns, ServeLocks, ServeStartsLoop,
             ServeUnlocks, ServeDrains
      <3>2. QED BY <3>1 DEF WaitGroupInv, Registered, Waiting
    <2>4. ASSUME NEW v \in SMSCs, AcceptLoop(v) PROVE FALSE
      <3>1. ~StartSession(v)
        BY SessionStartCounted
      <3>2. CASE Accept(v)
        BY <2>1, <3>2 DEF Accept
      <3>3. CASE AcceptFails(v)
        BY <3>3 DEF AcceptFails
      <3>4. QED BY <2>4, <3>1, <3>2, <3>3 DEF AcceptLoop, AcceptStep
    <2>5. CASE ShutdownCall
      BY <2>1, <2>5 DEF ShutdownCall, ShutdownStep, ShutdownClosesListener, ShutdownListenersClosed,
           ShutdownClosesQuit, ShutdownChecks, ShutdownDrained, ShutdownOverruns
    <2>6. CASE Clients
      BY <2>1, <2>6 DEF Clients, Connect, SessionEnds
    <2>7. CASE SurfaceGoroutine \/ SurfaceFails \/ Signal \/ Ended \/ UNCHANGED vars
      BY <2>1, <2>7 DEF SurfaceGoroutine, SurfaceServes, SurfaceStops, SurfaceFails, Signal, Ended, vars, engineVars
    <2>8. QED BY <2>2, <2>3, <2>4, <2>5, <2>6, <2>7 DEF Next
  <1>2. QED BY <1>1, WaitGroupIsExact, BootOrder, PTL DEF Spec, NoAddDuringWait
=============================================================================
