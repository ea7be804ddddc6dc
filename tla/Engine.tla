------------------------------- MODULE Engine -------------------------------
(***************************************************************************)
(* internal/smsc/engine.go: the engine that hosts the virtual SMSCs. Its   *)
(* goroutines are Serve, one accept loop per virtual SMSC, one goroutine   *)
(* per accepted connection, and whoever calls Shutdown. They share the     *)
(* listeners, the channel quit, the WaitGroup wg and, under mu, serving.   *)
(*                                                                         *)
(* A session is what the WaitGroup sees of it: it runs, and it ends.       *)
(* Module Session has the rest. The callers of New, Serve and Shutdown are *)
(* in module Boot.                                                         *)
(***************************************************************************)
EXTENDS Integers, FiniteSets

CONSTANTS
  MaxSMSCs,        \* bound: virtual SMSCs of a configuration
  Conns,           \* the connections clients may open
  AcceptErrors     \* whether Accept may fail on an open listener

ASSUME EngineConfig ==
  /\ MaxSMSCs \in Nat
  /\ AcceptErrors \in BOOLEAN

VARIABLES
  hosted,          \* the virtual SMSCs of the configuration, 1..n in config order
  listener,        \* per virtual SMSC: none, open, closed
  quit,            \* quit is closed
  serving,
  wg,              \* the WaitGroup's counter
  serve,           \* Serve: none, called, registering (holds mu), blocked, draining, returned
  acceptor,        \* per virtual SMSC: none, accept, accepted, ended
  conn,            \* per connection: none, backlog, accepted, running, ended, refused
  at,              \* the virtual SMSC a connection was opened to, 0 before
  shutdown         \* Shutdown: none, listeners, quit, check, drain, and its three results

engineVars == <<hosted, listener, quit, serving, wg, serve, acceptor, conn, at, shutdown>>

SMSCs == 1..MaxSMSCs
ShutdownResults == {"idle", "drained", "overran"}

EngineInit ==
  /\ hosted \in {1..n : n \in 0..MaxSMSCs}
  /\ listener = [v \in SMSCs |-> "none"]
  /\ quit = FALSE /\ serving = FALSE /\ wg = 0 /\ serve = "none"
  /\ acceptor = [v \in SMSCs |-> "none"]
  /\ conn = [c \in Conns |-> "none"] /\ at = [c \in Conns |-> 0]
  /\ shutdown = "none"
-----------------------------------------------------------------------------
(***************************************************************************)
(* New opens the listeners one by one, in config order. From then on the   *)
(* kernel completes clients' connections, accepted or not.                 *)
(***************************************************************************)
NextToListen(v) ==
  /\ v \in hosted /\ listener[v] = "none"
  /\ \A w \in hosted : w < v => listener[w] = "open"

Listen ==
  /\ \E v \in SMSCs : NextToListen(v) /\ listener' = [listener EXCEPT ![v] = "open"]
  /\ UNCHANGED <<hosted, quit, serving, wg, serve, acceptor, conn, at, shutdown>>

\* A closed listener resets the connections that nobody accepted.
Refuses(vs) == [c \in Conns |-> IF conn[c] = "backlog" /\ at[c] \in vs THEN "refused" ELSE conn[c]]

ListenFails ==
  LET open == {v \in SMSCs : listener[v] = "open"}
  IN  /\ \E v \in SMSCs : NextToListen(v)
      /\ listener' = [v \in SMSCs |-> IF v \in open THEN "closed" ELSE listener[v]]
      /\ conn' = Refuses(open)
      /\ UNCHANGED <<hosted, quit, serving, wg, serve, acceptor, at, shutdown>>

Connect(c, v) ==
  /\ conn[c] = "none" /\ listener[v] = "open"
  /\ conn' = [conn EXCEPT ![c] = "backlog"]
  /\ at' = [at EXCEPT ![c] = v]
  /\ UNCHANGED <<hosted, listener, quit, serving, wg, serve, acceptor, shutdown>>
-----------------------------------------------------------------------------
(***************************************************************************)
(* Serve registers and starts the accept loops while it holds mu, blocks   *)
(* on quit, then waits for the WaitGroup.                                  *)
(***************************************************************************)
ServeLocks ==
  /\ serve = "called"
  /\ serve' = "registering" /\ serving' = TRUE
  /\ UNCHANGED <<hosted, listener, quit, wg, acceptor, conn, at, shutdown>>

ServeStartsLoop ==
  /\ serve = "registering"
  /\ \E v \in hosted :
       /\ acceptor[v] = "none" /\ \A w \in hosted : w < v => acceptor[w] # "none"
       /\ acceptor' = [acceptor EXCEPT ![v] = "accept"]
  /\ wg' = wg + 1
  /\ UNCHANGED <<hosted, listener, quit, serving, serve, conn, at, shutdown>>

ServeUnlocks ==
  /\ serve = "registering" /\ \A v \in hosted : acceptor[v] # "none"
  /\ serve' = "blocked"
  /\ UNCHANGED <<hosted, listener, quit, serving, wg, acceptor, conn, at, shutdown>>

\* Faulty variant: Serve waits for the WaitGroup directly, without blocking on quit.
ServeDrainsAtOnce ==
  /\ serve = "blocked"
  /\ serve' = "draining"
  /\ UNCHANGED <<hosted, listener, quit, serving, wg, acceptor, conn, at, shutdown>>

ServeDrains ==
  /\ serve = "blocked" /\ quit
  /\ serve' = "draining"
  /\ UNCHANGED <<hosted, listener, quit, serving, wg, acceptor, conn, at, shutdown>>

ServeReturns ==
  /\ serve = "draining" /\ wg = 0
  /\ serve' = "returned"
  /\ UNCHANGED <<hosted, listener, quit, serving, wg, acceptor, conn, at, shutdown>>
-----------------------------------------------------------------------------
(***************************************************************************)
(* acceptLoop, and the goroutine of each connection it accepts. The loop   *)
(* counts the session before it accepts again; any error ends the loop.    *)
(***************************************************************************)
Accept(v) ==
  /\ acceptor[v] = "accept" /\ listener[v] = "open"
  /\ \E c \in Conns :
       /\ conn[c] = "backlog" /\ at[c] = v
       /\ conn' = [conn EXCEPT ![c] = "accepted"]
  /\ acceptor' = [acceptor EXCEPT ![v] = "accepted"]
  /\ UNCHANGED <<hosted, listener, quit, serving, wg, serve, at, shutdown>>

StartSession(v) ==
  /\ acceptor[v] = "accepted"
  /\ conn' = [c \in Conns |-> IF conn[c] = "accepted" /\ at[c] = v THEN "running" ELSE conn[c]]
  /\ acceptor' = [acceptor EXCEPT ![v] = "accept"]
  /\ wg' = wg + 1
  /\ UNCHANGED <<hosted, listener, quit, serving, serve, at, shutdown>>

AcceptFails(v) ==
  /\ acceptor[v] = "accept" /\ (listener[v] = "closed" \/ AcceptErrors)
  /\ acceptor' = [acceptor EXCEPT ![v] = "ended"]
  /\ wg' = wg - 1
  /\ UNCHANGED <<hosted, listener, quit, serving, serve, conn, at, shutdown>>

\* run returns, or panics and is recovered: the deferred wg.Done runs either way.
SessionEnds(c) ==
  /\ conn[c] = "running"
  /\ conn' = [conn EXCEPT ![c] = "ended"]
  /\ wg' = wg - 1
  /\ UNCHANGED <<hosted, listener, quit, serving, serve, acceptor, at, shutdown>>
-----------------------------------------------------------------------------
(***************************************************************************)
(* Shutdown closes the listeners one by one, then quit, and waits for the  *)
(* WaitGroup only if Serve has registered its loops.                       *)
(***************************************************************************)
ShutdownClosesListener ==
  /\ shutdown = "listeners"
  /\ \E v \in hosted :
       /\ listener[v] = "open" /\ \A w \in hosted : w < v => listener[w] = "closed"
       /\ listener' = [listener EXCEPT ![v] = "closed"]
       /\ conn' = Refuses({v})
  /\ UNCHANGED <<hosted, quit, serving, wg, serve, acceptor, at, shutdown>>

ShutdownListenersClosed ==
  /\ shutdown = "listeners" /\ \A v \in hosted : listener[v] = "closed"
  /\ shutdown' = "quit"
  /\ UNCHANGED <<hosted, listener, quit, serving, wg, serve, acceptor, conn, at>>

ShutdownClosesQuit ==
  /\ shutdown = "quit"
  /\ quit' = TRUE /\ shutdown' = "check"
  /\ UNCHANGED <<hosted, listener, serving, wg, serve, acceptor, conn, at>>

\* Faulty variant: serving is read without taking mu.
ShutdownChecksUnlocked ==
  /\ shutdown = "check"
  /\ shutdown' = IF serving THEN "drain" ELSE "idle"
  /\ UNCHANGED <<hosted, listener, quit, serving, wg, serve, acceptor, conn, at>>

ShutdownChecks ==
  /\ shutdown = "check" /\ serve # "registering"
  /\ shutdown' = IF serving THEN "drain" ELSE "idle"
  /\ UNCHANGED <<hosted, listener, quit, serving, wg, serve, acceptor, conn, at>>

\* Faulty variant: the WaitGroup counts the accept loops only.
ShutdownDrainedHasty ==
  /\ shutdown = "drain" /\ \A v \in hosted : acceptor[v] = "ended"
  /\ shutdown' = "drained"
  /\ UNCHANGED <<hosted, listener, quit, serving, wg, serve, acceptor, conn, at>>

ShutdownDrained ==
  /\ shutdown = "drain" /\ wg = 0
  /\ shutdown' = "drained"
  /\ UNCHANGED <<hosted, listener, quit, serving, wg, serve, acceptor, conn, at>>

\* Faulty variant: the drain has no deadline.
ShutdownNeverOverruns ==
  /\ FALSE
  /\ UNCHANGED engineVars

\* ctx expires first: the drain goroutine is left behind.
ShutdownOverruns ==
  /\ shutdown = "drain"
  /\ shutdown' = "overran"
  /\ UNCHANGED <<hosted, listener, quit, serving, wg, serve, acceptor, conn, at>>
-----------------------------------------------------------------------------
ServeStep == ServeLocks \/ ServeStartsLoop \/ ServeUnlocks \/ ServeDrains
AcceptStep(v) == Accept(v) \/ StartSession(v) \/ AcceptFails(v)
ShutdownStep ==
  \/ ShutdownClosesListener \/ ShutdownListenersClosed \/ ShutdownClosesQuit
  \/ ShutdownChecks \/ ShutdownDrained \/ ShutdownOverruns
=============================================================================
