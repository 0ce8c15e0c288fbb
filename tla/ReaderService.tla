---------------------------- MODULE ReaderService ----------------------------
(***************************************************************************)
(* The life of a Reader process, cmd/reader/main.go: an errgroup of three  *)
(* goroutines over one NATS connection and one HTTP server,                *)
(*   - serve runs server.ListenAndServe,                                   *)
(*   - shutdown waits for the group's context and calls server.Shutdown,   *)
(*   - listen runs NATSResponder.Listen,                                   *)
(* and main, which waits for the three and returns from run.  What the     *)
(* Reader answers is in QueryPath, which knows of a process its PhaseOf:   *)
(* up, stopping (the group's context is done) or down.                     *)
(* External: net/http's server, nats.go's connection with its default      *)
(* number of reconnects.                                                   *)
(***************************************************************************)
EXTENDS ReaderProcess

groupVars == <<goroutine, groupErr, done, failed>>
vars == <<groupVars, signalled, inShutdown, get, conn, readyWith, exitCode>>

Init ==
    /\ goroutine  = [n \in Goroutines |-> "starting"]
    /\ groupErr   = NoError
    /\ done       = FALSE
    /\ signalled  = FALSE
    /\ inShutdown = FALSE
    /\ get        = [g \in Requests |-> "idle"]
    /\ conn       = "connected"
    /\ readyWith  = {}
    /\ exitCode   = NoCode
    /\ failed     = {}

\* errgroup.Group.Go: the first error is kept and cancels the context.
ReturnNil(n) ==
    /\ goroutine' = [goroutine EXCEPT ![n] = "returned"]
    /\ UNCHANGED <<groupErr, done, failed>>

\* Mutated form: an error after the cancellation is taken for its effect.
ReturnErrEarly(n) ==
    /\ goroutine' = [goroutine EXCEPT ![n] = "returned"]
    /\ groupErr'  = IF groupErr = NoError /\ ~done THEN n ELSE groupErr
    /\ done'      = TRUE
    /\ failed'    = failed \cup {n}

ReturnErr(n) ==
    /\ goroutine' = [goroutine EXCEPT ![n] = "returned"]
    /\ groupErr'  = IF groupErr = NoError THEN n ELSE groupErr
    /\ done'      = TRUE
    /\ failed'    = failed \cup {n}

Run(n) ==
    /\ goroutine' = [goroutine EXCEPT ![n] = "running"]
    /\ UNCHANGED <<groupErr, done, failed>>

-----------------------------------------------------------------------------
(* serve                                                                   *)

\* ListenAndServe binds the port, unless Shutdown was faster.
Bind ==
    /\ goroutine["serve"] = "starting"
    /\ ~inShutdown
    /\ Run("serve")
    /\ UNCHANGED <<signalled, inShutdown, get, conn, readyWith, exitCode>>

\* The port cannot be bound, or Accept fails for good.
ServeFails ==
    /\ goroutine["serve"] \in {"starting", "running"}
    /\ ~inShutdown
    /\ ReturnErr("serve")
    /\ UNCHANGED <<signalled, inShutdown, get, conn, readyWith, exitCode>>

\* ErrServerClosed, as soon as Shutdown is called.
ServeClosed ==
    /\ goroutine["serve"] \in {"starting", "running"}
    /\ inShutdown
    /\ ReturnNil("serve")
    /\ UNCHANGED <<signalled, inShutdown, get, conn, readyWith, exitCode>>

-----------------------------------------------------------------------------
(* The HTTP server: a goroutine per request (external).                    *)

Accepting == Alive /\ goroutine["serve"] = "running" /\ ~inShutdown

Accept(g) ==
    /\ Accepting
    /\ get[g] = "idle"
    /\ get' = [get EXCEPT ![g] = "active"]
    /\ UNCHANGED <<groupVars, signalled, inShutdown, conn, readyWith, exitCode>>

Answer(g) ==
    /\ Alive
    /\ get[g] = "active"
    /\ get' = [get EXCEPT ![g] = "answered"]
    /\ UNCHANGED <<groupVars, signalled, inShutdown, conn, readyWith, exitCode>>

\* ReadinessHandler answers 200 without a look at anything.
Ready ==
    /\ Accepting
    /\ readyWith' = readyWith \cup {conn}
    /\ UNCHANGED <<groupVars, signalled, inShutdown, get, conn, exitCode>>

-----------------------------------------------------------------------------
(* shutdown                                                                *)

\* The group's context is done: Shutdown closes the listener.
ShutdownBegins ==
    /\ goroutine["shutdown"] = "starting"
    /\ done
    /\ inShutdown' = TRUE
    /\ Run("shutdown")
    /\ UNCHANGED <<signalled, get, conn, readyWith, exitCode>>

\* Shutdown returns when no request is active.
ShutdownDone ==
    /\ goroutine["shutdown"] = "running"
    /\ Active = {}
    /\ ReturnNil("shutdown")
    /\ UNCHANGED <<signalled, inShutdown, get, conn, readyWith, exitCode>>

\* Mutated form: the shutdown is given no deadline of its own.
ShutdownExpiresNever == FALSE /\ UNCHANGED vars

\* Or with an error when HTTP_READ_TIMEOUT has passed.
ShutdownExpires ==
    /\ goroutine["shutdown"] = "running"
    /\ Active # {}
    /\ ReturnErr("shutdown")
    /\ UNCHANGED <<signalled, inShutdown, get, conn, readyWith, exitCode>>

-----------------------------------------------------------------------------
(* listen, and the NATS connection                                         *)

\* Subscribe fails on a closed connection only.
Listen ==
    /\ goroutine["listen"] = "starting"
    /\ IF conn = "closed" THEN ReturnErr("listen") ELSE Run("listen")
    /\ UNCHANGED <<signalled, inShutdown, get, conn, readyWith, exitCode>>

\* Nothing but the context wakes it.
ListenReturns ==
    /\ goroutine["listen"] = "running"
    /\ done
    /\ ReturnNil("listen")
    /\ UNCHANGED <<signalled, inShutdown, get, conn, readyWith, exitCode>>

\* The connection is lost, and comes back, or is closed for good after the
\* default of 60 attempts to reconnect (external).
Connection ==
    /\ Alive
    /\ \/ conn = "connected" /\ conn' = "reconnecting"
       \/ conn = "reconnecting" /\ conn' \in {"connected", "closed"}
    /\ UNCHANGED <<groupVars, signalled, inShutdown, get, readyWith, exitCode>>

-----------------------------------------------------------------------------
(* main                                                                    *)

Signal ==
    /\ Alive
    /\ ~signalled
    /\ signalled' = TRUE
    /\ done' = TRUE
    /\ UNCHANGED <<goroutine, groupErr, failed, inShutdown, get, conn, readyWith,
                   exitCode>>

\* Mutated form: main waits for the two servers only.
WaitReturnsEarly ==
    /\ Alive
    /\ \A n \in {"serve", "listen"} : goroutine[n] = "returned"
    /\ exitCode' = IF groupErr = NoError THEN 0 ELSE 1
    /\ get' = [g \in Requests |-> IF g \in Active THEN "cut" ELSE get[g]]
    /\ UNCHANGED <<groupVars, signalled, inShutdown, conn, readyWith>>

\* g.Wait returns, run returns and the process exits: nc.Drain in a deferred
\* call only starts draining, and requests that are active are cut off.
WaitReturns ==
    /\ Alive
    /\ \A n \in Goroutines : goroutine[n] = "returned"
    /\ exitCode' = IF groupErr = NoError THEN 0 ELSE 1
    /\ get' = [g \in Requests |-> IF g \in Active THEN "cut" ELSE get[g]]
    /\ UNCHANGED <<groupVars, signalled, inShutdown, conn, readyWith>>

\* The process has exited.
Exited == ~Alive /\ UNCHANGED vars

Serve    == Bind \/ ServeClosed
Shutdown == ShutdownBegins \/ ShutdownDone \/ ShutdownExpires
Listener == Listen \/ ListenReturns

Next ==
    \/ Serve \/ ServeFails \/ Shutdown \/ Listener
    \/ \E g \in Requests : Accept(g) \/ Answer(g)
    \/ Ready \/ Connection
    \/ Signal \/ WaitReturns
    \/ Exited

\* The goroutines run, and Shutdown's deadline passes.  No request needs ever
\* be answered, and nothing has to fail.
Fairness ==
    /\ WF_vars(Serve) /\ WF_vars(Shutdown) /\ WF_vars(Listener)
    /\ WF_vars(WaitReturns)

Spec == Init /\ [][Next]_vars /\ Fairness

-----------------------------------------------------------------------------
(* Properties.                                                             *)

TypeOK ==
    /\ goroutine \in [Goroutines -> States]
    /\ groupErr \in Goroutines \cup {NoError}
    /\ done \in BOOLEAN /\ signalled \in BOOLEAN /\ inShutdown \in BOOLEAN
    /\ get \in [Requests -> {"idle", "active", "answered", "cut"}]
    /\ conn \in {"connected", "reconnecting", "closed"}
    /\ readyWith \subseteq {"connected", "reconnecting", "closed"}
    /\ exitCode \in {0, 1, NoCode}
    /\ failed \subseteq Goroutines
    /\ inShutdown = (goroutine["shutdown"] # "starting")

\* A signal ends the process, also with requests that are never answered; so
\* does the end of the HTTP server, for whatever reason: no Reader is left
\* that answers over NATS alone.
ServiceEnds == (signalled \/ goroutine["serve"] = "returned") ~> ~Alive

\* "A failure in one (e.g. NATS connection drops) cancels the other via
\* context - no silent half-dead service" (README, Reader).
NoHalfDeadService == conn = "closed" ~> ~Alive

\* "ReadinessHandler handles GET /ready - checks downstream dependencies"
\* (comment in gin_handler.go).
ReadyMeansConnected == "closed" \notin readyWith
=============================================================================
