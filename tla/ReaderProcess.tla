---------------------------- MODULE ReaderProcess ----------------------------
(***************************************************************************)
(* The state of a Reader process, cmd/reader/main.go, and what it must     *)
(* look like when the process has exited.  Its steps are in ReaderService. *)
(***************************************************************************)
EXTENDS Naturals

CONSTANT Requests  \* HTTP requests to this process

VARIABLES
    goroutine,     \* goroutine[n]: where the goroutine n of the group is
    groupErr,      \* the goroutine whose error the group has kept
    done,          \* gCtx is done
    signalled,     \* SIGTERM or SIGINT has come
    inShutdown,    \* http.Server: Shutdown has been called
    get,           \* get[g]: the state of an HTTP request
    conn,          \* the NATS connection
    readyWith,     \* states of conn in which GET /ready has answered 200
    exitCode,      \* exit code of the process
    failed         \* auxiliary: the goroutines that have returned an error

Goroutines == {"serve", "shutdown", "listen"}
States     == {"starting", "running", "returned"}
NoError    == "nil"
NoCode     == 2       \* the process has not exited

Alive  == exitCode = NoCode
Active == {g \in Requests : get[g] = "active"}

\* What QueryPath knows of the process.
PhaseOf == IF ~Alive THEN "down" ELSE IF done THEN "stopping" ELSE "up"

-----------------------------------------------------------------------------
(* Properties.                                                             *)

\* A clean exit answers what was accepted: with exit code 0 no HTTP request
\* was cut off, though serve returns before its requests are answered and the
\* signal may come before the server listens.
CleanExitCutsNothing == exitCode = 0 => \A g \in Requests : get[g] # "cut"

\* The exit code tells: 1 if and only if some goroutine of the group failed,
\* also when it failed during a shutdown that was asked for.
ExitCodeIsTrue == ~Alive => (exitCode = 1 <=> failed # {})
=============================================================================
