-------------------------------- MODULE Daemon --------------------------------
(***************************************************************************)
(* The Daemon service: EventEmitter.Run, which generates one event after   *)
(* the other and publishes each, and NATSPublisher.PublishEvent, which     *)
(* tries maxRetries times under one deadline of two seconds.               *)
(* External: the connection, the JetStream server and js.Publish, which    *)
(* sends the message and waits for the acknowledgement until its context   *)
(* is done; an answer that is no acknowledgement is an error at once.      *)
(*                                                                         *)
(* An event is named by the daemon that generated it and a number: the     *)
(* random identifier of newEventID, never given twice.                     *)
(***************************************************************************)
EXTENDS Naturals, Sequences

CONSTANTS
    Daemons,      \* replicas of the Daemon
    MaxRetries,   \* NATSPublisher.maxRetries
    MaxEvents     \* bound on the events of each daemon, for TLC

ASSUME DaemonAssumption == MaxRetries \in Nat \ {0} /\ MaxEvents \in Nat

Events == Daemons \X (1..MaxEvents)
Tries  == 1..MaxRetries

VARIABLES
    pc,         \* pc[d]: where Run, or the PublishEvent it calls, is
    generated,  \* generated[d]: number of events so far
    try,        \* try[d]: number of the try of the current event
    expired,    \* expired[d]: the two seconds of the current event are over
    signalled,  \* signalled[d]: the context of main is done
    conn,       \* conn[d]: whether the connection is still in use
    result,     \* result[e]: what PublishEvent has returned
    tried,      \* tried[e]: how often e has been given to js.Publish
    wire,       \* messages on their way to the stream: event and try
    answers,    \* answers on their way to js.Publish
    stream      \* the events of the JetStream stream, in its order

emitterVars == <<pc, generated, try, expired, signalled, conn, result, tried>>
vars == <<emitterVars, wire, answers, stream>>

Current(d) == <<d, generated[d]>>
Message(d) == [event |-> Current(d), try |-> try[d]]

\* "limit" waits for the rate limiter, "try" is at the head of the loop of
\* PublishEvent, "waiting" is inside js.Publish, "sleep" in its retryDelay.
Places     == {"limit", "try", "waiting", "sleep", "stopped"}
Publishing == {"try", "waiting", "sleep"}

\* pubCtx is done.
Over(d) == expired[d] \/ signalled[d]

Init ==
    /\ pc        = [d \in Daemons |-> "limit"]
    /\ generated = [d \in Daemons |-> 0]
    /\ try       = [d \in Daemons |-> 0]
    /\ expired   = [d \in Daemons |-> FALSE]
    /\ signalled = [d \in Daemons |-> FALSE]
    /\ conn      = [d \in Daemons |-> "open"]
    /\ result    = [e \in Events |-> "none"]
    /\ tried     = [e \in Events |-> 0]
    /\ wire      = {}
    /\ answers   = {}
    /\ stream    = <<>>

-----------------------------------------------------------------------------
(* EventEmitter.Run                                                        *)

\* The limiter lets one event pass; NewEvent gives it its identifier.
Emit(d) ==
    /\ pc[d] = "limit"
    /\ ~signalled[d]
    /\ generated[d] < MaxEvents
    /\ generated' = [generated EXCEPT ![d] = @ + 1]
    /\ pc'        = [pc EXCEPT ![d] = "try"]
    /\ try'       = [try EXCEPT ![d] = 0]
    /\ expired'   = [expired EXCEPT ![d] = FALSE]
    /\ UNCHANGED <<signalled, conn, result, tried, wire, answers, stream>>

\* Mutated form: the error of the limiter is treated like one of NewEvent.
EmitStopsNot(d) ==
    /\ pc[d] = "limit"
    /\ signalled[d]
    /\ UNCHANGED vars

\* The limiter, or NewEvent and then the limiter, find the context done.
EmitStops(d) ==
    /\ pc[d] = "limit"
    /\ signalled[d]
    /\ pc' = [pc EXCEPT ![d] = "stopped"]
    /\ UNCHANGED <<generated, try, expired, signalled, conn, result, tried, wire,
                   answers, stream>>

Signal(d) ==
    /\ pc[d] # "stopped"
    /\ ~signalled[d]
    /\ signalled' = [signalled EXCEPT ![d] = TRUE]
    /\ UNCHANGED <<pc, generated, try, expired, conn, result, tried, wire, answers,
                   stream>>

\* The process is killed while it publishes, and started again.
Crash(d) ==
    /\ pc[d] \in Publishing
    /\ pc' = [pc EXCEPT ![d] = "limit"]
    /\ signalled' = [signalled EXCEPT ![d] = FALSE]
    /\ conn' = [conn EXCEPT ![d] = "open"]
    /\ UNCHANGED <<generated, try, expired, result, tried, wire, answers, stream>>

-----------------------------------------------------------------------------
(* NATSPublisher.PublishEvent                                              *)

\* The publisher returns to Run, which logs an error and goes on.
Return(d, res) ==
    /\ result' = [result EXCEPT ![Current(d)] = res]
    /\ pc' = [pc EXCEPT ![d] = "limit"]

\* pubCtx's deadline passes.
Deadline(d) ==
    /\ pc[d] \in Publishing
    /\ ~expired[d]
    /\ expired' = [expired EXCEPT ![d] = TRUE]
    /\ UNCHANGED <<pc, generated, try, signalled, conn, result, tried, wire, answers,
                   stream>>

\* Mutated form: each try has a deadline of its own.
PublishOwnDeadline(d) ==
    /\ pc[d] = "try"
    /\ try' = [try EXCEPT ![d] = @ + 1]
    /\ tried' = [tried EXCEPT ![Current(d)] = @ + 1]
    /\ expired' = [expired EXCEPT ![d] = FALSE]
    /\ pc' = [pc EXCEPT ![d] = "waiting"]
    /\ wire' = wire \cup {[event |-> Current(d), try |-> try[d] + 1]}
    /\ UNCHANGED <<generated, signalled, conn, result, answers, stream>>

\* js.Publish sends the message, which may be lost.  On a connection that is
\* closed, or whose buffer is full, it fails at once.
Publish(d) ==
    /\ pc[d] = "try"
    /\ ~Over(d)
    /\ try' = [try EXCEPT ![d] = @ + 1]
    /\ tried' = [tried EXCEPT ![Current(d)] = @ + 1]
    /\ \/ /\ conn[d] = "open"
          /\ pc' = [pc EXCEPT ![d] = "waiting"]
          /\ wire' \in {wire, wire \cup {[event |-> Current(d), try |-> try[d] + 1]}}
       \/ /\ pc' = [pc EXCEPT ![d] = "sleep"]
          /\ UNCHANGED wire
    /\ UNCHANGED <<generated, expired, signalled, conn, result, answers, stream>>

\* pubCtx is done at the head of the loop.
PublishGivesUp(d) ==
    /\ pc[d] = "try"
    /\ Over(d)
    /\ Return(d, "error")
    /\ UNCHANGED <<generated, try, expired, signalled, conn, tried, wire, answers,
                   stream>>

\* Mutated form: any answer of the server will do.
PublishAnsweredAny(d) ==
    /\ pc[d] = "waiting"
    /\ \E a \in answers : a.message = Message(d)
    /\ Return(d, "nil")
    /\ UNCHANGED <<generated, try, expired, signalled, conn, tried, wire, answers,
                   stream>>

\* The answer to the message arrives.
PublishAnswered(d) ==
    /\ pc[d] = "waiting"
    /\ \E a \in answers :
          /\ a.message = Message(d)
          /\ IF a.ok THEN Return(d, "nil")
                     ELSE pc' = [pc EXCEPT ![d] = "sleep"] /\ UNCHANGED result
    /\ UNCHANGED <<generated, try, expired, signalled, conn, tried, wire, answers,
                   stream>>

\* No answer comes, until pubCtx is done.
PublishExpires(d) ==
    /\ pc[d] = "waiting"
    /\ Over(d)
    /\ pc' = [pc EXCEPT ![d] = "sleep"]
    /\ UNCHANGED <<generated, try, expired, signalled, conn, result, tried, wire,
                   answers, stream>>

\* Mutated form: one try too many.
AwakeOver(d) ==
    /\ pc[d] = "sleep"
    /\ IF try[d] <= MaxRetries
       THEN pc' = [pc EXCEPT ![d] = "try"] /\ UNCHANGED result
       ELSE Return(d, "error")
    /\ UNCHANGED <<generated, try, expired, signalled, conn, tried, wire, answers,
                   stream>>

\* After retryDelay: the next turn of the loop, or its end.
Awake(d) ==
    /\ pc[d] = "sleep"
    /\ IF try[d] < MaxRetries
       THEN pc' = [pc EXCEPT ![d] = "try"] /\ UNCHANGED result
       ELSE Return(d, "error")
    /\ UNCHANGED <<generated, try, expired, signalled, conn, tried, wire, answers,
                   stream>>

-----------------------------------------------------------------------------
(* The connection and the JetStream server (external).                     *)

\* After the default number of reconnects the connection is closed for good;
\* a publication that waits fails with it.
ConnectionCloses(d) ==
    /\ pc[d] # "stopped"
    /\ conn[d] = "open"
    /\ conn' = [conn EXCEPT ![d] = "closed"]
    /\ pc' = [pc EXCEPT ![d] = IF @ = "waiting" THEN "sleep" ELSE @]
    /\ UNCHANGED <<generated, try, expired, signalled, result, tried, wire, answers,
                   stream>>

\* The message is persisted, or refused; the answer may be lost.
ServerReceives(m) ==
    /\ m \in wire
    /\ wire' = wire \ {m}
    /\ \E ok \in BOOLEAN :
          /\ stream' = IF ok THEN Append(stream, m.event) ELSE stream
          /\ answers' \in {answers, answers \cup {[message |-> m, ok |-> ok]}}
    /\ UNCHANGED emitterVars

\* Every daemon has stopped, or is at its bound.
Idle ==
    /\ \A d \in Daemons :
          pc[d] = "stopped" \/ (pc[d] = "limit" /\ generated[d] = MaxEvents)
    /\ UNCHANGED vars

Emitter(d) ==
    \/ Emit(d) \/ EmitStops(d) \/ Publish(d) \/ PublishGivesUp(d)
    \/ PublishAnswered(d) \/ PublishExpires(d) \/ Awake(d)

Next ==
    \/ \E d \in Daemons :
          Emitter(d) \/ Deadline(d) \/ Signal(d) \/ Crash(d) \/ ConnectionCloses(d)
    \/ \E m \in [event : Events, try : Tries] : ServerReceives(m)
    \/ Idle

\* The goroutine runs and the deadline passes.  The network may lose
\* everything.
Fairness == \A d \in Daemons : WF_vars(Emitter(d)) /\ WF_vars(Deadline(d))

SafeSpec == Init /\ [][Next]_vars
Spec == SafeSpec /\ Fairness

-----------------------------------------------------------------------------
(* Properties.                                                             *)

TypeOK ==
    /\ pc \in [Daemons -> Places]
    /\ generated \in [Daemons -> 0..MaxEvents]
    /\ try \in [Daemons -> 0..MaxRetries]
    /\ expired \in [Daemons -> BOOLEAN]
    /\ signalled \in [Daemons -> BOOLEAN]
    /\ conn \in [Daemons -> {"open", "closed"}]
    /\ result \in [Events -> {"none", "nil", "error"}]
    /\ tried \in [Events -> 0..MaxRetries]
    /\ wire \subseteq [event : Events, try : Tries]
    /\ answers \subseteq [message : [event : Events, try : Tries], ok : BOOLEAN]
    /\ stream \in Seq(Events)

\* PublishEvent returns nil only for an event that is in the stream.
NilMeansPersisted ==
    \A e \in Events : result[e] = "nil" => \E i \in DOMAIN stream : stream[i] = e

\* The stream holds an event once: the tries of an event share one deadline,
\* so a try whose answer is unknown is the last.
PersistedOnce ==
    \A i, j \in DOMAIN stream : stream[i] = stream[j] => i = j

\* The stream shows the events of a daemon in the order in which they were
\* generated, as far as PublishEvent returned nil for them.
PersistedInOrder ==
    \A i, j \in DOMAIN stream :
        /\ i < j
        /\ stream[i][1] = stream[j][1]
        /\ result[stream[i]] = "nil"
        => stream[i][2] < stream[j][2] \/ result[stream[j]] # "nil"

\* Run returns after the signal: its waits all end (README, Daemon, Graceful
\* Shutdown), and a crash puts an end to it as well.
StopEnds == \A d \in Daemons : signalled[d] ~> pc[d] = "stopped" \/ ~signalled[d]

\* The Daemon implements its port: what PublishEvent tells of an event, and
\* what becomes of the event in the stream, is what Publisher allows.  The
\* stream is the port's, so that an event which is stored a second time breaks
\* it, as a nil without an event does.
Port == INSTANCE Publisher
ImplementsPublisher == Port!Spec

\* "3 retries on failure", "The retry loop handles transient network glitches
\* without losing events" (README): an event that was tried at all is given up
\* after all its tries, unless a signal ends them.
GivenUpAfterAllTries ==
    \A e \in Events :
        result[e] = "error" => tried[e] \in {0, MaxRetries} \/ signalled[e[1]]
=============================================================================
