------------------------------- MODULE Pipeline -------------------------------
(***************************************************************************)
(* From the generator to the table: Daemon and Writer around one JetStream *)
(* stream, each at the port it shows the other.  The Daemon is the         *)
(* specification Publisher, which module Daemon implements; the Writer is  *)
(* module Writer, over a repository that module WritePool implements.      *)
(* The messages of the Writer's consumer are the events of the stream: the *)
(* server delivers an event that is persisted, and no other.               *)
(*                                                                         *)
(* Every event of the Daemon passes Validate (module EventPath), so every  *)
(* message is "valid".                                                     *)
(***************************************************************************)
EXTENDS Naturals, FiniteSets, Sequences

CONSTANTS
    Events,        \* the events that daemons generate
    MaxDeliver, WorkerCount, MaxAttempts, AutoAck,   \* see Writer
    MaxCrashes, MaxStops, MaxConsumers               \* bounds, see Writer

VARIABLES
    (* Publisher *)
    result, stream,
    (* Writer *)
    durable, made, consumer, delivered, wire, phase, closing, crashes, stops,
    inbox, callback, settled, sem, handler, attempt, verdict, deadLetter, call,
    rows

publisherVars == <<result, stream>>
writerVars == <<durable, made, consumer, delivered, wire, phase, closing, crashes,
                stops, inbox, callback, settled, sem, handler, attempt, verdict,
                deadLetter, call, rows>>
vars == <<publisherVars, writerVars>>

KindOf == [e \in Events |-> "valid"]

Source == INSTANCE Publisher
persisted == Source!persisted
Sink   == INSTANCE Writer WITH Msgs <- Events

ASSUME PipelineAssumption == Sink!WriterAssumption

Init == Source!Init /\ Sink!Init

\* The Daemon publishes, whatever the Writer does.
Publish == Source!Next /\ UNCHANGED writerVars

\* The consumer delivers what is in the stream.
Deliver(e) ==
    /\ e \in persisted
    /\ Sink!Deliver(e)
    /\ UNCHANGED publisherVars

\* The Writer, its database and its consumer, whatever the Daemon does.
Write == Sink!Step /\ UNCHANGED publisherVars

\* Every event is through, or the Writer is stopped.
Idle ==
    /\ \A e \in Events : result[e] # "none" /\ e \in persisted
    /\ Sink!Idle
    /\ UNCHANGED vars

Next ==
    \/ Publish
    \/ \E e \in Events : Deliver(e)
    \/ Write
    \/ Idle

\* The fairness of the Writer and of the server; the Daemon may do nothing.
Fairness ==
    /\ Sink!StepFairness
    /\ \A e \in Events : WF_vars(Deliver(e))

SafeSpec == Init /\ [][Next]_vars
Spec == SafeSpec /\ Fairness

-----------------------------------------------------------------------------
(* Properties.                                                             *)

\* The Daemon was told that e is persisted, and no one is left to deliver or
\* to handle it.
Through(e) ==
    /\ result[e] = "nil"
    /\ consumer[e] \in Sink!Final
    /\ \A n \in 1..Sink!MaxDelivered : <<e, n>> \notin Sink!Live

\* An event that is through and has neither a row nor a dead letter was lost
\* for one of three causes: the process ended under its handler, the context
\* of a handler ended before the last attempt, or no delivery had a handler.
CutShort(e) ==
    \E n \in 1..Sink!MaxDelivered :
        \/ handler[<<e, n>>] = "killed"
        \/ verdict[<<e, n>>] = "nak" /\ attempt[<<e, n>>] < MaxAttempts
NeverHandled(e) ==
    /\ consumer[e] = "exhausted"
    /\ \A n \in 1..Sink!MaxDelivered : handler[<<e, n>>] = "none"
LossHasCause ==
    \A e \in Events :
        Through(e) => e \in rows \cup deadLetter \/ CutShort(e) \/ NeverHandled(e)

\* "durable at-least-once delivery from source to storage" (README): an event
\* that was acknowledged to the Daemon, and that no one will deliver again, is
\* stored, or a dead letter tells of it.
AtLeastOnce == \A e \in Events : Through(e) => e \in rows \cup deadLetter

\* The Writer is stopped, and no one starts it again.
StoppedForGood == <>[](phase = "exited")

\* An orderly stop that deletes the durable consumer does not take the events
\* with it: the next Writer is sent each event of the stream again, however
\* often and to what end the old consumer had delivered it.
StopReplays ==
    \/ \A e \in Events :
          durable = "deleted" /\ e \in persisted ~> delivered[e] > MaxDeliver
    \/ StoppedForGood

-----------------------------------------------------------------------------
(* The pipeline implements EventFlow.                                      *)

Flow == INSTANCE EventFlow
           WITH told   <- {e \in Events : result[e] = "nil"},
                open   <- {e \in persisted : consumer[e] \notin Sink!Final},
                stored <- rows
ImplementsEventFlow == Flow!Spec
=============================================================================
