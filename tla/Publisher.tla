------------------------------- MODULE Publisher -------------------------------
(***************************************************************************)
(* What the Daemon's outbound port Publisher promises                      *)
(* (internal/daemon/ports/outbound.go), with no word of how: PublishEvent  *)
(* returns nil only for an event that is persisted; after an error, or     *)
(* when the process was killed, the event may be persisted already, or     *)
(* later, or never; and the stream takes an event only once: to append it  *)
(* again is no step of a Publisher.  Daemon implements it, Pipeline builds *)
(* on it.                                                                  *)
(***************************************************************************)
EXTENDS Sequences

CONSTANT Events     \* the events that daemons generate

VARIABLES
    result,     \* result[e]: what PublishEvent has returned
    stream      \* the events of the JetStream stream, in its order

vars == <<result, stream>>

\* The events that the stream holds.
persisted == {stream[i] : i \in DOMAIN stream}

Init ==
    /\ result = [e \in Events |-> "none"]
    /\ stream = <<>>

\* The stream takes the message of an event, which some call has sent.
Persist(e) ==
    /\ e \notin persisted
    /\ stream' = Append(stream, e)
    /\ UNCHANGED result

\* Mutated form: any answer of the server will do.
AnsweredAny(e) == result[e] = "none"

\* The acknowledgement of e has come.
Answered(e) == result[e] = "none" /\ e \in persisted

ReturnNil(e) ==
    /\ Answered(e)
    /\ result' = [result EXCEPT ![e] = "nil"]
    /\ UNCHANGED stream

ReturnError(e) ==
    /\ result[e] = "none"
    /\ result' = [result EXCEPT ![e] = "error"]
    /\ UNCHANGED stream

Next == \E e \in Events : Persist(e) \/ ReturnNil(e) \/ ReturnError(e)

Spec == Init /\ [][Next]_vars

-----------------------------------------------------------------------------
TypeOK ==
    /\ result \in [Events -> {"none", "nil", "error"}]
    /\ stream \in Seq(Events)

\* A nil means persisted, now and for good: nothing is taken from the stream.
NilIsPersisted == \A e \in Events : result[e] = "nil" => e \in persisted
=============================================================================
