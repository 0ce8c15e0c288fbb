-------------------------------- MODULE Writer --------------------------------
(***************************************************************************)
(* The Writer service between JetStream and its repository:                *)
(*   - NATSSubscriber (internal/writer/adapters/nats_subscriber.go), the   *)
(*     callback, the semaphore, one goroutine per message, Close;          *)
(*   - EventProcessor.Handle (internal/writer/usecase/processor.go), which *)
(*     validates an event and saves it with retries;                       *)
(*   - the start and the shutdown of cmd/writer/main.go;                   *)
(*   - external, modelled from how they are used: the durable consumer of  *)
(*     the JetStream server, the connection to it, and nats.go, which runs *)
(*     the callback for one message after the other.                       *)
(*                                                                         *)
(* The repository is the port's specification, EventRepository; WritePool  *)
(* is the adapter that implements it.                                      *)
(*                                                                         *)
(* The subscription of NewNATSSubscriber does not pass nats.ManualAck():   *)
(* nats.go then acknowledges each message itself when the callback has     *)
(* returned.  AutoAck = TRUE is this code.  AutoAck = FALSE is the code    *)
(* with that one option added, to tell apart what the option decides.      *)
(*                                                                         *)
(* js.Subscribe makes the durable consumer when there is none, and draining*)
(* the subscription of the process that made it deletes it: the next       *)
(* process makes a new one, which delivers the whole stream again.         *)
(***************************************************************************)
EXTENDS Naturals, FiniteSets, Sequences

CONSTANTS
    Msgs,          \* messages of the stream, each with an event of its own id
    KindOf,        \* what is wrong with the event of a message, if anything
    MaxDeliver,    \* MaxDeliver of the consumer: WRITER_MAX_DELIVERIES
    WorkerCount,   \* capacity of the semaphore
    MaxAttempts,   \* RetryPolicy.MaxAttempts
    AutoAck,       \* the library acknowledges after the callback
    MaxCrashes,    \* bound on crashes of the process, for TLC
    MaxStops,      \* bound on orderly stops of the process, for TLC
    MaxConsumers   \* bound on the consumers made under the durable name, for TLC

\* "malformed" is no JSON; "invalid" is JSON that Event.Validate refuses.
Kinds == {"valid", "invalid", "malformed"}

ASSUME WriterAssumption ==
    /\ KindOf \in [Msgs -> Kinds]
    /\ MaxDeliver \in Nat \ {0}
    /\ WorkerCount \in Nat \ {0}
    /\ MaxAttempts \in Nat \ {0}
    /\ AutoAck \in BOOLEAN
    /\ MaxCrashes \in Nat
    /\ MaxStops \in Nat
    /\ MaxConsumers \in Nat \ {0}

\* The n-th delivery of m; each is a message of its own to the client.  Each
\* consumer delivers m at most MaxDeliver times.
MaxDelivered == MaxDeliver * MaxConsumers
Deliveries   == Msgs \X (1..MaxDelivered)

\* The calls of Save: the k-th attempt of the handler of a delivery.
SaveCalls == Deliveries \X (1..MaxAttempts)
EventOf   == [c \in SaveCalls |-> c[1][1]]

NoDelivery == <<>>

VARIABLES
    (* the JetStream server *)
    durable,    \* who made the durable consumer, or that it is deleted
    made,       \* how many consumers there have been
    consumer,   \* consumer[m]: what the durable consumer knows of m
    delivered,  \* delivered[m]: how often m was delivered
    wire,       \* acknowledgements on their way to the server
    (* the process *)
    phase,      \* where main is between start and exit
    closing,    \* where the goroutine that runs NATSSubscriber.Close is
    crashes,    \* how often the process has crashed
    stops,      \* how often it was told to stop
    inbox,      \* deliveries that wait for the callback, oldest first
    callback,   \* the delivery whose callback has returned, not yet auto-acked
    settled,    \* deliveries whose nats.Msg is marked as acknowledged
    sem,        \* number of slots taken in the semaphore
    handler,    \* handler[d]: the goroutine of d
    attempt,    \* attempt[d]: the number of the current or last attempt
    verdict,    \* verdict[d]: what Handle's return makes of d
    deadLetter, \* messages for which a DEAD LETTER line was logged
    (* the repository *)
    call,
    rows

serverVars  == <<durable, made, consumer, delivered>>
ackVars     == <<wire, settled>>
processVars == <<phase, closing, crashes, stops>>
queueVars   == <<inbox, callback>>
handlerVars == <<sem, handler, attempt, verdict, deadLetter>>
repoVars    == <<call, rows>>
vars == <<serverVars, ackVars, processVars, queueVars, handlerVars, repoVars>>

Repository == INSTANCE EventRepository
                 WITH Calls <- SaveCalls, Points <- Msgs, PointOf <- EventOf

\* "made" by this process, "found" by it, or gone with an orderly stop.
Durables == {"made", "found", "deleted"}

\* What is left to do for a message: "ready" to be delivered, "pending" an
\* acknowledgement; or its end.
Final          == {"acked", "termed", "exhausted"}
ConsumerStates == {"ready", "pending"} \cup Final

\* "stopping" waits in gracefulShutdown, "exiting" runs the deferred Close of
\* the repository.
Phases == {"running", "stopping", "exiting", "exited", "crashed"}

\* Close drains the subscription and waits for the handlers, has seen none,
\* has closed the connection.
Closings == {"no", "draining", "waited", "disconnected"}

Verdicts == {"ack", "nak", "term"}

LiveStates == {"started", "saving", "backoff", "returned"}
Live       == {d \in Deliveries : handler[d] \in LiveStates}

Alive     == phase \notin {"exited", "crashed"}
Connected == Alive /\ closing # "disconnected"

Init ==
    /\ durable    = "made"
    /\ made       = 1
    /\ consumer   = [m \in Msgs |-> "ready"]
    /\ delivered  = [m \in Msgs |-> 0]
    /\ wire       = {}
    /\ phase      = "running"
    /\ closing    = "no"
    /\ crashes    = 0
    /\ stops      = 0
    /\ inbox      = <<>>
    /\ callback   = NoDelivery
    /\ settled    = {}
    /\ sem        = 0
    /\ handler    = [d \in Deliveries |-> "none"]
    /\ attempt    = [d \in Deliveries |-> 0]
    /\ verdict    = [d \in Deliveries |-> "none"]
    /\ deadLetter = {}
    /\ Repository!Init

-----------------------------------------------------------------------------
(* The server and the network (external).                                  *)

\* The option nats.MaxDeliver: the consumer delivers m no more.
MayDeliver(m) == delivered[m] < made * MaxDeliver

\* A push to the subscription: it arrives, or is lost with the connection.
Deliver(m) ==
    /\ phase = "running"
    /\ consumer[m] = "ready"
    /\ MayDeliver(m)
    /\ consumer'  = [consumer EXCEPT ![m] = "pending"]
    /\ delivered' = [delivered EXCEPT ![m] = @ + 1]
    /\ inbox' \in {inbox, Append(inbox, <<m, delivered[m] + 1>>)}
    /\ UNCHANGED <<durable, made, ackVars, processVars, callback, handlerVars, repoVars>>

\* Mutated form: the subscription is made without nats.MaxDeliver, and the
\* server would deliver m for ever.
RequeuedAlways(m) == "ready"

\* m is to be delivered again, unless it was delivered MaxDeliver times.
Requeued(m) == IF MayDeliver(m) THEN "ready" ELSE "exhausted"

\* No acknowledgement within AckWait.
AckWaitExpires(m) ==
    /\ durable # "deleted"
    /\ consumer[m] = "pending"
    /\ consumer' = [consumer EXCEPT ![m] = Requeued(m)]
    /\ UNCHANGED <<durable, made, delivered, ackVars, processVars, queueVars,
                   handlerVars, repoVars>>

\* The consumer has delivered m and waits, or will deliver it again.
Outstanding(m) ==
    /\ durable # "deleted"
    /\ consumer[m] \in {"ready", "pending"}
    /\ delivered[m] > (made - 1) * MaxDeliver

\* An acknowledgement arrives.  It settles the message of the stream, also
\* when it is the late answer to an earlier delivery; what comes after the
\* message is settled is ignored, and so is a nak of a queued message.
ServerReceives(d, v) ==
    LET m == d[1] IN
    /\ <<d, v>> \in wire
    /\ wire' = wire \ {<<d, v>>}
    /\ consumer' =
          [consumer EXCEPT ![m] =
             CASE Outstanding(m) /\ v = "ack"                 -> "acked"
               [] Outstanding(m) /\ v = "term"                -> "termed"
               [] Outstanding(m) /\ v = "nak" /\ @ = "pending" -> Requeued(m)
               [] OTHER                                       -> @]
    /\ UNCHANGED <<durable, made, delivered, settled, processVars, queueVars,
                   handlerVars, repoVars>>

\* Draining has found the inbox empty: nats.go deletes the consumer that this
\* process has made.  The request may fail, or the connection close before.
DeleteConsumer ==
    /\ Alive
    /\ closing \in {"draining", "waited"}
    /\ durable = "made"
    /\ made < MaxConsumers
    /\ inbox = <<>>
    /\ durable' = "deleted"
    /\ UNCHANGED <<made, consumer, delivered, ackVars, processVars, queueVars,
                   handlerVars, repoVars>>

-----------------------------------------------------------------------------
(* The callback of the subscription: handleMessage, run by nats.go.        *)

\* Msg.Ack, Msg.Nak, Msg.NakWithDelay, Msg.Term: the first one counts, and
\* none is sent through a closed connection.  A lost one stays on the wire.
Send(d, v) ==
    IF d \in settled \/ ~Connected
    THEN UNCHANGED ackVars
    ELSE /\ settled' = settled \cup {d}
         /\ wire' = wire \cup {<<d, v>>}

\* The next message leaves the inbox; draining empties the inbox first.
Dispatch(d) ==
    /\ Connected
    /\ callback = NoDelivery
    /\ inbox # <<>>
    /\ d = Head(inbox)
    /\ inbox' = Tail(inbox)
    /\ callback' = d
    /\ UNCHANGED <<serverVars, processVars, attempt, verdict, deadLetter, repoVars>>

\* Mutated form: it returns without a NAK.
PutBackNot(d) == UNCHANGED <<ackVars, sem, handler>>

\* The callback puts the message back before it returns.
PutBack(d) == Send(d, "nak") /\ UNCHANGED <<sem, handler>>

HandleMalformed(d) ==
    /\ KindOf[d[1]] = "malformed"
    /\ Dispatch(d)
    /\ PutBack(d)

\* Mutated form: it lets one goroutine too many pass.
SlotFreeOver == sem <= WorkerCount

\* The select on the semaphore finds a free slot.
SlotFree == sem < WorkerCount

\* No slot is free: the message is put back with a delay.
HandleSaturated(d) ==
    /\ KindOf[d[1]] # "malformed"
    /\ ~SlotFree
    /\ Dispatch(d)
    /\ PutBack(d)

HandleSpawn(d) ==
    /\ KindOf[d[1]] # "malformed"
    /\ SlotFree
    /\ Dispatch(d)
    /\ sem' = sem + 1
    /\ handler' = [handler EXCEPT ![d] = "started"]
    /\ UNCHANGED ackVars

\* The callback has returned; without ManualAck the library acknowledges.
CallbackReturns ==
    /\ Alive
    /\ callback # NoDelivery
    /\ callback' = NoDelivery
    /\ IF AutoAck THEN Send(callback, "ack") ELSE UNCHANGED ackVars
    /\ UNCHANGED <<serverVars, processVars, inbox, handlerVars, repoVars>>

-----------------------------------------------------------------------------
(* The goroutine of a delivery: Handle, then the verdict.                  *)

\* A step of the goroutine of d, which is at s.
At(d, s) ==
    /\ Alive
    /\ handler[d] = s
    /\ UNCHANGED <<serverVars, processVars, queueVars>>

\* Handle returns.
Return(d, v) ==
    /\ handler' = [handler EXCEPT ![d] = "returned"]
    /\ verdict' = [verdict EXCEPT ![d] = v]

\* Handle waits for the next attempt.
Backoff(d) ==
    /\ handler' = [handler EXCEPT ![d] = "backoff"]
    /\ UNCHANGED verdict

\* Validate refuses the event: ErrInvalidEvent.
HandleInvalid(d) ==
    /\ At(d, "started")
    /\ KindOf[d[1]] = "invalid"
    /\ Return(d, "term")
    /\ UNCHANGED <<ackVars, sem, attempt, deadLetter, repoVars>>

\* The first attempt, or the next one after the backoff.
StartAttempt(d) ==
    /\ \/ At(d, "started") /\ KindOf[d[1]] = "valid"
       \/ At(d, "backoff")
    /\ handler' = [handler EXCEPT ![d] = "saving"]
    /\ attempt' = [attempt EXCEPT ![d] = @ + 1]
    /\ Repository!Start(<<d, attempt[d] + 1>>)
    /\ UNCHANGED <<ackVars, sem, verdict, deadLetter>>

\* Mutated form: the last attempt is counted from zero.
LastAttemptOff(d) == attempt[d] + 1 >= MaxAttempts

LastAttempt(d) == attempt[d] = MaxAttempts

\* What follows a nil of Save: break, and return nil.
Saved(d) == Return(d, "ack")

SaveSucceeds(d) ==
    /\ At(d, "saving")
    /\ Repository!ReturnOk(<<d, attempt[d]>>)
    /\ Saved(d)
    /\ UNCHANGED <<ackVars, sem, attempt, deadLetter>>

\* Save returns an error: another attempt, or the dead letter after the last.
SaveFails(d) ==
    /\ At(d, "saving")
    /\ Repository!ReturnError(<<d, attempt[d]>>)
    /\ IF LastAttempt(d)
       THEN Return(d, "nak") /\ deadLetter' = deadLetter \cup {d[1]}
       ELSE Backoff(d) /\ UNCHANGED deadLetter
    /\ UNCHANGED <<ackVars, sem, attempt>>

\* Mutated form: the interrupted retry loop falls through to return nil.
InterruptedNil(d) == Return(d, "ack")

\* ctx.Err() is what an interrupted Handle returns.
Interrupted(d) == Return(d, "nak")

\* The context expires during the backoff: Handle returns at once.
BackoffExpires(d) ==
    /\ At(d, "backoff")
    /\ Interrupted(d)
    /\ UNCHANGED <<ackVars, sem, attempt, deadLetter, repoVars>>

\* Mutated form: only an acknowledged message gives its slot back.
ReleaseOnAck(d) == sem' = IF verdict[d] = "ack" THEN sem - 1 ELSE sem

\* Mutated form: the slot is received for a second time.
ReleaseTwice(d) == sem > 1 /\ sem' = sem - 2

\* The deferred receive from the semaphore, which blocks when it is empty.
Release(d) == sem > 0 /\ sem' = sem - 1

\* Ack for nil, Term for ErrInvalidEvent, Nak for any other error.
VerdictOf(d) == verdict[d]

\* The verdict is sent, the slot released and wg.Done called.
Settle(d) ==
    /\ At(d, "returned")
    /\ Send(d, VerdictOf(d))
    /\ handler' = [handler EXCEPT ![d] = "done"]
    /\ Release(d)
    /\ UNCHANGED <<attempt, verdict, deadLetter, repoVars>>

\* The database stores points of calls that were made, also of calls that
\* have returned an error and of a process that is gone.
DatabaseStores ==
    /\ Repository!Store
    /\ UNCHANGED <<serverVars, ackVars, processVars, queueVars, handlerVars>>

-----------------------------------------------------------------------------
(* Shutdown, crash, restart.                                               *)

\* A signal: gracefulShutdown starts Close, and Drain ends the interest in
\* new messages; it does not wait for the inbox to be dispatched.
Shutdown ==
    /\ phase = "running"
    /\ stops < MaxStops
    /\ stops' = stops + 1
    /\ phase' = "stopping"
    /\ closing' = "draining"
    /\ UNCHANGED <<serverVars, ackVars, crashes, queueVars, handlerVars, repoVars>>

\* wg.Wait() returns: at this moment no handler goroutine is registered.
WaitHandlers ==
    /\ Alive
    /\ closing = "draining"
    /\ Live = {}
    /\ closing' = "waited"
    /\ UNCHANGED <<serverVars, ackVars, phase, crashes, stops, queueVars, handlerVars,
                   repoVars>>

\* conn.Drain() and conn.Close(): what is still in the inbox is dropped.
CloseConnection ==
    /\ Alive
    /\ closing = "waited"
    /\ closing' = "disconnected"
    /\ inbox' = <<>>
    /\ UNCHANGED <<serverVars, ackVars, phase, crashes, stops, callback, handlerVars,
                   repoVars>>

\* gracefulShutdown returns: Close is done, or shutdownTimeout has passed.
ReturnFromRun ==
    /\ phase = "stopping"
    /\ phase' = "exiting"
    /\ UNCHANGED <<serverVars, ackVars, closing, crashes, stops, queueVars, handlerVars,
                   repoVars>>

\* The process is gone, and with it its goroutines and its memory.
ProcessEnds ==
    /\ inbox' = <<>>
    /\ callback' = NoDelivery
    /\ sem' = 0
    /\ handler' = [d \in Deliveries |-> IF d \in Live THEN "killed" ELSE handler[d]]
    /\ UNCHANGED <<serverVars, ackVars, closing, stops, attempt, verdict, deadLetter,
                   repoVars>>

\* The deferred Close of the repository has returned.
Exit ==
    /\ phase = "exiting"
    /\ phase' = "exited"
    /\ ProcessEnds
    /\ UNCHANGED crashes

\* Also the kill by the container runtime, whose patience with a container
\* that stops is shorter than shutdownTimeout.
Crash ==
    /\ Alive
    /\ crashes < MaxCrashes
    /\ crashes' = crashes + 1
    /\ phase' = "crashed"
    /\ ProcessEnds

\* Mutated form: the option nats.DeliverNew, which passes over what is in the
\* stream.
FirstStateNew == "exhausted"

\* A new consumer delivers from the beginning of the stream.
FirstState == "ready"

\* The container is started again and subscribes under the same durable name:
\* it finds the consumer, or makes a new one that delivers the whole stream.
Restart ==
    /\ ~Alive
    /\ phase' = "running"
    /\ closing' = "no"
    /\ IF durable = "deleted"
       THEN /\ durable'   = "made"
            /\ made'      = made + 1
            /\ consumer'  = [m \in Msgs |-> FirstState]
            /\ delivered' = [m \in Msgs |-> made * MaxDeliver]
       ELSE durable' = "found" /\ UNCHANGED <<made, consumer, delivered>>
    /\ UNCHANGED <<ackVars, crashes, stops, queueVars, handlerVars, repoVars>>

\* Nothing is left to do, or no one to do it.
Idle ==
    /\ phase = "exited" \/ (Live = {} /\ \A m \in Msgs : consumer[m] \in Final)
    /\ UNCHANGED vars

Handler(d) ==
    \/ HandleInvalid(d) \/ StartAttempt(d) \/ SaveSucceeds(d) \/ SaveFails(d)
    \/ BackoffExpires(d) \/ Settle(d)

Callback ==
    \/ \E d \in Deliveries : HandleMalformed(d) \/ HandleSaturated(d) \/ HandleSpawn(d)
    \/ CallbackReturns

\* A step of anyone once the server has delivered what it delivers.
Step ==
    \/ \E m \in Msgs : AckWaitExpires(m)
    \/ \E d \in Deliveries, v \in Verdicts : ServerReceives(d, v)
    \/ DeleteConsumer
    \/ Callback
    \/ \E d \in Deliveries : Handler(d)
    \/ DatabaseStores
    \/ Shutdown \/ WaitHandlers \/ CloseConnection \/ ReturnFromRun \/ Exit
    \/ Crash \/ Restart

Next == (\E m \in Msgs : Deliver(m)) \/ Step \/ Idle

\* The server delivers and times out, nats.go runs the callback, goroutines
\* run and their contexts expire, main goes on when Close is done, a crashed
\* container is started again.  Nothing is assumed of the network or of the
\* database, nor that a signal comes, that shutdownTimeout passes, or that
\* anyone starts a container again that was stopped.
StepFairness ==
    /\ \A m \in Msgs : WF_vars(AckWaitExpires(m))
    /\ WF_vars(Callback)
    /\ \A d \in Deliveries : WF_vars(Handler(d))
    /\ WF_vars(WaitHandlers) /\ WF_vars(CloseConnection)
    /\ WF_vars(closing = "disconnected" /\ ReturnFromRun) /\ WF_vars(Exit)
    /\ WF_vars(phase = "crashed" /\ Restart)

Fairness == StepFairness /\ \A m \in Msgs : WF_vars(Deliver(m))

SafeSpec == Init /\ [][Next]_vars
Spec == SafeSpec /\ Fairness

-----------------------------------------------------------------------------
(* Properties.                                                             *)

TypeOK ==
    /\ durable \in Durables
    /\ made \in 1..MaxConsumers
    /\ consumer \in [Msgs -> ConsumerStates]
    /\ delivered \in [Msgs -> 0..MaxDelivered]
    /\ wire \subseteq Deliveries \X Verdicts
    /\ phase \in Phases
    /\ closing \in Closings
    /\ crashes \in 0..MaxCrashes
    /\ stops \in 0..MaxStops
    /\ inbox \in Seq(Deliveries)
    /\ callback \in Deliveries \cup {NoDelivery}
    /\ settled \subseteq Deliveries
    /\ sem \in 0..WorkerCount
    /\ handler \in [Deliveries -> LiveStates \cup {"none", "done", "killed"}]
    /\ attempt \in [Deliveries -> 0..MaxAttempts]
    /\ verdict \in [Deliveries -> Verdicts \cup {"none"}]
    /\ deadLetter \subseteq Msgs
    /\ Repository!TypeOK

\* A slot is taken for each handler goroutine and given back on every path
\* on which the goroutine ends: no leak makes the Writer NAK for ever, and no
\* double release lets more than WorkerCount run.
SlotsMatchHandlers == sem = Cardinality(Live)

\* Handle returns nil, and the handler says Ack, only for an event that is in
\* the database, whatever crashed, expired or was redelivered in between.
NilMeansStored ==
    \A d \in Deliveries : verdict[d] = "ack" => d[1] \in rows

\* A DEAD LETTER line is the record of a delivery all of whose attempts failed.
DeadLetterIsEarned ==
    \A m \in deadLetter : \E n \in 1..MaxDelivered :
        \A k \in 1..MaxAttempts : call[<<<<m, n>>, k>>] = "error"

\* How a message ends for JetStream has its cause in what the Writer did.  The
\* acknowledgement of the library comes after the NAK of a callback that puts
\* its message back, and is refused: what is acknowledged was handed to a
\* handler, and a message that is no JSON, or finds no free slot on any
\* delivery, is given up but never forgotten as done.  Term discards only
\* what Validate refuses, and that is never stored.
EndHasCause ==
    \A m \in Msgs :
        /\ consumer[m] = "acked" => \E n \in 1..MaxDelivered : handler[<<m, n>>] # "none"
        /\ consumer[m] = "termed" => KindOf[m] = "invalid"
        /\ consumer[m] = "exhausted" => delivered[m] >= MaxDeliver
        /\ m \in rows => KindOf[m] = "valid"

\* "a message is ACKed only after its data is confirmed written to InfluxDB"
\* (README, Writer): what the server holds as acknowledged is stored.
AckMeansStored ==
    \A m \in Msgs : consumer[m] = "acked" => m \in rows

\* "The NATS adapter ACKs only after Handle returns nil" (EventProcessor).
AckAfterHandle ==
    \A d \in Deliveries : <<d, "ack">> \in wire => verdict[d] = "ack"

\* "Permanent write failures logged with dead_letter=true" (README): a valid
\* event that JetStream gives up after handlers have tried to save it on
\* every delivery and failed, and that is not stored, has its DEAD LETTER.
PermanentFailureIsLogged ==
    \A m \in Msgs :
        /\ consumer[m] = "exhausted"
        /\ m \notin rows
        /\ \A n \in 1..delivered[m] :
              handler[<<m, n>>] = "done" /\ verdict[<<m, n>>] = "nak"
        => m \in deadLetter

\* "if all workers are busy the message is NAKed so JetStream redelivers it
\* later" (NATSSubscriber): an event is not given up while all that happened
\* to its deliveries is that they were put back for want of a slot.
SaturatedIsRedelivered ==
    \A m \in Msgs :
        consumer[m] = "exhausted" /\ KindOf[m] = "valid" =>
            \E n \in 1..delivered[m] : handler[<<m, n>>] # "none" \/ <<m, n>> \notin settled

\* "No data is lost or left in an ambiguous ACK state during container stop":
\* once the connection is closed no handler is still at work on a message.
StopLeavesNoHandler == closing = "disconnected" => Live = {}

\* "durable consumer writer-consumer survives restarts" (README).
DurableSurvives == durable # "deleted"

\* "If the service shuts down during a retry sleep, the sleep is cancelled
\* immediately" (README, Exponential Backoff Retry): no attempt follows.
NoRetryAfterShutdown ==
    [][\A d \in Deliveries :
          phase = "stopping" /\ handler[d] = "backoff" => handler'[d] # "saving"]_vars

\* Close returns: the handlers that are at work when the signal comes, and
\* those the inbox still starts, all end, so wg.Wait and the shutdown do not
\* depend on the 30 seconds after which the process exits anyway.
CloseReturns == closing = "draining" ~> closing # "draining" \/ ~Alive

\* No message stays undecided: through lost acknowledgements, crashes and late
\* answers each comes to its end, unless the Writer is stopped and no one
\* starts it.  What becomes of the messages of a consumer that a stop deletes
\* is StopReplays of Pipeline.
EveryMessageEnds ==
    \A m \in Msgs : []<>(consumer[m] \in Final) \/ <>[](phase = "exited")
=============================================================================
