------------------------------- MODULE StartUp -------------------------------
(***************************************************************************)
(* What the replicas of the Daemon and of the Writer find, and make, when  *)
(* they start:                                                             *)
(*   - NewNATSPublisher: the stream;                                       *)
(*   - NewInfluxRepository (ensureDatabase, verifyConnection): the         *)
(*     database;                                                           *)
(*   - NewNATSSubscriber: the durable push consumer of the stream;         *)
(*   - external: the two servers, js.Subscribe and the subscription's      *)
(*     Drain of nats.go, restart: unless-stopped.                          *)
(*                                                                         *)
(* Each request to a server is an action: other replicas act between the   *)
(* check and what is done upon it.  A replica that gives up or crashes is  *)
(* started again; one that somebody has stopped only if somebody starts    *)
(* it.  What the services do once they run is in Daemon and in Writer.     *)
(***************************************************************************)
EXTENDS Naturals

CONSTANTS
    Daemons,      \* replicas of the Daemon, all with the same configuration
    Writers,      \* replicas of the Writer, all with the same ConsumerName
    MaxFailures,  \* bound on the requests that fail
    MaxStops      \* bound on the crashes and orderly stops of all replicas

ASSUME StartUpAssumption == MaxFailures \in Nat /\ MaxStops \in Nat

VARIABLES
    stream,    \* the stream exists, on the server and in its volume
    database,  \* the database exists
    consumer,  \* the subject the consumer delivers to, 0 without a consumer
    subjects,  \* how many delivery subjects have been made
    interest,  \* <<w, s>>: the server knows of a subscription of w to s
    daemon,    \* daemon[d]: where the process of d is
    writer,    \* writer[w]: where the process of w is
    target,    \* target[w]: the subject w subscribes to, 0 before
    creator,   \* the Writers whose library takes the consumer for its own
    failures,  \* how many requests have failed
    stops      \* how many replicas have crashed or been stopped

servers  == <<stream, database, consumer, subjects, interest>>
replicas == <<daemon, writer, target, creator>>
bounds   == <<failures, stops>>
vars == <<servers, replicas, bounds>>

\* The next request, or what the process has come to.  "again" is the lookup
\* after another replica has made the consumer first.  "down" waits for the
\* restart, "stopped" for somebody to start the container.
Ended == {"down", "stopped"}
DaemonStates == Ended \cup {"info", "add", "running"}
WriterStarts == {"list", "create", "verify", "lookup", "add", "again", "attach"}
WriterStates == WriterStarts \cup Ended \cup {"running"}

Init ==
    /\ stream = FALSE
    /\ database = FALSE
    /\ consumer = 0
    /\ subjects = 0
    /\ interest = {}
    /\ daemon = [d \in Daemons |-> "down"]
    /\ writer = [w \in Writers |-> "down"]
    /\ target = [w \in Writers |-> 0]
    /\ creator = {}
    /\ failures = 0
    /\ stops = 0

\* PushBound: somebody is subscribed to what the consumer delivers.
Bound == \E w \in Writers : <<w, consumer>> \in interest

WriterTo(w, state) == writer' = [writer EXCEPT ![w] = state]
DaemonTo(d, state) == daemon' = [daemon EXCEPT ![d] = state]

\* A request fails: it is refused, times out, or its answer is lost.
RequestFails == failures < MaxFailures /\ failures' = failures + 1

-----------------------------------------------------------------------------
(* The Daemon.                                                             *)

\* main up to the connection, without which it returns.
StartDaemon(d) ==
    /\ daemon[d] \in Ended
    /\ DaemonTo(d, "info")
    /\ UNCHANGED <<servers, writer, target, creator, bounds>>

\* Any error of StreamInfo, not only that there is none, leads to AddStream.
StreamInfo(d) ==
    /\ daemon[d] = "info"
    /\ \/ /\ DaemonTo(d, IF stream THEN "running" ELSE "add")
          /\ UNCHANGED failures
       \/ DaemonTo(d, "add") /\ RequestFails
    /\ UNCHANGED <<servers, writer, target, creator, stops>>

\* Mutated form: an error of AddStream is not returned.
AddStreamIgnored(d) ==
    /\ daemon[d] = "add"
    /\ \/ stream' = TRUE /\ UNCHANGED failures
       \/ stream' \in {stream, TRUE} /\ RequestFails
    /\ DaemonTo(d, "running")
    /\ UNCHANGED <<database, consumer, subjects, interest, writer, target, creator, stops>>

\* The same configuration again is no error to the server.
AddStream(d) ==
    /\ daemon[d] = "add"
    /\ \/ /\ stream' = TRUE
          /\ DaemonTo(d, "running")
          /\ UNCHANGED failures
       \/ /\ stream' \in {stream, TRUE}
          /\ DaemonTo(d, "down")
          /\ RequestFails
    /\ UNCHANGED <<database, consumer, subjects, interest, writer, target, creator, stops>>

\* The process crashes, or the container is stopped.
DaemonEnds(d) ==
    /\ daemon[d] # "stopped"
    /\ stops < MaxStops
    /\ stops' = stops + 1
    /\ \/ daemon[d] # "down" /\ DaemonTo(d, "down")
       \/ DaemonTo(d, "stopped")
    /\ UNCHANGED <<servers, writer, target, creator, failures>>

-----------------------------------------------------------------------------
(* The Writer: NewInfluxRepository.                                        *)

\* main up to NewInfluxRepository, which starts the pool.
StartWriter(w) ==
    /\ writer[w] \in Ended
    /\ WriterTo(w, "list")
    /\ UNCHANGED <<servers, daemon, target, creator, bounds>>

\* Mutated form: the database is left for verifyConnection to find missing.
ListDatabasesOnly(w) ==
    /\ writer[w] = "list"
    /\ WriterTo(w, "verify")
    /\ UNCHANGED <<servers, daemon, target, creator, bounds>>

ListDatabases(w) ==
    /\ writer[w] = "list"
    /\ WriterTo(w, IF database THEN "verify" ELSE "create")
    /\ UNCHANGED <<servers, daemon, target, creator, bounds>>

\* Mutated form: 409 Conflict is an error like any other.
CreateDatabaseConflict(w) ==
    /\ writer[w] = "create"
    /\ database' = TRUE
    /\ WriterTo(w, IF database THEN "down" ELSE "verify")
    /\ UNCHANGED <<stream, consumer, subjects, interest, daemon, target, creator, bounds>>

\* 200, 201, or 409 when another replica was faster.
CreateDatabase(w) ==
    /\ writer[w] = "create"
    /\ database' = TRUE
    /\ WriterTo(w, "verify")
    /\ UNCHANGED <<stream, consumer, subjects, interest, daemon, target, creator, bounds>>

\* Rows or no table yet, and also no database, is good; the connection to
\* NATS is attempted in the background.
VerifyConnection(w) ==
    /\ writer[w] = "verify"
    /\ WriterTo(w, "lookup")
    /\ UNCHANGED <<servers, daemon, target, creator, bounds>>

-----------------------------------------------------------------------------
(* The Writer: js.Subscribe, durable, explicit, bound to the stream.       *)

\* The process ends, and its subscription with it.
EndsIn(w, state) ==
    /\ WriterTo(w, state)
    /\ target' = [target EXCEPT ![w] = 0]
    /\ creator' = creator \ {w}

\* The replica gives up; the pool and the connection are closed.
Exits(w) == EndsIn(w, "down")

\* The library looks for the consumer.  It refuses to share one that is bound:
\* js.Subscribe names no queue group.
LookUp(w) ==
    /\ writer[w] \in {"lookup", "again"}
    /\ \/ /\ ~stream \/ Bound \/ (writer[w] = "again" /\ consumer = 0)
          /\ Exits(w)
       \/ /\ stream /\ consumer = 0 /\ writer[w] = "lookup"
          /\ WriterTo(w, "add")
          /\ UNCHANGED <<target, creator>>
       \/ /\ stream /\ consumer # 0 /\ ~Bound
          /\ WriterTo(w, "attach")
          /\ target' = [target EXCEPT ![w] = consumer]
          /\ UNCHANGED creator
    /\ UNCHANGED <<servers, daemon, bounds>>

\* The server makes the consumer with the fresh subject of w, or gives it to
\* w although it was made meanwhile, if nobody listens.
MakeConsumer ==
    /\ consumer = 0 \/ ~Bound
    /\ subjects' = subjects + 1
    /\ consumer' = subjects + 1

\* The library subscribes first, so that w is bound at once.
AddConsumer(w) ==
    /\ writer[w] = "add"
    /\ \/ /\ MakeConsumer
          /\ target' = [target EXCEPT ![w] = subjects + 1]
          /\ interest' = interest \cup {<<w, subjects + 1>>}
          /\ creator' = creator \cup {w}
          /\ WriterTo(w, "running")
       \/ /\ consumer # 0
          /\ WriterTo(w, "again")
          /\ UNCHANGED <<consumer, subjects, interest, target, creator>>
    /\ UNCHANGED <<stream, database, daemon, bounds>>

\* The subscription to the subject that the lookup has told.
Attach(w) ==
    /\ writer[w] = "attach"
    /\ interest' = interest \cup {<<w, target[w]>>}
    /\ WriterTo(w, "running")
    /\ UNCHANGED <<stream, database, consumer, subjects, daemon, target, creator, bounds>>

\* A request of the start fails.  It may have done its work all the same.
StartFails(w) ==
    /\ writer[w] \in WriterStarts
    /\ RequestFails
    /\ Exits(w)
    /\ database' \in {database, database \/ writer[w] = "create"}
    /\ \/ writer[w] = "add" /\ MakeConsumer
       \/ UNCHANGED <<consumer, subjects>>
    /\ UNCHANGED <<stream, interest, daemon, stops>>

-----------------------------------------------------------------------------
(* The end of a Writer.                                                    *)

\* Mutated form: what the library knows of its consumer outlives the process.
StopWriterKeeps(w) ==
    /\ writer[w] = "running"
    /\ stops < MaxStops
    /\ stops' = stops + 1
    /\ WriterTo(w, "stopped")
    /\ target' = [target EXCEPT ![w] = 0]
    /\ interest' = interest \ {<<w, target[w]>>}
    /\ UNCHANGED <<stream, database, consumer, subjects, daemon, creator, failures>>

\* An orderly stop.  Draining a subscription for which the library has made
\* the consumer deletes the consumer, unless the request is lost.
StopWriter(w) ==
    /\ writer[w] = "running"
    /\ stops < MaxStops
    /\ stops' = stops + 1
    /\ EndsIn(w, "stopped")
    /\ interest' = interest \ {<<w, target[w]>>}
    /\ consumer' \in {consumer, IF w \in creator THEN 0 ELSE consumer}
    /\ UNCHANGED <<stream, database, subjects, daemon, failures>>

\* A crash, or a stop that ends in a kill or finds no subscription to drain:
\* the server has yet to notice.
CrashWriter(w) ==
    /\ writer[w] # "stopped"
    /\ stops < MaxStops
    /\ stops' = stops + 1
    /\ \/ writer[w] # "down" /\ Exits(w)
       \/ EndsIn(w, "stopped")
    /\ UNCHANGED <<servers, daemon, failures>>

\* The server drops the subscription of a connection that is gone.
Noticed(w, s) ==
    /\ <<w, s>> \in interest
    /\ ~(writer[w] = "running" /\ target[w] = s)
    /\ interest' = interest \ {<<w, s>>}
    /\ UNCHANGED <<stream, database, consumer, subjects, replicas, bounds>>

-----------------------------------------------------------------------------
DaemonStarts(d) == StartDaemon(d) \/ StreamInfo(d) \/ AddStream(d)

WriterStep(w) ==
    \/ StartWriter(w) \/ ListDatabases(w) \/ CreateDatabase(w) \/ VerifyConnection(w)
    \/ LookUp(w) \/ AddConsumer(w) \/ Attach(w)

\* All replicas run and none is going to end: the start is over.
Idle ==
    /\ \A d \in Daemons : daemon[d] = "running"
    /\ \A w \in Writers : writer[w] = "running"
    /\ UNCHANGED vars

Next ==
    \/ \E d \in Daemons : DaemonStarts(d) \/ DaemonEnds(d)
    \/ \E w \in Writers : WriterStep(w) \/ StartFails(w) \/ StopWriter(w) \/ CrashWriter(w)
    \/ \E w \in Writers, s \in 1..subjects : Noticed(w, s)
    \/ Idle

\* Processes go on with their start, and are started again unless stopped; the
\* server notices a connection that is gone.
Fairness ==
    /\ \A d \in Daemons : WF_vars(daemon[d] # "stopped" /\ DaemonStarts(d))
    /\ \A w \in Writers : WF_vars(writer[w] # "stopped" /\ WriterStep(w))
    /\ \A w \in Writers : WF_vars(\E s \in 1..subjects : Noticed(w, s))

SafeSpec == Init /\ [][Next]_vars
Spec == SafeSpec /\ Fairness

-----------------------------------------------------------------------------
(* Properties.                                                             *)

TypeOK ==
    /\ stream \in BOOLEAN
    /\ database \in BOOLEAN
    /\ subjects \in Nat
    /\ consumer \in 0..subjects
    /\ interest \subseteq Writers \X (1..subjects)
    /\ daemon \in [Daemons -> DaemonStates]
    /\ writer \in [Writers -> WriterStates]
    /\ target \in [Writers -> 0..subjects]
    /\ \A w \in Writers : target[w] # 0 <=> writer[w] \in {"attach", "running"}
    /\ creator \subseteq {w \in Writers : writer[w] = "running"}
    /\ failures \in 0..MaxFailures
    /\ stops \in 0..MaxStops

\* A Writer that runs has a database to write to and a stream to read from,
\* although verifyConnection lets a missing database pass, nothing but a
\* Daemon makes the stream, and all of them start at once.
StoresExist == \A w \in Writers : writer[w] = "running" => database /\ stream

Excused == failures' # failures \/ stops' # stops

FailsForCause ==
    /\ \A d \in Daemons : daemon[d] \notin Ended /\ daemon'[d] \in Ended => Excused
    /\ \A w \in Writers :
          writer[w] \in WriterStarts /\ writer'[w] \in Ended =>
              Excused \/ ~stream \/ Bound \/ writer[w] = "again"

\* No replica gives up its start because another one was faster with the
\* stream or the database: it does for a request that fails, for the stream
\* that no Daemon has made yet, or for a consumer that is another one's.
StartFailsForCause == [][FailsForCause]_vars

SomeWriterIsFed == \E w \in Writers : writer[w] = "running" /\ consumer = target[w]

\* Somebody has stopped a Writer, and the others are through with their start.
WriterWithdrawn ==
    /\ \E w \in Writers : writer[w] = "stopped"
    /\ \A w \in Writers : writer[w] \in {"running", "stopped"}

NoStreamToCome == ~stream /\ \A d \in Daemons : daemon[d] = "stopped"

\* In whatever order the services come up, and whatever they leave behind when
\* they fail: in the end every Daemon that is not stopped runs, and some Writer
\* is subscribed to what the consumer delivers to, although replicas exclude
\* one another and one that stops may delete the consumer of another.  That
\* may stay so if the Writer is not started again, which nobody but an operator
\* does; the Writers that start come through all the same.
ServicesComeUp ==
    /\ \A d \in Daemons : <>[](daemon[d] \in {"running", "stopped"})
    /\ <>[](SomeWriterIsFed \/ WriterWithdrawn \/ NoStreamToCome)

\* The other reading, which the code does not keep: as long as a Writer is left
\* that nobody has stopped, one is fed.
RemainingIsFed ==
    <>[](SomeWriterIsFed \/ NoStreamToCome \/ \A w \in Writers : writer[w] = "stopped")

\* What a Writer that runs is subscribed to is what the consumer delivers to.
\* Holds for a single Writer.
RunningIsFed == \A w \in Writers : writer[w] = "running" => consumer = target[w]

\* "Deploy N replicas sharing the same WRITER_CONSUMER_NAME. JetStream
\* load-balances messages across all instances" (README, Horizontal Scaling).
EveryReplicaRuns == \A w \in Writers : <>[](writer[w] = "running")

\* "each message is delivered to exactly one writer" (README, Horizontal
\* Scaling): no two Writers that run listen to what the consumer delivers.
OneIsFed ==
    \A v, w \in Writers :
        /\ writer[v] = "running" /\ target[v] = consumer
        /\ writer[w] = "running" /\ target[w] = consumer
        => v = w

\* "durable consumer writer-consumer survives restarts" (README, data flow).
DurableSurvives == [][consumer # 0 => consumer' # 0]_vars
=============================================================================
