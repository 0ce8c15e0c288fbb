----------------------------- MODULE PipelineProofs -----------------------------
(***************************************************************************)
(* Proofs about Pipeline, for any set of events and any values of the      *)
(* Writer's constants: what is proved of the Writer alone holds in the     *)
(* pipeline, the pipeline implements EventFlow, and an event is only lost  *)
(* for one of the causes of LossHasCause.                                  *)
(*                                                                         *)
(* W is the Writer with the facts that are proved about it.  It is the     *)
(* same instance of Writer as Sink, under another name.                    *)
(***************************************************************************)
EXTENDS Pipeline, TLAPS

W == INSTANCE WriterProofs WITH Msgs <- Events

LEMMA WAssumption == W!WriterAssumption
BY PipelineAssumption DEF Sink!WriterAssumption, W!WriterAssumption, KindOf,
   Sink!Kinds, W!Kinds

-----------------------------------------------------------------------------
(* The Writer of the pipeline is the Writer.                               *)

LEMMA SameInit == Sink!Init => W!Init
BY DEF Sink!Init, Sink!NoDelivery, Sink!Deliveries, Sink!MaxDelivered, Sink!Repository!Init,
       Sink!SaveCalls, W!Init, W!NoDelivery, W!Deliveries, W!MaxDelivered,
       W!Repository!Init, W!SaveCalls

LEMMA SameDeliver == ASSUME NEW e \in Events, Sink!Deliver(e) PROVE W!Deliver(e)
BY DEF Sink!Deliver, Sink!MayDeliver, Sink!ackVars, Sink!processVars, Sink!handlerVars,
       Sink!repoVars, W!Deliver, W!MayDeliver, W!ackVars, W!processVars, W!handlerVars,
       W!repoVars

LEMMA SameStep == Sink!Step => W!Step
BY DEF
   Sink!Step, Sink!AckWaitExpires, Sink!ServerReceives, Sink!DeleteConsumer, Sink!Callback,
   Sink!Handler, Sink!DatabaseStores, Sink!Shutdown, Sink!WaitHandlers,
   Sink!CloseConnection, Sink!ReturnFromRun, Sink!Exit, Sink!Crash, Sink!Restart,
   Sink!MaxDelivered, Sink!Deliveries, Sink!SaveCalls, Sink!EventOf, Sink!NoDelivery,
   Sink!serverVars, Sink!ackVars, Sink!processVars, Sink!queueVars, Sink!handlerVars,
   Sink!repoVars, Sink!Verdicts, Sink!LiveStates, Sink!Live, Sink!Alive, Sink!Connected,
   Sink!MayDeliver, Sink!Requeued, Sink!Outstanding, Sink!Send, Sink!Dispatch,
   Sink!PutBack, Sink!HandleMalformed, Sink!HandleSaturated, Sink!SlotFree,
   Sink!HandleSpawn, Sink!CallbackReturns, Sink!At, Sink!Return, Sink!Backoff,
   Sink!HandleInvalid, Sink!StartAttempt, Sink!LastAttempt, Sink!Saved,
   Sink!SaveSucceeds, Sink!SaveFails, Sink!Interrupted, Sink!BackoffExpires,
   Sink!Release, Sink!VerdictOf, Sink!Settle, Sink!ProcessEnds, Sink!FirstState,
   Sink!Repository!Start, Sink!Repository!Store, Sink!Repository!ReturnOk,
   Sink!Repository!ReturnError,
   W!Step, W!AckWaitExpires, W!ServerReceives, W!DeleteConsumer, W!Callback,
   W!Handler, W!DatabaseStores, W!Shutdown, W!WaitHandlers,
   W!CloseConnection, W!ReturnFromRun, W!Exit, W!Crash, W!Restart,
   W!MaxDelivered, W!Deliveries, W!SaveCalls, W!EventOf, W!NoDelivery,
   W!serverVars, W!ackVars, W!processVars, W!queueVars, W!handlerVars,
   W!repoVars, W!Verdicts, W!LiveStates, W!Live, W!Alive, W!Connected,
   W!MayDeliver, W!Requeued, W!Outstanding, W!Send, W!Dispatch,
   W!PutBack, W!HandleMalformed, W!HandleSaturated, W!SlotFree,
   W!HandleSpawn, W!CallbackReturns, W!At, W!Return, W!Backoff,
   W!HandleInvalid, W!StartAttempt, W!LastAttempt, W!Saved,
   W!SaveSucceeds, W!SaveFails, W!Interrupted, W!BackoffExpires,
   W!Release, W!VerdictOf, W!Settle, W!ProcessEnds, W!FirstState,
   W!Repository!Start, W!Repository!Store, W!Repository!ReturnOk,
   W!Repository!ReturnError

\* A step of the pipeline: the Daemon's or the Writer's.
LEMMA PipelineStep ==
    ASSUME [Next]_vars
    PROVE  \/ Source!Next /\ UNCHANGED writerVars
           \/ \E e \in persisted : e \in Events /\ W!Deliver(e) /\ UNCHANGED publisherVars
           \/ W!Step /\ UNCHANGED publisherVars
           \/ UNCHANGED vars
<1>1. ASSUME NEW e \in Events, Deliver(e)
      PROVE  e \in persisted /\ W!Deliver(e) /\ UNCHANGED publisherVars
  BY <1>1, SameDeliver DEF Deliver
<1>2. CASE Write
  BY <1>2, SameStep DEF Write
<1> QED BY <1>1, <1>2 DEF Next, Publish, Idle

LEMMA WriterVars == UNCHANGED writerVars => UNCHANGED W!vars
BY DEF writerVars, W!vars, W!serverVars, W!ackVars, W!processVars, W!queueVars,
       W!handlerVars, W!repoVars

\* A step of the pipeline is a step of the Writer, or leaves it alone.
LEMMA WriterStep == [Next]_vars => [W!Next]_(W!vars)
<1> SUFFICES ASSUME [Next]_vars PROVE [W!Next]_(W!vars)
  OBVIOUS
<1>1. CASE UNCHANGED writerVars
  BY <1>1, WriterVars
<1>2. CASE \E e \in persisted : e \in Events /\ W!Deliver(e)
  BY <1>2 DEF W!Next
<1>3. CASE W!Step
  BY <1>3 DEF W!Next
<1> QED BY <1>1, <1>2, <1>3, PipelineStep DEF vars

LEMMA WriterInv == W!IInv /\ [Next]_vars => W!IInv'
BY WriterStep, W!NextInv, WAssumption

\* What is proved of the Writer holds in the pipeline.
THEOREM WriterInvariance == SafeSpec => []W!IInv
<1>1. Init => W!IInv
  BY SameInit, W!InitInv, WAssumption DEF Init
<1> QED BY <1>1, WriterInv, PTL DEF SafeSpec

\* In the pipeline each port is kept by both of its sides: what is proved of the
\* Daemon below Publisher and of the worker pool below EventRepository holds here.
THEOREM PortsAreKept == SafeSpec => Source!Spec /\ W!Repository!SafeSpec
<1>1. Init => Source!Init /\ W!Repository!Init
  BY SameInit DEF Init, W!Init
<1>2. [Next]_vars => [Source!Next]_(Source!vars)
  <2>1. UNCHANGED publisherVars => UNCHANGED Source!vars
    BY DEF publisherVars, Source!vars
  <2> QED BY <2>1, PipelineStep DEF vars
<1>3. W!IInv /\ [Next]_vars => [W!Repository!Next]_(W!Repository!vars)
  <2>1. UNCHANGED W!vars => UNCHANGED W!Repository!vars
    BY DEF W!vars, W!repoVars, W!Repository!vars
  <2> QED BY <2>1, WriterStep, W!PortStep, WAssumption
<1> QED BY <1>1, <1>2, <1>3, WriterInvariance, PTL
        DEF SafeSpec, Source!Spec, W!Repository!SafeSpec

\* With nats.ManualAck(), an event that JetStream will not deliver again because
\* it was acknowledged would be in the table, whatever the Daemon does.
THEOREM AckedIsStored ==
    ASSUME ~AutoAck
    PROVE  SafeSpec => [](\A e \in Events : consumer[e] = "acked" => e \in rows)
<1>1. Init => W!AcksAreTrue
  BY SameInit DEF Init, W!Init, W!AcksAreTrue, W!AckAfterHandle, W!AckMeansStored
<1>2. W!IInv /\ W!AcksAreTrue /\ [Next]_vars => W!AcksAreTrue'
  BY WriterStep, W!AcksStep, WAssumption
<1>3. W!AcksAreTrue => \A e \in Events : consumer[e] = "acked" => e \in rows
  BY DEF W!AcksAreTrue, W!AckMeansStored
<1> QED BY <1>1, <1>2, <1>3, WriterInvariance, PTL DEF SafeSpec

-----------------------------------------------------------------------------
(* Why an event is lost.                                                   *)

\* An event that is through has a handler that has done its work, or was
\* killed, or has never had one.
LEMMA LossCause == W!IInv => LossHasCause
<1> SUFFICES ASSUME W!IInv, NEW e \in Events, Through(e),
                    e \notin rows, e \notin deadLetter, ~CutShort(e)
             PROVE  NeverHandled(e)
  BY DEF LossHasCause
<1> DEFINE N == 1..W!MaxDelivered
<1>1. /\ Sink!MaxDelivered = W!MaxDelivered
      /\ consumer[e] \in {"acked", "termed", "exhausted"}
      /\ \A n \in N : <<e, n>> \in W!Deliveries /\ <<e, n>> \notin W!Live
  BY DEF Through, Sink!Final, Sink!MaxDelivered, W!MaxDelivered, Sink!Live, W!Live,
         Sink!LiveStates, W!LiveStates, Sink!Deliveries, W!Deliveries
<1>2. \A n \in N : /\ handler[<<e, n>>] # "killed"
                   /\ verdict[<<e, n>>] = "nak" => ~(attempt[<<e, n>>] < MaxAttempts)
  BY <1>1 DEF CutShort
<1>3. KindOf[e] = "valid"
  BY DEF KindOf
<1>4. ASSUME NEW n \in N PROVE handler[<<e, n>>] = "none"
  <2> DEFINE d == <<e, n>>
  <2>1. d \in W!Deliveries /\ W!WorkOf(d) /\ d[1] = e
    BY <1>1 DEF W!IInv, W!Work
  <2>2. handler[d] \in {"none", "done"}
    BY <1>1, <1>2, <2>1 DEF W!IInv, W!TypeOK, W!Live, W!LiveStates
  <2>3. ASSUME handler[d] = "done" PROVE FALSE
    <3>1. verdict[d] \in {"ack", "nak", "term"}
      BY <2>1, <2>3 DEF W!WorkOf, W!Verdicts
    <3>2. verdict[d] # "ack" /\ verdict[d] # "term"
      BY <1>3, <2>1 DEF W!WorkOf
    <3>3. verdict[d] # "nak"
      BY <1>2, <2>1 DEF W!WorkOf
    <3> QED BY <3>1, <3>2, <3>3
  <2> QED BY <2>2, <2>3
<1>5. consumer[e] # "acked"
  BY <1>4 DEF W!IInv, W!Causes
<1>6. consumer[e] # "termed"
  BY <1>3 DEF W!IInv, W!Causes
<1> QED BY <1>1, <1>4, <1>5, <1>6 DEF NeverHandled

\* An event that the Daemon was told is persisted, and that no one will handle
\* again, is stored, or has a dead letter, or was cut short, or never had a
\* handler.
THEOREM LossesHaveCauses == SafeSpec => []LossHasCause
<1> QED BY LossCause, WriterInvariance, PTL

-----------------------------------------------------------------------------
(* The pipeline implements EventFlow.                                      *)

\* The Writer only knows of events of the stream.
Known ==
    /\ Source!TypeOK
    /\ Source!NilIsPersisted
    /\ \A e \in Events : consumer[e] # "ready" => e \in persisted
    /\ \A d \in W!Deliveries : handler[d] # "none" => d[1] \in persisted
    /\ \A d \in W!Deliveries, v \in W!Verdicts : <<d, v>> \in wire => d[1] \in persisted
    /\ \A i \in DOMAIN inbox : inbox[i][1] \in persisted
    /\ callback # W!NoDelivery => callback[1] \in persisted
    /\ rows \subseteq persisted

LEMMA KnownInit == Init => Known
BY DEF Init, Source!Init, Sink!Init, Sink!Repository!Init, Known, Source!TypeOK,
       Source!NilIsPersisted, Sink!NoDelivery, W!NoDelivery, Sink!Deliveries, W!Deliveries,
       Sink!MaxDelivered, W!MaxDelivered

\* What a step does to the set of the events that the stream holds.
LEMMA PersistedParts ==
    /\ persisted = Source!persisted
    /\ persisted' = Source!persisted'
    /\ stream' = stream => persisted' = persisted
    /\ Source!TypeOK =>
          /\ persisted \subseteq Events
          /\ \A e \in Events : Source!Persist(e) => persisted' = persisted \cup {e}
<1>1. /\ persisted = Source!persisted /\ persisted' = Source!persisted'
      /\ stream' = stream => persisted' = persisted
  BY DEF persisted, Source!persisted
<1>2. ASSUME Source!TypeOK
      PROVE  /\ persisted \subseteq Events
             /\ \A e \in Events : Source!Persist(e) => persisted' = persisted \cup {e}
  <2>1. stream \in Seq(Events)
    BY <1>2 DEF Source!TypeOK
  <2>2. ASSUME NEW e \in Events, Source!Persist(e)
        PROVE  persisted' = persisted \cup {e}
    <3>1. /\ stream' = Append(stream, e)
          /\ DOMAIN stream' = DOMAIN stream \cup {Len(stream) + 1}
          /\ stream'[Len(stream) + 1] = e
          /\ \A i \in DOMAIN stream : stream'[i] = stream[i]
      BY <2>1, <2>2 DEF Source!Persist
    <3> QED BY <3>1 DEF persisted, Source!persisted
  <2>3. persisted \subseteq Events
    BY <2>1 DEF persisted, Source!persisted
  <2> QED BY <2>2, <2>3
<1> QED BY <1>1, <1>2

\* A step of the Daemon.
LEMMA KnownPublish ==
    ASSUME Known, Source!Next, UNCHANGED writerVars
    PROVE  Known'
<1>1. PICK e \in Events : Source!Persist(e) \/ Source!ReturnNil(e) \/ Source!ReturnError(e)
  BY DEF Source!Next
<1>2. Source!TypeOK' /\ Source!NilIsPersisted' /\ persisted \subseteq persisted'
  BY PersistedParts, <1>1 DEF Known, Source!TypeOK, Source!NilIsPersisted, Source!Persist,
              Source!ReturnNil, Source!ReturnError, Source!Answered
<1> QED BY <1>2 DEF Known, writerVars

\* The new delivery is of an event of the stream.
LEMMA KnownDeliver ==
    ASSUME W!IInv, Known, NEW e \in Events, e \in persisted, W!Deliver(e),
           UNCHANGED publisherVars
    PROVE  Known'
<1> USE DEF W!Deliver, W!ackVars, W!handlerVars, W!repoVars, publisherVars
<1>1. Source!TypeOK' /\ Source!NilIsPersisted'
  BY PersistedParts DEF Known, Source!TypeOK, Source!NilIsPersisted
<1>2. \A x \in Events : consumer'[x] # "ready" => x \in persisted
  BY DEF Known, W!IInv, W!TypeOK
<1>3. \A i \in DOMAIN inbox' : inbox'[i][1] \in persisted
  <2>1. PICK d \in {<<e, delivered[e] + 1>>} : inbox' \in {inbox, Append(inbox, d)}
    OBVIOUS
  <2>2. inbox \in Seq(W!Deliveries) /\ d[1] \in persisted
    BY DEF W!IInv, W!TypeOK
  <2>3. CASE inbox' = Append(inbox, d)
    <3>1. \A i \in DOMAIN inbox' : (i \in DOMAIN inbox /\ inbox'[i] = inbox[i]) \/ inbox'[i] = d
      BY <2>2, <2>3
    <3> QED BY <2>2, <3>1 DEF Known
  <2> QED BY <2>1, <2>3 DEF Known
<1>4. persisted' = persisted
  BY PersistedParts
<1> QED BY <1>1, <1>2, <1>3, <1>4 DEF Known

\* The kinds of steps of the Writer: the consumer notes something about an
\* event that has not ended, the table grows, a new consumer starts, or
\* neither the consumer nor the table changes.
Notes ==
    \E e \in Events :
        /\ consumer[e] \notin Sink!Final
        /\ \E s \in W!ConsumerStates : consumer' = [consumer EXCEPT ![e] = s]
        /\ e \in persisted
        /\ UNCHANGED <<rows, handler, inbox, callback>> /\ wire' \subseteq wire
Grows ==
    /\ \E S \in SUBSET persisted : rows' = rows \cup S
    /\ UNCHANGED <<consumer, handler, inbox, callback, wire>>
Renews ==
    /\ consumer' = [e \in Events |-> "ready"]
    /\ UNCHANGED <<rows, handler, inbox, callback, wire>>
Works ==
    /\ UNCHANGED <<consumer, rows>>
    /\ \A i \in DOMAIN inbox' : inbox'[i][1] \in persisted
    /\ callback' # W!NoDelivery => callback'[1] \in persisted
    /\ \A d \in W!Deliveries :
          /\ handler'[d] # "none" => d[1] \in persisted
          /\ \A v \in W!Verdicts : <<d, v>> \in wire' => d[1] \in persisted

LEMMA KnownKinds ==
    ASSUME W!IInv, Known, Notes \/ Grows \/ Renews \/ Works, UNCHANGED publisherVars
    PROVE  Known'
<1>1. Source!TypeOK' /\ Source!NilIsPersisted' /\ persisted' = persisted
  BY PersistedParts DEF Known, Source!TypeOK, Source!NilIsPersisted, publisherVars
<1>2. CASE Notes
  BY <1>1, <1>2 DEF Known, Notes, W!IInv, W!TypeOK
<1>3. CASE Grows \/ Renews
  BY <1>1, <1>3 DEF Known, Grows, Renews
<1>4. CASE Works
  BY <1>1, <1>4 DEF Known, Works
<1> QED BY <1>2, <1>3, <1>4

LEMMA FlowInit == Init => Flow!Init
BY DEF Init, Source!Init, Sink!Init, Sink!Repository!Init, Flow!Init, persisted, Source!persisted

\* A kind of step of the Writer is a step of EventFlow, or none.
LEMMA FlowKinds ==
    ASSUME W!IInv, Known, Notes \/ Grows \/ Renews \/ Works, UNCHANGED publisherVars
    PROVE  [Flow!Next]_(Flow!vars)
<1> DEFINE told == {e \in Events : result[e] = "nil"}
           open == {e \in persisted : consumer[e] \notin Sink!Final}
<1>1. told' = told /\ persisted' = persisted
  BY PersistedParts DEF publisherVars
<1>2. CASE Notes
  <2>1. PICK e \in Events, s \in W!ConsumerStates :
           /\ consumer[e] \notin Sink!Final /\ e \in persisted /\ rows' = rows
           /\ consumer' = [consumer EXCEPT ![e] = s]
    BY <1>2 DEF Notes
  <2>2. persisted \subseteq Events
    BY PersistedParts DEF Known, Source!TypeOK
  <2>3. \A x \in persisted : consumer'[x] = IF x = e THEN s ELSE consumer[x]
    BY <2>1, <2>2 DEF W!IInv, W!TypeOK
  <2>4. CASE s \in Sink!Final
    <3>1. open' = open \ {e} /\ e \in open
      BY <1>1, <2>1, <2>3, <2>4 DEF Sink!Final
    <3>2. Flow!Close(e)
      BY <1>1, <2>1, <3>1 DEF Flow!Close
    <3> QED BY <3>2 DEF Flow!Next
  <2>5. CASE s \notin Sink!Final
    <3>1. open' = open
      BY <1>1, <2>1, <2>3, <2>5 DEF Sink!Final
    <3> QED BY <1>1, <2>1, <3>1 DEF Flow!vars
  <2> QED BY <2>4, <2>5
<1>3. CASE Grows
  <2>1. PICK S \in SUBSET persisted : rows' = rows \cup S
    BY <1>3 DEF Grows
  <2>2. open' = open
    BY <1>1, <1>3 DEF Grows, Sink!Final
  <2>3. Flow!Store(S) /\ S \in SUBSET Events
    BY PersistedParts, <1>1, <2>1, <2>2 DEF Flow!Store, Known, Source!TypeOK
  <2> QED BY <2>3 DEF Flow!Next
<1>4. CASE Renews
  <2>1. open' = persisted
    <3>1. \A e \in persisted : consumer'[e] \notin Sink!Final'
      BY PersistedParts, <1>4 DEF Renews, Sink!Final, Known, Source!TypeOK
    <3> QED BY <1>1, <3>1
  <2>2. Flow!Replay
    BY <1>1, <1>4, <2>1 DEF Flow!Replay, Renews
  <2> QED BY <2>2 DEF Flow!Next
<1>5. CASE Works
  <2>1. open' = open
    BY <1>1, <1>5 DEF Works, Sink!Final
  <2> QED BY <1>1, <1>5, <2>1 DEF Flow!vars, Works
<1> QED BY <1>2, <1>3, <1>4, <1>5

\* The steps of the callback.
LEMMA CallbackKinds ==
    ASSUME W!IInv, Known, W!Callback
    PROVE  Works
<1>1. ASSUME NEW d \in W!Deliveries, W!Dispatch(d)
      PROVE  /\ d[1] \in persisted /\ callback' = d
             /\ \A i \in DOMAIN inbox' : inbox'[i][1] \in persisted
             /\ UNCHANGED <<consumer, rows>>
  <2>1. inbox \in Seq(W!Deliveries) /\ inbox # <<>> /\ d = inbox[1] /\ inbox' = Tail(inbox)
    BY <1>1 DEF W!Dispatch, W!IInv, W!TypeOK
  <2>2. 1 \in DOMAIN inbox /\ \A i \in DOMAIN inbox' : i+1 \in DOMAIN inbox
                                                      /\ inbox'[i] = inbox[i+1]
    BY <2>1
  <2> QED BY <1>1, <2>1, <2>2 DEF Known, W!Dispatch, W!serverVars, W!repoVars
<1>2. ASSUME NEW d \in W!Deliveries, d[1] \in persisted, NEW v \in W!Verdicts, W!Send(d, v)
      PROVE  \A c \in W!Deliveries, w \in W!Verdicts : <<c, w>> \in wire' => c[1] \in persisted
  BY <1>2 DEF W!Send, W!ackVars, Known
<1>3. ASSUME NEW d \in W!Deliveries, W!HandleMalformed(d) \/ W!HandleSaturated(d)
      PROVE  Works
  <2>1. W!Dispatch(d) /\ W!Send(d, "nak") /\ handler' = handler /\ "nak" \in W!Verdicts
    BY <1>3 DEF W!HandleMalformed, W!HandleSaturated, W!PutBack, W!Verdicts
  <2> QED BY <1>1, <1>2, <2>1 DEF Works, Known
<1>4. ASSUME NEW d \in W!Deliveries, W!HandleSpawn(d)
      PROVE  Works
  <2>1. W!Dispatch(d) /\ wire' = wire
    BY <1>4 DEF W!HandleSpawn, W!ackVars
  <2>2. \A c \in W!Deliveries : c # d => handler'[c] = handler[c]
    BY <1>4 DEF W!HandleSpawn, W!IInv, W!TypeOK
  <2> QED BY <1>1, <2>1, <2>2 DEF Works, Known
<1>5. CASE W!CallbackReturns
  <2>1. callback \in W!Deliveries /\ callback[1] \in persisted /\ "ack" \in W!Verdicts
    BY <1>5 DEF W!CallbackReturns, W!IInv, W!TypeOK, Known, W!Verdicts
  <2>2. \A c \in W!Deliveries, w \in W!Verdicts : <<c, w>> \in wire' => c[1] \in persisted
    BY <1>2, <1>5, <2>1 DEF W!CallbackReturns, W!ackVars, Known
  <2> QED BY <1>5, <2>2
          DEF W!CallbackReturns, Works, Known, W!serverVars, W!handlerVars, W!repoVars
<1> QED BY <1>3, <1>4, <1>5 DEF W!Callback

\* The steps of a handler.
LEMMA HandlerKinds ==
    ASSUME W!IInv, Known, NEW d \in W!Deliveries, W!Handler(d)
    PROVE  Works
<1>1. /\ handler[d] \in W!LiveStates
      /\ \E h \in {"returned", "saving", "backoff", "done"} :
            handler' = [handler EXCEPT ![d] = h]
      /\ wire' = wire \/ W!Send(d, verdict[d])
      /\ UNCHANGED <<consumer, rows, inbox, callback>>
  <2> USE DEF W!At, W!LiveStates, W!serverVars, W!queueVars, W!ackVars, W!repoVars
  <2>1. CASE W!HandleInvalid(d) \/ W!BackoffExpires(d)
    BY <2>1 DEF W!HandleInvalid, W!BackoffExpires, W!Interrupted, W!Return
  <2>2. CASE W!StartAttempt(d)
    BY <2>2 DEF W!StartAttempt, W!Repository!Start
  <2>3. CASE W!SaveSucceeds(d)
    BY <2>3 DEF W!SaveSucceeds, W!Saved, W!Return, W!Repository!ReturnOk
  <2>4. CASE W!SaveFails(d)
    BY <2>4 DEF W!SaveFails, W!Return, W!Backoff, W!Repository!ReturnError
  <2>5. CASE W!Settle(d)
    BY <2>5 DEF W!Settle, W!VerdictOf
  <2> QED BY <2>1, <2>2, <2>3, <2>4, <2>5 DEF W!Handler
<1>2. d[1] \in persisted
  BY <1>1 DEF Known, W!LiveStates
<1>3. \A c \in W!Deliveries : c # d => handler'[c] = handler[c]
  BY <1>1 DEF W!IInv, W!TypeOK
<1>4. \A c \in W!Deliveries, v \in W!Verdicts : <<c, v>> \in wire' => c[1] \in persisted
  BY <1>1, <1>2 DEF W!Send, W!ackVars, Known
<1> QED BY <1>1, <1>2, <1>3, <1>4 DEF Works, Known

\* The steps of main and the ends of the process; a restart may renew the
\* consumer.
LEMMA MainKinds ==
    ASSUME W!IInv, Known,
           \/ W!Shutdown \/ W!WaitHandlers \/ W!CloseConnection \/ W!ReturnFromRun
           \/ W!DeleteConsumer \/ W!Exit \/ W!Crash \/ W!Restart
    PROVE  Works \/ Renews
<1> USE DEF W!serverVars, W!ackVars, W!queueVars, W!handlerVars, W!repoVars
<1>1. CASE W!Exit \/ W!Crash
  <2>1. W!ProcessEnds
    BY <1>1 DEF W!Exit, W!Crash
  <2>2. \A d \in W!Deliveries : handler'[d] # "none" => handler[d] # "none"
    BY <2>1 DEF W!ProcessEnds, W!Live, W!LiveStates
  <2> QED BY <2>1, <2>2 DEF W!ProcessEnds, Works, Known
<1>2. CASE W!Restart
  BY <1>2 DEF W!Restart, W!FirstState, Works, Renews, Known
<1>3. CASE W!Shutdown \/ W!WaitHandlers \/ W!CloseConnection \/ W!ReturnFromRun
           \/ W!DeleteConsumer
  BY <1>3 DEF W!Shutdown, W!WaitHandlers, W!CloseConnection, W!ReturnFromRun,
              W!DeleteConsumer, Works, Known
<1> QED BY <1>1, <1>2, <1>3

\* The steps of the server: what it notes is of an event that it has delivered.
LEMMA ServerKinds ==
    ASSUME W!IInv, Known,
           \/ \E m \in Events : W!AckWaitExpires(m)
           \/ \E d \in W!Deliveries, v \in W!Verdicts : W!ServerReceives(d, v)
    PROVE  Notes \/ Works
<1> USE DEF W!queueVars, W!handlerVars, W!repoVars, W!ackVars
<1>1. ASSUME NEW m \in Events, W!AckWaitExpires(m) PROVE Notes
  <2>1. consumer[m] = "pending" /\ m \in persisted
    BY <1>1 DEF W!AckWaitExpires, Known
  <2>2. W!Requeued(m) \in W!ConsumerStates
    BY DEF W!Requeued, W!ConsumerStates, W!Final
  <2> QED BY <1>1, <2>1, <2>2 DEF W!AckWaitExpires, Notes, Sink!Final
<1>2. ASSUME NEW d \in W!Deliveries, NEW v \in W!Verdicts, W!ServerReceives(d, v)
      PROVE  Notes \/ Works
  <2> DEFINE m == d[1]
             o == W!Outstanding(m)
             t == CASE o /\ v = "ack" -> "acked"
                    [] o /\ v = "term" -> "termed"
                    [] o /\ v = "nak" /\ consumer[m] = "pending" -> W!Requeued(m)
                    [] OTHER -> consumer[m]
  <2>1. /\ consumer' = [consumer EXCEPT ![m] = t]
        /\ m \in persisted /\ m \in Events
        /\ wire' \subseteq wire
        /\ UNCHANGED <<rows, handler, inbox, callback>>
    BY <1>2, W!DeliveryParts, WAssumption DEF W!ServerReceives, Known
  <2>2. t \in W!ConsumerStates
    BY <2>1 DEF W!Requeued, W!ConsumerStates, W!Final, W!IInv, W!TypeOK
  <2>3. CASE consumer[m] \notin Sink!Final
    BY <2>1, <2>2, <2>3 DEF Notes
  <2>4. CASE consumer[m] \in Sink!Final
    <3>1. t = consumer[m]
      BY <2>4 DEF W!Outstanding, Sink!Final
    <3>2. consumer' = consumer
      BY <2>1, <3>1 DEF W!IInv, W!TypeOK
    <3> QED BY <2>1, <3>2 DEF Works, Known
  <2> QED BY <2>3, <2>4
<1> QED BY <1>1, <1>2

\* The database stores points of calls, and a call is made by a handler.
LEMMA StoreKinds ==
    ASSUME W!IInv, Known, W!DatabaseStores
    PROVE  Grows
<1>1. PICK S \in SUBSET {W!EventOf[c] : c \in {x \in W!SaveCalls : call[x] # "idle"}} :
         rows' = rows \cup S
  BY DEF W!DatabaseStores, W!Repository!Store
<1>2. ASSUME NEW e \in S PROVE e \in persisted
  <2>1. PICK c \in W!SaveCalls : call[c] # "idle" /\ e = W!EventOf[c]
    OBVIOUS
  <2>2. PICK d \in W!Deliveries, k \in 1..MaxAttempts : c = <<d, k>> /\ e = d[1]
    BY <2>1 DEF W!SaveCalls, W!EventOf
  <2>3. W!WorkOf(d) /\ call[<<d, k>>] # "idle" /\ k > 0
    BY <2>1, <2>2 DEF W!IInv, W!Work
  <2>4. handler[d] # "none"
    BY <2>3 DEF W!WorkOf
  <2> QED BY <2>2, <2>4 DEF Known
<1> QED BY <1>1, <1>2 DEF Grows, W!DatabaseStores, W!serverVars, W!ackVars, W!queueVars,
                          W!handlerVars

LEMMA StepKinds ==
    ASSUME W!IInv, Known, W!Step
    PROVE  Notes \/ Grows \/ Renews \/ Works
BY CallbackKinds, HandlerKinds, MainKinds, ServerKinds, StoreKinds DEF W!Step

LEMMA KnownInv == W!IInv /\ Known /\ [Next]_vars => Known'
<1> SUFFICES ASSUME W!IInv, Known, [Next]_vars PROVE Known'
  OBVIOUS
<1>1. CASE UNCHANGED vars
  BY PersistedParts, <1>1 DEF vars, publisherVars, writerVars, Known, Source!TypeOK, Source!NilIsPersisted
<1>2. ASSUME NEW e \in Events, e \in persisted, W!Deliver(e), UNCHANGED publisherVars
      PROVE  Known'
  BY <1>2, KnownDeliver
<1> QED BY <1>1, <1>2, PipelineStep, KnownPublish, StepKinds, KnownKinds

\* What the Daemon does, EventFlow does.
LEMMA FlowPublish ==
    ASSUME Known, Source!Next, UNCHANGED writerVars
    PROVE  [Flow!Next]_(Flow!vars)
<1> DEFINE told == {e \in Events : result[e] = "nil"}
           open == {e \in persisted : consumer[e] \notin Sink!Final}
<1> USE DEF writerVars, Sink!Final
<1>1. PICK e \in Events : Source!Persist(e) \/ Source!ReturnNil(e) \/ Source!ReturnError(e)
  BY DEF Source!Next
<1>2. CASE Source!Persist(e)
  <2>1. consumer[e] = "ready" /\ e \notin persisted
    BY PersistedParts, <1>2 DEF Known, Source!Persist
  <2>2. persisted' = persisted \cup {e} /\ told' = told
    BY PersistedParts, <1>2 DEF Source!Persist, Known
  <2>3. open' = open \cup {e}
    BY <2>1, <2>2
  <2>4. Flow!Persist(e)
    BY <2>1, <2>2, <2>3 DEF Flow!Persist
  <2> QED BY <2>4 DEF Flow!Next
<1>3. CASE Source!ReturnNil(e)
  <2>1. open' = open /\ e \in persisted
    BY PersistedParts, <1>3 DEF Source!ReturnNil, Source!Answered
  <2>2. told' = told \cup {e}
    BY <1>3 DEF Source!ReturnNil, Source!Answered, Known, Source!TypeOK
  <2>3. Flow!Tell(e)
    BY PersistedParts, <1>3, <2>1, <2>2 DEF Source!ReturnNil, Flow!Tell
  <2> QED BY <2>3 DEF Flow!Next
<1>4. CASE Source!ReturnError(e)
  <2>1. open' = open /\ told' = told
    BY PersistedParts, <1>4 DEF Source!ReturnError, Known, Source!TypeOK
  <2> QED BY PersistedParts, <1>4, <2>1 DEF Source!ReturnError, Flow!vars
<1> QED BY <1>1, <1>2, <1>3, <1>4

LEMMA FlowStep == W!IInv /\ Known /\ [Next]_vars => [Flow!Next]_(Flow!vars)
<1> SUFFICES ASSUME W!IInv, Known, [Next]_vars PROVE [Flow!Next]_(Flow!vars)
  OBVIOUS
<1> DEFINE told == {e \in Events : result[e] = "nil"}
           open == {e \in persisted : consumer[e] \notin Sink!Final}
<1>1. CASE UNCHANGED vars
  <2>1. told' = told /\ open' = open
    BY PersistedParts, <1>1 DEF vars, publisherVars, writerVars, Sink!Final
  <2> QED BY PersistedParts, <1>1, <2>1 DEF vars, publisherVars, writerVars, Flow!vars
<1>2. ASSUME NEW e \in Events, e \in persisted, W!Deliver(e), UNCHANGED publisherVars
      PROVE  [Flow!Next]_(Flow!vars)
  <2>1. \A x \in Events : consumer'[x] \in Sink!Final <=> consumer[x] \in Sink!Final
    BY <1>2 DEF W!Deliver, W!IInv, W!TypeOK, Sink!Final
  <2>2. told' = told /\ open' = open
    BY PersistedParts, <1>2, <2>1 DEF publisherVars, Known, Source!TypeOK, Sink!Final
  <2> QED BY PersistedParts, <1>2, <2>2 DEF publisherVars, W!Deliver, W!repoVars, Flow!vars
<1> QED BY <1>1, <1>2, PipelineStep, FlowPublish, StepKinds, FlowKinds

\* What the Daemon is told, what the stream holds, what JetStream still has to
\* deliver and what the table stores: nothing that was taken in is taken back,
\* and only all events at once are ever opened again.
THEOREM PipelineImplementsFlow == SafeSpec => ImplementsEventFlow
<1>1. Init => Flow!Init
  BY FlowInit
<1>2. W!IInv /\ Known /\ [Next]_vars => [Flow!Next]_(Flow!vars)
  BY FlowStep
<1> QED BY <1>1, <1>2, WriterInvariance, KnownInit, KnownInv, PTL
        DEF SafeSpec, ImplementsEventFlow, Flow!Spec
=============================================================================
