------------------------------ MODULE WriterProofs ------------------------------
(***************************************************************************)
(* Proofs about Writer, for any number of messages, deliveries, slots and  *)
(* attempts, with and without ManualAck, and any number of crashes, stops  *)
(* and consumers: the inductive invariant IInv and the safety properties   *)
(* it implies.                                                             *)
(***************************************************************************)
EXTENDS Writer, FiniteSetTheorems, TLAPS

\* The consumers made so far have delivered m this often, or less.  The name
\* of a deleted consumer may be taken again.
Bounds ==
    /\ \A m \in Msgs : delivered[m] <= made * MaxDeliver
    /\ \A m \in Msgs : consumer[m] = "exhausted" => delivered[m] >= MaxDeliver
    /\ durable = "deleted" => made < MaxConsumers

\* The delivery d has taken place.
Sent(d) == d[2] <= delivered[d[1]]

Waiting == {inbox[i] : i \in DOMAIN inbox}

\* No delivery is queued twice, none that has a handler is queued, and each
\* handler has its delivery.
Queue ==
    /\ \A i, j \in DOMAIN inbox : inbox[i] = inbox[j] => i = j
    /\ \A d \in Waiting : Sent(d) /\ handler[d] = "none"
    /\ \A d \in Deliveries : handler[d] # "none" => Sent(d)

\* What is on the wire, or has arrived, has its cause in a handler.  A callback
\* has put its message back, so that the acknowledgement of the library is
\* refused, or has started a handler.
Causes ==
    /\ \A d \in Deliveries : <<d, "ack">> \in wire => handler[d] # "none"
    /\ \A d \in Deliveries : <<d, "term">> \in wire => KindOf[d[1]] = "invalid"
    /\ callback # NoDelivery => callback \in settled \/ handler[callback] # "none"
    /\ \A m \in Msgs : consumer[m] = "acked" =>
          \E n \in 1..MaxDelivered : handler[<<m, n>>] # "none"
    /\ \A m \in Msgs : consumer[m] = "termed" => KindOf[m] = "invalid"

\* Handle has made the calls of Save it has counted, one after the other, and
\* what it has returned is true.
WorkOf(d) ==
    /\ handler[d] \in {"none", "started"} => attempt[d] = 0
    /\ handler[d] \in {"saving", "backoff"} => attempt[d] \in 1..MaxAttempts
    /\ handler[d] = "backoff" => attempt[d] < MaxAttempts /\ call[<<d, attempt[d]>>] = "error"
    /\ handler[d] \in {"none", "started", "saving", "backoff"} => verdict[d] = "none"
    /\ handler[d] \in {"returned", "done"} => verdict[d] \in Verdicts
    /\ attempt[d] # 0 => KindOf[d[1]] = "valid"
    /\ verdict[d] = "term" => KindOf[d[1]] = "invalid"
    /\ verdict[d] = "ack" => d[1] \in rows
    /\ verdict[d] = "nak" => attempt[d] < MaxAttempts \/ d[1] \in deadLetter
    /\ \A k \in 1..MaxAttempts :
          /\ k > attempt[d] => call[<<d, k>>] = "idle"
          /\ k < attempt[d] => call[<<d, k>>] = "error"

Work == \A d \in Deliveries : WorkOf(d)

Slots == IsFiniteSet(Live) /\ sem = Cardinality(Live)

OnlyValid == \A m \in rows : KindOf[m] = "valid"

IInv ==
    /\ TypeOK
    /\ Bounds
    /\ Queue
    /\ Causes
    /\ Work
    /\ Slots
    /\ OnlyValid
    /\ DeadLetterIsEarned

-----------------------------------------------------------------------------
(* Numbers, deliveries and queues.                                         *)

\* Each consumer adds MaxDeliver deliveries.
LEMMA Product ==
    ASSUME NEW k \in Nat \ {0}
    PROVE  /\ k * MaxDeliver \in Nat
           /\ k * MaxDeliver >= MaxDeliver
           /\ (k + 1) * MaxDeliver = k * MaxDeliver + MaxDeliver
<1>1. MaxDeliver \in Nat \ {0}
  BY WriterAssumption
<1> HIDE DEF WriterAssumption
<1> QED BY <1>1

LEMMA ProductBound ==
    ASSUME NEW k \in 1..MaxConsumers
    PROVE  k * MaxDeliver <= MaxDelivered /\ MaxDelivered \in Nat
<1>1. MaxDeliver \in Nat /\ MaxConsumers \in Nat /\ k \in Nat /\ k <= MaxConsumers
  BY WriterAssumption
<1>2. k * MaxDeliver <= MaxConsumers * MaxDeliver
  BY <1>1
<1>3. MaxDeliver * MaxConsumers = MaxConsumers * MaxDeliver
  BY <1>1
<1>4. MaxDeliver * MaxConsumers \in Nat
  BY <1>1
<1> QED BY <1>2, <1>3, <1>4 DEF MaxDelivered

LEMMA DeliveryParts ==
    ASSUME NEW d \in Deliveries
    PROVE  d[1] \in Msgs /\ d[2] \in 1..MaxDelivered /\ d = <<d[1], d[2]>>
BY DEF Deliveries

LEMMA NoDeliveryIsNone == NoDelivery \notin Deliveries
BY DEF NoDelivery, Deliveries

\* Assigning to one call leaves the others.
LEMMA CallParts ==
    ASSUME call \in [SaveCalls -> {"idle", "saving", "ok", "error"}],
           NEW d \in Deliveries, NEW j \in 1..MaxAttempts,
           NEW v \in {"idle", "saving", "ok", "error"},
           call' = [call EXCEPT ![<<d, j>>] = v]
    PROVE  /\ call' \in [SaveCalls -> {"idle", "saving", "ok", "error"}]
           /\ call'[<<d, j>>] = v
           /\ \A c \in Deliveries, k \in 1..MaxAttempts :
                 c # d \/ k # j => call'[<<c, k>>] = call[<<c, k>>]
<1>1. \A c \in Deliveries, k \in 1..MaxAttempts : <<c, k>> \in SaveCalls
  BY DEF SaveCalls
<1>2. \A c \in Deliveries, k \in 1..MaxAttempts :
         c # d \/ k # j => <<c, k>> # <<d, j>>
  OBVIOUS
<1> QED BY <1>1, <1>2

\* The queue grows at its end,
LEMMA AppendParts ==
    ASSUME NEW S, NEW s \in Seq(S), NEW e \in S
    PROVE  /\ Append(s, e) \in Seq(S)
           /\ DOMAIN s = 1..Len(s) /\ Len(s) \in Nat
           /\ DOMAIN Append(s, e) = 1..Len(s)+1
           /\ \A i \in 1..Len(s) : Append(s, e)[i] = s[i]
           /\ Append(s, e)[Len(s)+1] = e
OBVIOUS

\* and is served at its front.
LEMMA TailParts ==
    ASSUME NEW S, NEW s \in Seq(S), s # <<>>
    PROVE  /\ Tail(s) \in Seq(S)
           /\ Len(s) \in Nat \ {0} /\ DOMAIN s = 1..Len(s)
           /\ Head(s) = s[1] /\ Head(s) \in S
           /\ DOMAIN Tail(s) = 1..Len(s)-1
           /\ \A i \in 1..Len(s)-1 : Tail(s)[i] = s[i+1]
OBVIOUS

-----------------------------------------------------------------------------
(* The invariant holds at the start.                                       *)

LEMMA InitInv == Init => IInv
<1> SUFFICES ASSUME Init PROVE IInv
  OBVIOUS
<1> USE DEF Init, Repository!Init
<1>1. 1 \in 1..MaxConsumers /\ 0 \in 0..MaxDelivered /\ 0 \in 0..WorkerCount
      /\ 0 \in 0..MaxAttempts /\ 0 \in 0..MaxCrashes /\ 0 \in 0..MaxStops
  BY WriterAssumption, ProductBound
<1>2. TypeOK
  BY <1>1 DEF TypeOK, Durables, ConsumerStates, Phases, Closings, LiveStates,
              Repository!TypeOK
<1>3. Bounds
  BY <1>1, Product DEF Bounds
<1>4. Queue /\ Causes
  BY <1>1 DEF Queue, Causes, Waiting
<1>5. Work
  BY DEF Work, WorkOf, SaveCalls
<1>6. Live = {}
  BY DEF Live, LiveStates
<1>7. Slots
  BY <1>6, FS_EmptySet DEF Slots
<1> QED BY <1>2, <1>3, <1>4, <1>5, <1>7 DEF IInv, OnlyValid, DeadLetterIsEarned

-----------------------------------------------------------------------------
(* The server and the life of the process.                                 *)

\* A step that leaves the handlers and the repository alone.
LEMMA HandlersFrame ==
    ASSUME Work, Slots, OnlyValid, DeadLetterIsEarned,
           UNCHANGED <<handlerVars, repoVars>>
    PROVE  Work' /\ Slots' /\ OnlyValid' /\ DeadLetterIsEarned'
<1> USE DEF handlerVars, repoVars
<1>1. Live' = Live
  BY DEF Live
<1>2. Work' /\ OnlyValid' /\ DeadLetterIsEarned'
  BY DEF Work, WorkOf, OnlyValid, DeadLetterIsEarned
<1> QED BY <1>1, <1>2 DEF Slots

\* The next delivery of m is no earlier one.
LEMMA DeliverInv == ASSUME IInv, NEW m \in Msgs, Deliver(m) PROVE IInv'
<1> USE DEF IInv, Deliver
<1>1. /\ made \in 1..MaxConsumers /\ made \in Nat \ {0}
      /\ delivered[m] \in 0..MaxDelivered /\ MaxDelivered \in Nat
      /\ made * MaxDeliver \in Nat /\ made * MaxDeliver <= MaxDelivered
      /\ delivered[m] < made * MaxDeliver
  BY Product, ProductBound, WriterAssumption DEF TypeOK, MayDeliver
<1> PICK n \in 1..MaxDelivered : n = delivered[m] + 1 /\ n <= made * MaxDeliver
  BY <1>1
<1> PICK d \in Deliveries : d = <<m, n>>
  BY DEF Deliveries
<1>3. /\ delivered' \in [Msgs -> 0..MaxDelivered]
      /\ delivered'[m] = n
      /\ \A x \in Msgs \ {m} : delivered'[x] = delivered[x]
  BY <1>1 DEF TypeOK
<1>4. /\ consumer' \in [Msgs -> ConsumerStates]
      /\ consumer'[m] = "pending"
      /\ \A x \in Msgs \ {m} : consumer'[x] = consumer[x]
  BY DEF TypeOK, ConsumerStates
<1>5. inbox \in Seq(Deliveries) /\ inbox' \in {inbox, Append(inbox, d)}
  BY DEF TypeOK
<1>6. TypeOK'
  <2>1. inbox' \in Seq(Deliveries)
    <3>1. Append(inbox, d) \in Seq(Deliveries)
      BY <1>5, AppendParts
    <3> QED BY <1>5, <3>1
  <2> QED BY <1>3, <1>4, <2>1
          DEF TypeOK, ackVars, processVars, handlerVars, repoVars, Repository!TypeOK
<1>7. Bounds'
  BY <1>3, <1>4 DEF Bounds
<1>8. \A x \in Deliveries : Sent(x) => Sent(x)' /\ x # d
  <2>1. SUFFICES ASSUME NEW x \in Deliveries, x[2] <= delivered[x[1]]
                 PROVE  x[2] <= delivered'[x[1]] /\ x # d
    BY DEF Sent
  <2>2. x[1] \in Msgs /\ x[2] \in Nat /\ d[1] = m /\ d[2] = delivered[m] + 1
    BY DeliveryParts
  <2>3. CASE x[1] = m
    BY <1>1, <1>3, <2>1, <2>2, <2>3
  <2>4. CASE x[1] # m
    BY <1>3, <2>1, <2>2, <2>4
  <2> QED BY <2>3, <2>4
<1>9. Queue'
  <2>1. /\ \A x \in Waiting : x \in Deliveries /\ Sent(x)' /\ handler[x] = "none" /\ x # d
        /\ Sent(d)' /\ handler[d] = "none"
    <3>1. \A x \in Waiting : x \in Deliveries
      BY <1>5 DEF Waiting
    <3>2. Sent(d)'
      BY <1>3 DEF Sent
    <3>3. handler[d] = "none"
      BY <1>8 DEF Queue
    <3> QED BY <1>8, <3>1, <3>2, <3>3 DEF Queue
  <2>2. CASE inbox' = inbox
    BY <1>8, <2>1, <2>2 DEF Queue, Waiting, handlerVars
  <2>3. CASE inbox' = Append(inbox, d)
    <3>1. /\ DOMAIN inbox = 1..Len(inbox) /\ DOMAIN inbox' = 1..Len(inbox)+1
          /\ Len(inbox) \in Nat
          /\ \A i \in 1..Len(inbox) : inbox'[i] = inbox[i]
          /\ inbox'[Len(inbox)+1] = d
      BY <1>5, <2>3, AppendParts
    <3>2. \A i \in 1..Len(inbox) : inbox[i] # d
      BY <2>1, <3>1 DEF Waiting
    <3>3. Waiting' = Waiting \cup {d}
      BY <3>1 DEF Waiting
    <3>4. \A i, j \in DOMAIN inbox' : inbox'[i] = inbox'[j] => i = j
      BY <3>1, <3>2 DEF Queue
    <3>5. \A x \in Waiting' : Sent(x)' /\ handler'[x] = "none"
      BY <2>1, <3>3 DEF handlerVars
    <3> QED BY <1>8, <3>4, <3>5 DEF Queue, handlerVars
  <2> QED BY <1>5, <2>2, <2>3
<1>10. Causes'
  BY <1>4 DEF Causes, ackVars, handlerVars
<1> QED BY <1>6, <1>7, <1>9, <1>10, HandlersFrame

\* The server gives m up, or delivers it again.
LEMMA RequeuedParts ==
    ASSUME IInv, NEW m \in Msgs
    PROVE  /\ Requeued(m) \in {"ready", "exhausted"}
           /\ Requeued(m) = "exhausted" => delivered[m] >= MaxDeliver
<1>1. made \in Nat \ {0} /\ delivered[m] \in Nat
  BY WriterAssumption, ProductBound DEF IInv, TypeOK
<1>2. ~MayDeliver(m) => delivered[m] >= made * MaxDeliver
  BY <1>1, Product DEF MayDeliver
<1>3. ~MayDeliver(m) => delivered[m] >= MaxDeliver
  BY <1>1, <1>2, Product, WriterAssumption
<1> QED BY <1>3 DEF Requeued

\* The consumer takes note of something about m, for a reason.
LEMMA ConsumerStep ==
    ASSUME IInv, NEW m \in Msgs, NEW s \in ConsumerStates,
           consumer' = [consumer EXCEPT ![m] = s],
           wire' \subseteq wire,
           UNCHANGED <<durable, made, delivered, settled, processVars, queueVars,
                       handlerVars, repoVars>>,
           s = "exhausted" => delivered[m] >= MaxDeliver,
           s = "acked" => \E n \in 1..MaxDelivered : handler[<<m, n>>] # "none",
           s = "termed" => KindOf[m] = "invalid"
    PROVE  IInv'
<1> USE DEF IInv
<1>1. \A x \in Msgs : consumer'[x] = IF x = m THEN s ELSE consumer[x]
  BY DEF TypeOK
<1>2. TypeOK'
  BY DEF TypeOK, processVars, queueVars, handlerVars, repoVars, Repository!TypeOK
<1>3. Bounds'
  BY <1>1 DEF Bounds
<1>4. Queue'
  BY DEF Queue, Waiting, Sent, queueVars, handlerVars
<1>5. Causes'
  BY <1>1 DEF Causes, queueVars, handlerVars
<1> QED BY <1>2, <1>3, <1>4, <1>5, HandlersFrame

LEMMA AckWaitExpiresInv == ASSUME IInv, NEW m \in Msgs, AckWaitExpires(m) PROVE IInv'
<1>1. Requeued(m) \in ConsumerStates /\ Requeued(m) \notin {"acked", "termed"}
  BY RequeuedParts DEF ConsumerStates, Final
<1> QED BY <1>1, RequeuedParts, ConsumerStep DEF AckWaitExpires, ackVars

\* The acknowledgement on the wire has its cause.
LEMMA ServerReceivesInv ==
    ASSUME IInv, NEW d \in Deliveries, NEW v \in Verdicts, ServerReceives(d, v)
    PROVE  IInv'
<1> DEFINE m == d[1]
<1> USE DEF ServerReceives
<1>1. m \in Msgs /\ d[2] \in 1..MaxDelivered /\ d = <<m, d[2]>> /\ consumer[m] \in ConsumerStates
  BY DeliveryParts DEF IInv, TypeOK
<1>2. <<d, v>> \in wire /\ wire' \subseteq wire
  OBVIOUS
<1> HIDE DEF m
<1>3. PICK s : /\ consumer' = [consumer EXCEPT ![m] = s]
               /\ s \in {"acked", "termed", Requeued(m), consumer[m]}
               /\ s = "acked" => v = "ack" \/ s = consumer[m] \/ s = Requeued(m)
               /\ s = "termed" => v = "term" \/ s = consumer[m] \/ s = Requeued(m)
  <2> DEFINE o == Outstanding(m)
             t == CASE o /\ v = "ack" -> "acked"
                    [] o /\ v = "term" -> "termed"
                    [] o /\ v = "nak" /\ consumer[m] = "pending" -> Requeued(m)
                    [] OTHER -> consumer[m]
  <2>1. consumer' = [consumer EXCEPT ![m] = t]
    BY DEF m
  <2>2. t \in {"acked", "termed", Requeued(m), consumer[m]}
    OBVIOUS
  <2>3. t = "acked" => v = "ack" \/ t = consumer[m] \/ t = Requeued(m)
    OBVIOUS
  <2>4. t = "termed" => v = "term" \/ t = consumer[m] \/ t = Requeued(m)
    OBVIOUS
  <2> QED BY <2>1, <2>2, <2>3, <2>4
<1>4. s \in ConsumerStates
  BY <1>1, <1>3, RequeuedParts DEF ConsumerStates, Final
<1>5. s = "exhausted" => delivered[m] >= MaxDeliver
  BY <1>1, <1>3, RequeuedParts DEF IInv, Bounds
<1>6. s = "acked" => \E n \in 1..MaxDelivered : handler[<<m, n>>] # "none"
  <2>1. v = "ack" => handler[<<m, d[2]>>] # "none"
    BY <1>1, <1>2 DEF IInv, Causes
  <2> QED BY <1>1, <1>3, <2>1, RequeuedParts DEF IInv, Causes
<1>7. s = "termed" => KindOf[m] = "invalid"
  <2>1. v = "term" => KindOf[m] = "invalid"
    BY <1>2 DEF IInv, Causes, m
  <2> QED BY <1>1, <1>3, <2>1, RequeuedParts DEF IInv, Causes
<1> QED BY <1>1, <1>2, <1>3, <1>4, <1>5, <1>6, <1>7, ConsumerStep

LEMMA DeleteConsumerInv == ASSUME IInv, DeleteConsumer PROVE IInv'
<1> USE DEF IInv, DeleteConsumer
<1>1. TypeOK'
  BY DEF TypeOK, Durables, ackVars, processVars, queueVars, handlerVars, repoVars,
         Repository!TypeOK
<1>2. Bounds' /\ Queue' /\ Causes'
  BY DEF Bounds, Queue, Causes, Waiting, Sent, ackVars, queueVars, handlerVars
<1> QED BY <1>1, <1>2, HandlersFrame

\* main and Close only move on, and drop what is in the inbox.
LEMMA MainInv ==
    ASSUME IInv, Shutdown \/ WaitHandlers \/ CloseConnection \/ ReturnFromRun
    PROVE  IInv'
<1> USE DEF IInv, Shutdown, WaitHandlers, CloseConnection, ReturnFromRun
<1>1. UNCHANGED <<serverVars, ackVars, callback, handlerVars, repoVars>>
      /\ inbox' \in {inbox, <<>>}
  BY DEF queueVars
<1>2. TypeOK'
  <2>1. phase' \in Phases /\ closing' \in Closings /\ crashes' \in 0..MaxCrashes
    BY DEF TypeOK, Phases, Closings
  <2>2. stops' \in 0..MaxStops
    <3>1. stops < MaxStops => stops + 1 \in 0..MaxStops
      BY WriterAssumption DEF TypeOK
    <3> QED BY <3>1 DEF TypeOK
  <2>3. inbox' \in Seq(Deliveries)
    <3>1. inbox \in Seq(Deliveries) /\ <<>> \in Seq(Deliveries)
      BY DEF TypeOK
    <3> QED BY <1>1, <3>1
  <2> QED BY <1>1, <2>1, <2>2, <2>3
          DEF TypeOK, serverVars, ackVars, handlerVars, repoVars, Repository!TypeOK
<1>3. Bounds' /\ Causes'
  BY <1>1 DEF Bounds, Causes, serverVars, ackVars, handlerVars
<1>4. Queue'
  BY <1>1 DEF Queue, Waiting, Sent, serverVars, handlerVars
<1> QED BY <1>1, <1>2, <1>3, <1>4, HandlersFrame

\* The end of the process ends every handler, and frees every slot.
LEMMA ProcessEndsInv == ASSUME IInv, Exit \/ Crash PROVE IInv'
<1> USE DEF IInv
<1>1. /\ ProcessEnds
      /\ phase' \in Phases /\ crashes' \in 0..MaxCrashes
  <2>1. crashes < MaxCrashes => crashes + 1 \in 0..MaxCrashes
    BY WriterAssumption DEF TypeOK
  <2> QED BY <2>1 DEF Exit, Crash, TypeOK, Phases
<1> USE DEF ProcessEnds
<1>2. /\ handler' \in [Deliveries -> LiveStates \cup {"none", "done", "killed"}]
      /\ \A d \in Deliveries : \/ handler'[d] = handler[d] /\ handler[d] \notin LiveStates
                               \/ handler'[d] = "killed" /\ handler[d] \in LiveStates
  BY <1>1 DEF Live, TypeOK
<1>3. \A d \in Deliveries : handler'[d] = "none" <=> handler[d] = "none"
  BY <1>2 DEF LiveStates
<1>4. TypeOK'
  <2>1. 0 \in 0..WorkerCount
    BY WriterAssumption
  <2>2. <<>> \in Seq(Deliveries)
    OBVIOUS
  <2> QED BY <1>1, <1>2, <2>1, <2>2
          DEF TypeOK, serverVars, ackVars, repoVars, Repository!TypeOK
<1>5. Bounds'
  BY <1>1 DEF Bounds, serverVars
<1>6. Queue'
  BY <1>1, <1>3 DEF Queue, Waiting, Sent, serverVars
<1>7. Causes'
  <2>1. \A m \in Msgs, n \in 1..MaxDelivered : <<m, n>> \in Deliveries
    BY DEF Deliveries
  <2> QED BY <1>1, <1>3, <2>1 DEF Causes, serverVars, ackVars
<1>8. Work'
  <2>1. \A d \in Deliveries : handler'[d] \in LiveStates \cup {"none"} => handler'[d] = handler[d]
    BY <1>2 DEF LiveStates
  <2> QED BY <1>1, <2>1 DEF Work, WorkOf, LiveStates, repoVars
<1>9. Slots'
  <2>1. Live' = {}
    BY <1>2 DEF Live, LiveStates
  <2> QED BY <1>1, <2>1, FS_EmptySet DEF Slots
<1>10. OnlyValid' /\ DeadLetterIsEarned'
  BY <1>1 DEF OnlyValid, DeadLetterIsEarned, repoVars
<1> QED BY <1>4, <1>5, <1>6, <1>7, <1>8, <1>9, <1>10

\* A new consumer numbers its deliveries after those of the old one.
LEMMA RestartInv == ASSUME IInv, Restart PROVE IInv'
<1> USE DEF IInv, Restart
<1>1. UNCHANGED <<ackVars, crashes, stops, queueVars, handlerVars, repoVars>>
      /\ phase' \in Phases /\ closing' \in Closings
  BY DEF Phases, Closings
<1>2. CASE durable # "deleted"
  <2>1. durable' \in Durables \ {"deleted"} /\ UNCHANGED <<made, consumer, delivered>>
    BY <1>2 DEF Durables
  <2>2. TypeOK'
    BY <1>1, <2>1 DEF TypeOK, ackVars, queueVars, handlerVars, repoVars, Repository!TypeOK
  <2>3. Bounds' /\ Queue' /\ Causes'
    BY <1>1, <2>1 DEF Bounds, Queue, Causes, Waiting, Sent, ackVars, queueVars, handlerVars
  <2> QED BY <1>1, <2>2, <2>3, HandlersFrame
<1>3. CASE durable = "deleted"
  <2>1. /\ made \in Nat \ {0} /\ made' = made + 1
        /\ made \in 1..MaxConsumers /\ made' \in 1..MaxConsumers
    BY <1>3, WriterAssumption DEF TypeOK, Bounds
  <2>2. /\ made * MaxDeliver \in 0..MaxDelivered
        /\ made * MaxDeliver <= made' * MaxDeliver
    BY <2>1, Product, ProductBound, WriterAssumption
  <2>3. /\ durable' = "made"
        /\ consumer' = [m \in Msgs |-> "ready"]
        /\ delivered' = [m \in Msgs |-> made * MaxDeliver]
    BY <1>3 DEF FirstState
  <2>4. TypeOK'
    BY <1>1, <2>1, <2>2, <2>3
       DEF TypeOK, Durables, ConsumerStates, ackVars, queueVars, handlerVars, repoVars,
           Repository!TypeOK
  <2>5. Bounds'
    BY <2>2, <2>3 DEF Bounds
  <2>6. Queue'
    <3>1. ASSUME NEW d \in Deliveries, Sent(d) PROVE Sent(d)'
      <4>1. d[1] \in Msgs /\ d[2] \in Nat /\ delivered[d[1]] \in Nat
        BY DeliveryParts DEF TypeOK
      <4>2. d[2] <= made * MaxDeliver
        BY <2>2, <3>1, <4>1 DEF Sent, Bounds
      <4> QED BY <2>3, <4>1, <4>2 DEF Sent
    <3>2. \A d \in Waiting : d \in Deliveries
      BY DEF Waiting, TypeOK
    <3> QED BY <1>1, <3>1, <3>2 DEF Queue, Waiting, queueVars, handlerVars
  <2>7. Causes'
    BY <1>1, <2>3 DEF Causes, ackVars, queueVars, handlerVars
  <2> QED BY <1>1, <2>4, <2>5, <2>6, <2>7, HandlersFrame
<1> QED BY <1>2, <1>3

-----------------------------------------------------------------------------
(* The callback.                                                           *)

\* The first verdict of a delivery that is given while the connection is open
\* is sent; it has to have its cause.
LEMMA SendParts ==
    ASSUME IInv, NEW d \in Deliveries, NEW v \in Verdicts, Send(d, v)
    PROVE  /\ wire' \subseteq wire \cup {<<d, v>>} /\ wire' \subseteq Deliveries \X Verdicts
           /\ settled \subseteq settled' /\ settled' \subseteq Deliveries
           /\ Connected => d \in settled'
           /\ d \in settled => wire' = wire
BY DEF IInv, TypeOK, Send, ackVars

\* Dispatch takes a delivery that has no handler yet out of the queue.
LEMMA DispatchParts ==
    ASSUME IInv, NEW d \in Deliveries, Dispatch(d)
    PROVE  /\ handler[d] = "none" /\ Sent(d)
           /\ inbox' \in Seq(Deliveries) /\ callback' = d
           /\ \A i, j \in DOMAIN inbox' : inbox'[i] = inbox'[j] => i = j
           /\ Waiting' \subseteq Waiting \ {d}
           /\ Connected
           /\ UNCHANGED <<serverVars, processVars, attempt, verdict, deadLetter, repoVars>>
<1> USE DEF IInv, Dispatch
<1>1. inbox \in Seq(Deliveries) /\ inbox # <<>>
  BY DEF TypeOK
<1>2. /\ Tail(inbox) \in Seq(Deliveries)
      /\ Len(inbox) \in Nat \ {0} /\ DOMAIN inbox = 1..Len(inbox)
      /\ d = inbox[1]
      /\ DOMAIN Tail(inbox) = 1..Len(inbox)-1
      /\ \A i \in 1..Len(inbox)-1 : Tail(inbox)[i] = inbox[i+1]
  BY <1>1, TailParts
<1>3. \A i, j \in 1..Len(inbox) : inbox[i] = inbox[j] => i = j
  BY <1>2 DEF Queue
<1>4. \A i, j \in DOMAIN inbox' : inbox'[i] = inbox'[j] => i = j
  <2>1. SUFFICES ASSUME NEW i \in 1..Len(inbox)-1, NEW j \in 1..Len(inbox)-1,
                        inbox[i+1] = inbox[j+1]
                 PROVE  i = j
    BY <1>2
  <2>2. i+1 = j+1
    BY <1>2, <1>3, <2>1
  <2> QED BY <1>2, <2>2
<1>5. Waiting' \subseteq Waiting \ {d}
  <2>1. SUFFICES ASSUME NEW i \in 1..Len(inbox)-1
                 PROVE  inbox[i+1] \in Waiting \ {d}
    BY <1>2 DEF Waiting
  <2>2. i+1 \in 1..Len(inbox) /\ i+1 # 1
    BY <1>2
  <2>3. inbox[i+1] # inbox[1]
    <3>1. 1 \in 1..Len(inbox)
      BY <1>2
    <3> QED BY <1>3, <2>2, <3>1
  <2> QED BY <1>2, <2>2, <2>3 DEF Waiting
<1>6. d \in Waiting
  BY <1>2 DEF Waiting
<1> QED BY <1>2, <1>4, <1>5, <1>6 DEF Queue

\* What is put back is settled before the library could acknowledge it.
LEMMA PutBackInv ==
    ASSUME IInv, NEW d \in Deliveries, HandleMalformed(d) \/ HandleSaturated(d)
    PROVE  IInv'
<1> USE DEF IInv
<1>1. Dispatch(d) /\ Send(d, "nak") /\ UNCHANGED <<sem, handler>>
  BY DEF HandleMalformed, HandleSaturated, PutBack
<1>2. UNCHANGED <<serverVars, processVars, handlerVars, repoVars>>
  BY <1>1, DispatchParts DEF handlerVars
<1>3. "nak" \in Verdicts
  BY DEF Verdicts
<1>4. /\ wire' \subseteq wire \cup {<<d, "nak">>} /\ wire' \subseteq Deliveries \X Verdicts
      /\ settled \subseteq settled' /\ settled' \subseteq Deliveries /\ d \in settled'
  BY <1>1, <1>3, SendParts, DispatchParts
<1>5. TypeOK'
  BY <1>1, <1>2, <1>4, DispatchParts
     DEF TypeOK, serverVars, processVars, handlerVars, repoVars, Repository!TypeOK
<1>6. Bounds'
  BY <1>2 DEF Bounds, serverVars
<1>7. Queue'
  BY <1>1, <1>2, DispatchParts DEF Queue, Sent, serverVars, handlerVars
<1>8. Causes'
  <2>1. callback' = d /\ UNCHANGED <<consumer, handler>>
    BY <1>1, <1>2, DispatchParts DEF serverVars, handlerVars
  <2>2. \A c \in Deliveries, v \in {"ack", "term"} : <<c, v>> \in wire' => <<c, v>> \in wire
    BY <1>4
  <2> QED BY <1>4, <2>1, <2>2 DEF Causes
<1> QED BY <1>2, <1>5, <1>6, <1>7, <1>8, HandlersFrame

\* A handler starts for a delivery that has had none, and takes a slot.
LEMMA HandleSpawnInv == ASSUME IInv, NEW d \in Deliveries, HandleSpawn(d) PROVE IInv'
<1> USE DEF IInv, HandleSpawn
<1>1. /\ handler[d] = "none" /\ Sent(d) /\ callback' = d
      /\ UNCHANGED <<serverVars, ackVars, processVars, attempt, verdict, deadLetter, repoVars>>
  BY DispatchParts
<1>2. /\ handler' \in [Deliveries -> LiveStates \cup {"none", "done", "killed"}]
      /\ handler'[d] = "started"
      /\ \A c \in Deliveries \ {d} : handler'[c] = handler[c]
  BY DEF TypeOK, LiveStates
<1>3. sem' \in 0..WorkerCount
  BY WriterAssumption DEF TypeOK, SlotFree
<1>4. TypeOK'
  BY <1>1, <1>2, <1>3, DispatchParts
     DEF TypeOK, serverVars, ackVars, processVars, repoVars, Repository!TypeOK
<1>5. Bounds'
  BY <1>1 DEF Bounds, serverVars
<1>6. Queue'
  <2>1. \A c : Sent(c)' = Sent(c)
    BY <1>1 DEF Sent, serverVars
  <2>2. \A c \in Waiting : c \in Deliveries
    BY DEF Waiting, TypeOK
  <2> QED BY <1>1, <1>2, <2>1, <2>2, DispatchParts DEF Queue
<1>7. Causes'
  <2>1. \A c \in Deliveries : handler[c] # "none" => handler'[c] # "none"
    BY <1>1, <1>2
  <2>2. \A m \in Msgs, n \in 1..MaxDelivered : <<m, n>> \in Deliveries
    BY DEF Deliveries
  <2>3. handler'[callback'] # "none"
    BY <1>1, <1>2
  <2>4. UNCHANGED <<wire, settled, consumer>>
    BY <1>1 DEF ackVars, serverVars
  <2> QED BY <2>1, <2>2, <2>3, <2>4 DEF Causes
<1>8. Work'
  <2>1. UNCHANGED <<attempt, verdict, deadLetter, call, rows>>
    BY <1>1 DEF repoVars
  <2>2. WorkOf(d)'
    <3>1. WorkOf(d) /\ attempt[d] = 0 /\ verdict[d] = "none"
      BY <1>1 DEF Work, WorkOf
    <3> QED BY <1>2, <2>1, <3>1 DEF WorkOf
  <2>3. ASSUME NEW c \in Deliveries, c # d PROVE WorkOf(c)'
    BY <1>2, <2>1, <2>3 DEF Work, WorkOf
  <2> QED BY <2>2, <2>3 DEF Work
<1>9. Slots'
  <2>1. Live' = Live \cup {d} /\ d \notin Live
    BY <1>1, <1>2 DEF Live, LiveStates
  <2> QED BY <2>1, FS_AddElement DEF Slots
<1>10. OnlyValid' /\ DeadLetterIsEarned'
  BY <1>1 DEF OnlyValid, DeadLetterIsEarned, repoVars
<1> QED BY <1>4, <1>5, <1>6, <1>7, <1>8, <1>9, <1>10

\* The acknowledgement of the library is of a delivery that has a handler, or
\* is refused.
LEMMA CallbackReturnsInv == ASSUME IInv, CallbackReturns PROVE IInv'
<1> USE DEF IInv, CallbackReturns
<1>1. callback \in Deliveries /\ "ack" \in Verdicts
  BY DEF TypeOK, Verdicts
<1>2. /\ wire' \subseteq wire \cup {<<callback, "ack">>}
      /\ wire' \subseteq Deliveries \X Verdicts
      /\ settled' \subseteq Deliveries
      /\ callback \in settled => wire' = wire
  <2>1. CASE AutoAck
    BY <1>1, <2>1, SendParts
  <2>2. CASE ~AutoAck
    BY <2>2 DEF ackVars, TypeOK
  <2> QED BY <2>1, <2>2
<1>3. TypeOK'
  BY <1>2 DEF TypeOK, serverVars, processVars, handlerVars, repoVars, Repository!TypeOK
<1>4. Bounds' /\ Queue'
  BY DEF Bounds, Queue, Waiting, Sent, serverVars, handlerVars
<1>5. Causes'
  <2>1. callback \in settled \/ handler[callback] # "none"
    BY DEF Causes
  <2>2. \A d \in Deliveries : <<d, "ack">> \in wire' => handler[d] # "none"
    BY <1>2, <2>1 DEF Causes
  <2>3. \A d \in Deliveries : <<d, "term">> \in wire' => KindOf[d[1]] = "invalid"
    BY <1>2 DEF Causes
  <2> QED BY <2>2, <2>3 DEF Causes, serverVars, handlerVars
<1> QED BY <1>3, <1>4, <1>5, HandlersFrame

-----------------------------------------------------------------------------
(* The goroutine of a delivery.                                            *)

\* A step of Handle for the delivery d, which stays alive: it only has to
\* show what is true of d, of its calls and of the dead letters.
LEMMA HandleStep ==
    ASSUME IInv, NEW d \in Deliveries,
           UNCHANGED <<serverVars, ackVars, processVars, queueVars, sem, rows>>,
           handler[d] \in LiveStates,
           NEW h \in LiveStates, handler' = [handler EXCEPT ![d] = h],
           NEW a \in 0..MaxAttempts, attempt' = [attempt EXCEPT ![d] = a],
           NEW v \in Verdicts \cup {"none"}, verdict' = [verdict EXCEPT ![d] = v],
           call' \in [SaveCalls -> {"idle", "saving", "ok", "error"}],
           \A c \in Deliveries \ {d}, k \in 1..MaxAttempts :
              call'[<<c, k>>] = call[<<c, k>>],
           WorkOf(d)',
           deadLetter \subseteq deadLetter', deadLetter' \subseteq Msgs,
           DeadLetterIsEarned'
    PROVE  IInv'
<1> USE DEF IInv
<1>1. \A c \in Deliveries \ {d} :
         /\ handler'[c] = handler[c] /\ attempt'[c] = attempt[c]
         /\ verdict'[c] = verdict[c]
  BY DEF TypeOK
<1>2. handler'[d] = h /\ h # "none" /\ handler[d] # "none"
  BY DEF TypeOK, LiveStates
<1>3. TypeOK'
  BY DEF TypeOK, serverVars, ackVars, processVars, queueVars, Repository!TypeOK
<1>4. Bounds'
  BY DEF Bounds, serverVars
<1>5. Queue'
  <2>1. \A c \in Waiting : c \in Deliveries
    BY DEF Waiting, TypeOK
  <2> QED BY <1>1, <1>2, <2>1 DEF Queue, Waiting, Sent, serverVars, queueVars
<1>6. Causes'
  <2>1. \A c \in Deliveries : handler[c] # "none" => handler'[c] # "none"
    BY <1>1, <1>2
  <2>2. \A m \in Msgs, n \in 1..MaxDelivered : <<m, n>> \in Deliveries
    BY DEF Deliveries
  <2>3. callback \in Deliveries \cup {NoDelivery}
    BY DEF TypeOK
  <2>4. UNCHANGED <<wire, settled, callback, consumer>>
    BY DEF ackVars, queueVars, serverVars
  <2> QED BY <2>1, <2>2, <2>3, <2>4 DEF Causes
<1>7. Work'
  <2>1. ASSUME NEW c \in Deliveries, c # d PROVE WorkOf(c)'
    BY <1>1, <2>1 DEF Work, WorkOf
  <2> QED BY <2>1 DEF Work
<1>8. Slots'
  <2>1. Live' = Live
    BY <1>1, <1>2 DEF Live
  <2> QED BY <2>1 DEF Slots
<1>9. OnlyValid'
  BY DEF OnlyValid
<1> QED BY <1>3, <1>4, <1>5, <1>6, <1>7, <1>8, <1>9

\* Messages whose calls have all failed stay so: an error is the end of a call.
LEMMA EarnedStays ==
    ASSUME DeadLetterIsEarned, deadLetter' = deadLetter, deadLetter \subseteq Msgs,
           \A c \in SaveCalls : call[c] = "error" => call'[c] = "error"
    PROVE  DeadLetterIsEarned'
<1>1. SUFFICES ASSUME NEW m \in deadLetter
               PROVE  \E n \in 1..MaxDelivered :
                         \A k \in 1..MaxAttempts : call'[<<<<m, n>>, k>>] = "error"
  BY DEF DeadLetterIsEarned
<1>2. PICK n \in 1..MaxDelivered :
         \A k \in 1..MaxAttempts : call[<<<<m, n>>, k>>] = "error"
  BY DEF DeadLetterIsEarned
<1> QED BY <1>2 DEF SaveCalls, Deliveries

LEMMA HandleInvalidInv == ASSUME IInv, NEW d \in Deliveries, HandleInvalid(d) PROVE IInv'
<1> USE DEF HandleInvalid, At, Return, repoVars
<1>1. /\ handler' = [handler EXCEPT ![d] = "returned"]
      /\ verdict' = [verdict EXCEPT ![d] = "term"]
      /\ attempt' = [attempt EXCEPT ![d] = attempt[d]]
      /\ attempt[d] \in 0..MaxAttempts
      /\ UNCHANGED <<serverVars, ackVars, processVars, queueVars, sem, rows, deadLetter>>
  BY DEF IInv, TypeOK
<1>2. /\ handler'[d] = "returned" /\ verdict'[d] = "term" /\ attempt'[d] = 0
      /\ attempt[d] = 0 /\ KindOf[d[1]] = "invalid"
      /\ WorkOf(d) /\ UNCHANGED <<call, rows>>
  <2>1. WorkOf(d) /\ attempt[d] = 0
    BY DEF IInv, Work, WorkOf
  <2> QED BY <1>1, <2>1 DEF IInv, TypeOK
<1>3. WorkOf(d)'
  BY <1>2 DEF WorkOf, Verdicts
<1>4. DeadLetterIsEarned' /\ deadLetter' \subseteq Msgs
  BY DEF IInv, TypeOK, DeadLetterIsEarned
<1>5. call' \in [SaveCalls -> {"idle", "saving", "ok", "error"}] /\ call' = call
  BY DEF IInv, TypeOK, Repository!TypeOK
<1>6. handler[d] \in LiveStates /\ "returned" \in LiveStates /\ "term" \in Verdicts
  BY DEF LiveStates, Verdicts
<1> QED BY <1>1, <1>3, <1>4, <1>5, <1>6, HandleStep

\* The call of the new attempt was not made before.
LEMMA StartAttemptInv == ASSUME IInv, NEW d \in Deliveries, StartAttempt(d) PROVE IInv'
<1> USE DEF StartAttempt, At
<1> DEFINE j == attempt[d] + 1
<1>0. WorkOf(d) /\ handler[d] \in {"started", "backoff"} /\ KindOf[d[1]] = "valid"
      /\ attempt[d] \in 0..MaxAttempts
  BY DEF IInv, Work, WorkOf, TypeOK
<1>1. j \in 1..MaxAttempts /\ j \in 0..MaxAttempts /\ j # 0
  BY <1>0, WriterAssumption DEF WorkOf
<1>2. /\ handler' = [handler EXCEPT ![d] = "saving"]
      /\ verdict' = [verdict EXCEPT ![d] = verdict[d]]
      /\ verdict[d] \in Verdicts \cup {"none"}
      /\ attempt' = [attempt EXCEPT ![d] = j]
      /\ call' = [call EXCEPT ![<<d, j>>] = "saving"]
      /\ call[<<d, j>>] = "idle"
      /\ UNCHANGED <<serverVars, ackVars, processVars, queueVars, sem, rows, deadLetter>>
  BY DEF IInv, TypeOK, Repository!Start
<1> HIDE DEF j
<1>3. /\ call' \in [SaveCalls -> {"idle", "saving", "ok", "error"}]
      /\ \A c \in Deliveries, k \in 1..MaxAttempts :
            c # d \/ k # j => call'[<<c, k>>] = call[<<c, k>>]
  BY <1>1, <1>2, CallParts DEF IInv, TypeOK, Repository!TypeOK
<1>4. WorkOf(d)'
  <2>1. /\ handler'[d] = "saving" /\ attempt'[d] = j /\ verdict'[d] = verdict[d]
        /\ rows' = rows
    BY <1>2 DEF IInv, TypeOK
  <2>2. ASSUME NEW k \in 1..MaxAttempts, k > j PROVE call'[<<d, k>>] = "idle"
    BY <1>0, <1>1, <1>3, <2>2 DEF WorkOf, j
  <2>3. ASSUME NEW k \in 1..MaxAttempts, k < j PROVE call'[<<d, k>>] = "error"
    <3>1. call[<<d, k>>] = "error"
      <4>1. k < attempt[d] \/ k = attempt[d]
        BY <1>0, <2>3 DEF j
      <4>2. k = attempt[d] => handler[d] = "backoff"
        BY <1>0 DEF WorkOf
      <4> QED BY <1>0, <4>1, <4>2 DEF WorkOf
    <3> QED BY <1>3, <2>3, <3>1, <1>1
  <2> QED BY <1>0, <1>1, <2>1, <2>2, <2>3 DEF WorkOf
<1>5. DeadLetterIsEarned' /\ deadLetter' \subseteq Msgs
  <2>1. \A c \in SaveCalls : call[c] = "error" => call'[c] = "error"
    BY <1>2 DEF IInv, TypeOK, Repository!TypeOK
  <2> QED BY <1>2, <2>1, EarnedStays DEF IInv, TypeOK
<1>6. handler[d] \in LiveStates /\ "saving" \in LiveStates
  BY <1>0 DEF LiveStates
<1> QED BY <1>1, <1>2, <1>3, <1>4, <1>5, <1>6, HandleStep

\* The point of the event is in the table when its call returns nil.
LEMMA SaveSucceedsInv == ASSUME IInv, NEW d \in Deliveries, SaveSucceeds(d) PROVE IInv'
<1> USE DEF SaveSucceeds, At, Saved, Return
<1> DEFINE j == attempt[d]
<1>0. WorkOf(d) /\ handler[d] = "saving" /\ j \in 1..MaxAttempts /\ j \in 0..MaxAttempts
  BY DEF IInv, Work, WorkOf, TypeOK
<1>1. <<d, j>> \in SaveCalls /\ EventOf[<<d, j>>] = d[1]
  BY <1>0 DEF SaveCalls, EventOf
<1>2. /\ handler' = [handler EXCEPT ![d] = "returned"]
      /\ verdict' = [verdict EXCEPT ![d] = "ack"]
      /\ attempt' = [attempt EXCEPT ![d] = j]
      /\ call' = [call EXCEPT ![<<d, j>>] = "ok"]
      /\ call[<<d, j>>] = "saving"
      /\ d[1] \in rows
      /\ UNCHANGED <<serverVars, ackVars, processVars, queueVars, sem, rows, deadLetter>>
  BY <1>1 DEF IInv, TypeOK, Repository!ReturnOk
<1>3. /\ call' \in [SaveCalls -> {"idle", "saving", "ok", "error"}]
      /\ \A c \in Deliveries, k \in 1..MaxAttempts :
            c # d \/ k # j => call'[<<c, k>>] = call[<<c, k>>]
  BY <1>0, <1>2, CallParts DEF IInv, TypeOK, Repository!TypeOK
<1>4. WorkOf(d)'
  <2>1. /\ handler'[d] = "returned" /\ attempt'[d] = attempt[d] /\ verdict'[d] = "ack"
        /\ rows' = rows
    BY <1>2 DEF IInv, TypeOK
  <2>2. \A k \in 1..MaxAttempts : k > j \/ k < j => call'[<<d, k>>] = call[<<d, k>>]
    BY <1>0, <1>3
  <2> QED BY <1>0, <1>2, <2>1, <2>2 DEF WorkOf, Verdicts
<1>5. DeadLetterIsEarned' /\ deadLetter' \subseteq Msgs
  <2>1. \A c \in SaveCalls : call[c] = "error" => call'[c] = "error"
    BY <1>2 DEF IInv, TypeOK, Repository!TypeOK
  <2> QED BY <1>2, <2>1, EarnedStays DEF IInv, TypeOK
<1>6. handler[d] \in LiveStates /\ "returned" \in LiveStates /\ "ack" \in Verdicts
  BY <1>0 DEF LiveStates, Verdicts
<1> QED BY <1>0, <1>2, <1>3, <1>4, <1>5, <1>6, HandleStep

\* After the last attempt all calls of the delivery have failed.
LEMMA SaveFailsInv == ASSUME IInv, NEW d \in Deliveries, SaveFails(d) PROVE IInv'
<1> USE DEF SaveFails, At
<1> DEFINE j == attempt[d]
<1>0. WorkOf(d) /\ handler[d] = "saving" /\ j \in 1..MaxAttempts /\ j \in 0..MaxAttempts
  BY DEF IInv, Work, WorkOf, TypeOK
<1>1. /\ call' = [call EXCEPT ![<<d, j>>] = "error"]
      /\ attempt' = [attempt EXCEPT ![d] = j]
      /\ UNCHANGED <<serverVars, ackVars, processVars, queueVars, sem, rows>>
  BY DEF IInv, TypeOK, Repository!ReturnError
<1>2. /\ call' \in [SaveCalls -> {"idle", "saving", "ok", "error"}]
      /\ call'[<<d, j>>] = "error"
      /\ \A c \in Deliveries, k \in 1..MaxAttempts :
            c # d \/ k # j => call'[<<c, k>>] = call[<<c, k>>]
  BY <1>0, <1>1, CallParts DEF IInv, TypeOK, Repository!TypeOK
<1>3. \A k \in 1..MaxAttempts : /\ k > j => call'[<<d, k>>] = "idle"
                                /\ k < j => call'[<<d, k>>] = "error"
  BY <1>0, <1>2 DEF WorkOf
<1>4. attempt'[d] = attempt[d] /\ rows' = rows
  BY <1>1 DEF IInv, TypeOK
<1>5. \A c \in SaveCalls : call[c] = "error" => call'[c] = "error"
  BY <1>1 DEF IInv, TypeOK, Repository!TypeOK
<1>6. /\ handler[d] \in LiveStates /\ "returned" \in LiveStates /\ "backoff" \in LiveStates
      /\ "nak" \in Verdicts
      /\ \A c \in Deliveries \ {d}, k \in 1..MaxAttempts : call'[<<c, k>>] = call[<<c, k>>]
  BY <1>0, <1>2 DEF LiveStates, Verdicts
<1>7. CASE LastAttempt(d)
  <2>1. /\ handler' = [handler EXCEPT ![d] = "returned"]
        /\ verdict' = [verdict EXCEPT ![d] = "nak"]
        /\ deadLetter' = deadLetter \cup {d[1]}
        /\ j = MaxAttempts
    BY <1>7 DEF Return, LastAttempt
  <2>2. handler'[d] = "returned" /\ verdict'[d] = "nak"
    BY <2>1 DEF IInv, TypeOK
  <2>3. WorkOf(d)'
    BY <1>0, <1>3, <1>4, <1>6, <2>1, <2>2 DEF WorkOf
  <2>4. deadLetter' \subseteq Msgs
    BY <2>1, DeliveryParts DEF IInv, TypeOK
  <2>5. DeadLetterIsEarned'
    <3>1. \A k \in 1..MaxAttempts : call'[<<d, k>>] = "error"
      BY <1>0, <1>2, <1>3, <2>1
    <3>2. d[2] \in 1..MaxDelivered /\ d = <<d[1], d[2]>>
      BY DeliveryParts
    <3>3. ASSUME NEW m \in deadLetter
          PROVE  \E n \in 1..MaxDelivered :
                    \A k \in 1..MaxAttempts : call'[<<<<m, n>>, k>>] = "error"
      <4>1. PICK n \in 1..MaxDelivered :
               \A k \in 1..MaxAttempts : call[<<<<m, n>>, k>>] = "error"
        BY DEF IInv, DeadLetterIsEarned
      <4>2. m \in Msgs
        BY DEF IInv, TypeOK
      <4> QED BY <1>5, <4>1, <4>2 DEF SaveCalls, Deliveries
    <3> QED BY <2>1, <3>1, <3>2, <3>3 DEF DeadLetterIsEarned
  <2> QED BY <1>0, <1>1, <1>2, <1>6, <2>1, <2>3, <2>4, <2>5, HandleStep
<1>8. CASE ~LastAttempt(d)
  <2>1. /\ handler' = [handler EXCEPT ![d] = "backoff"]
        /\ verdict' = [verdict EXCEPT ![d] = verdict[d]]
        /\ verdict[d] \in Verdicts \cup {"none"}
        /\ deadLetter' = deadLetter
    BY <1>8 DEF Backoff, IInv, TypeOK
  <2>2. handler'[d] = "backoff" /\ verdict'[d] = verdict[d] /\ j < MaxAttempts
    BY <1>0, <1>8, <2>1, WriterAssumption DEF LastAttempt, IInv, TypeOK
  <2>3. WorkOf(d)'
    BY <1>0, <1>2, <1>3, <1>4, <2>1, <2>2 DEF WorkOf
  <2>4. DeadLetterIsEarned' /\ deadLetter' \subseteq Msgs
    BY <1>5, <2>1, EarnedStays DEF IInv, TypeOK
  <2> QED BY <1>0, <1>1, <1>2, <1>6, <2>1, <2>3, <2>4, HandleStep
<1> QED BY <1>7, <1>8

LEMMA BackoffExpiresInv == ASSUME IInv, NEW d \in Deliveries, BackoffExpires(d) PROVE IInv'
<1> USE DEF BackoffExpires, At, Interrupted, Return, repoVars
<1>1. /\ handler' = [handler EXCEPT ![d] = "returned"]
      /\ verdict' = [verdict EXCEPT ![d] = "nak"]
      /\ attempt' = [attempt EXCEPT ![d] = attempt[d]]
      /\ attempt[d] \in 0..MaxAttempts
      /\ UNCHANGED <<serverVars, ackVars, processVars, queueVars, sem, rows, deadLetter>>
  BY DEF IInv, TypeOK
<1>2. /\ handler'[d] = "returned" /\ verdict'[d] = "nak" /\ attempt'[d] = attempt[d]
      /\ WorkOf(d) /\ handler[d] = "backoff" /\ UNCHANGED <<call, rows>>
  BY <1>1 DEF IInv, TypeOK, Work
<1>3. WorkOf(d)'
  BY <1>2 DEF WorkOf, Verdicts
<1>4. DeadLetterIsEarned' /\ deadLetter' \subseteq Msgs
  BY DEF IInv, TypeOK, DeadLetterIsEarned
<1>5. call' \in [SaveCalls -> {"idle", "saving", "ok", "error"}] /\ call' = call
  BY DEF IInv, TypeOK, Repository!TypeOK
<1>6. handler[d] \in LiveStates /\ "returned" \in LiveStates /\ "nak" \in Verdicts
  BY DEF LiveStates, Verdicts
<1> QED BY <1>1, <1>3, <1>4, <1>5, <1>6, HandleStep

\* The handler ends and gives its slot back.
LEMMA SettleInv == ASSUME IInv, NEW d \in Deliveries, Settle(d) PROVE IInv'
<1> USE DEF IInv, Settle, At
<1>1. WorkOf(d) /\ handler[d] = "returned" /\ verdict[d] \in Verdicts /\ Send(d, verdict[d])
  BY DEF Work, WorkOf, VerdictOf
<1>2. /\ wire' \subseteq wire \cup {<<d, verdict[d]>>} /\ wire' \subseteq Deliveries \X Verdicts
      /\ settled \subseteq settled' /\ settled' \subseteq Deliveries
  BY <1>1, SendParts
<1>3. /\ handler' \in [Deliveries -> LiveStates \cup {"none", "done", "killed"}]
      /\ handler'[d] = "done"
      /\ \A c \in Deliveries \ {d} : handler'[c] = handler[c]
  BY DEF TypeOK
<1>4. TypeOK'
  <2>1. sem' \in 0..WorkerCount
    BY WriterAssumption DEF TypeOK, Release
  <2> QED BY <1>2, <1>3, <2>1
          DEF TypeOK, serverVars, processVars, queueVars, repoVars, Repository!TypeOK
<1>5. Bounds'
  BY DEF Bounds, serverVars
<1>6. Queue'
  <2>1. \A c \in Waiting : c \in Deliveries
    BY DEF Waiting, TypeOK
  <2>2. \A c \in Deliveries : (handler'[c] = "none") = (handler[c] = "none")
    BY <1>1, <1>3
  <2> QED BY <2>1, <2>2 DEF Queue, Waiting, Sent, serverVars, queueVars
<1>7. Causes'
  <2>1. \A c \in Deliveries : handler[c] # "none" => handler'[c] # "none"
    BY <1>3
  <2>2. \A m \in Msgs, n \in 1..MaxDelivered : <<m, n>> \in Deliveries
    BY DEF Deliveries
  <2>3. callback \in Deliveries \cup {NoDelivery} /\ UNCHANGED <<callback, consumer>>
    BY DEF TypeOK, queueVars, serverVars
  <2>4. \A c \in Deliveries : <<c, "ack">> \in wire' => handler'[c] # "none"
    <3>1. handler'[d] # "none"
      BY <1>3
    <3>2. \A c \in Deliveries : <<c, "ack">> \in wire' => <<c, "ack">> \in wire \/ c = d
      BY <1>2
    <3> QED BY <2>1, <3>1, <3>2 DEF Causes
  <2>5. \A c \in Deliveries : <<c, "term">> \in wire' => KindOf[c[1]] = "invalid"
    <3>1. \A c \in Deliveries : <<c, "term">> \in wire' =>
             <<c, "term">> \in wire \/ (c = d /\ verdict[d] = "term")
      BY <1>2
    <3> QED BY <1>1, <3>1 DEF Causes, WorkOf
  <2> QED BY <1>2, <2>1, <2>2, <2>3, <2>4, <2>5 DEF Causes
<1>8. Work'
  <2>1. UNCHANGED <<attempt, verdict, deadLetter, call, rows>>
    BY DEF repoVars
  <2>2. WorkOf(d)'
    BY <1>1, <1>3, <2>1 DEF WorkOf
  <2>3. ASSUME NEW c \in Deliveries, c # d PROVE WorkOf(c)'
    BY <1>3, <2>1, <2>3 DEF Work, WorkOf
  <2> QED BY <2>2, <2>3 DEF Work
<1>9. Slots'
  <2>1. Live' = Live \ {d} /\ d \in Live
    BY <1>1, <1>3 DEF Live, LiveStates
  <2>2. Cardinality(Live) \in Nat
    BY FS_CardinalityType DEF Slots
  <2> QED BY <2>1, <2>2, FS_RemoveElement DEF Slots, Release
<1>10. OnlyValid' /\ DeadLetterIsEarned'
  BY DEF OnlyValid, DeadLetterIsEarned, repoVars
<1> QED BY <1>4, <1>5, <1>6, <1>7, <1>8, <1>9, <1>10

\* The database stores what valid events asked for.
LEMMA DatabaseStoresInv == ASSUME IInv, DatabaseStores PROVE IInv'
<1> USE DEF IInv, DatabaseStores
<1>1. PICK S \in SUBSET {EventOf[c] : c \in {x \in SaveCalls : call[x] # "idle"}} :
         rows' = rows \cup S
  BY DEF Repository!Store
<1>2. call' = call
  BY DEF Repository!Store
<1>3. ASSUME NEW m \in S PROVE m \in Msgs /\ KindOf[m] = "valid"
  <2>1. PICK c \in SaveCalls : call[c] # "idle" /\ m = EventOf[c]
    OBVIOUS
  <2>2. c[1] \in Deliveries /\ c[2] \in 1..MaxAttempts /\ c = <<c[1], c[2]>> /\ m = c[1][1]
    BY <2>1 DEF SaveCalls, EventOf
  <2>3. PICK d \in Deliveries, k \in 1..MaxAttempts : c = <<d, k>> /\ m = d[1]
    BY <2>2
  <2>4. WorkOf(d) /\ call[<<d, k>>] # "idle" /\ k > 0
    BY <2>1, <2>3 DEF Work
  <2>5. attempt[d] # 0
    BY <2>4 DEF WorkOf
  <2> QED BY <2>3, <2>4, <2>5, DeliveryParts DEF WorkOf
<1>4. TypeOK'
  BY <1>1, <1>2, <1>3
     DEF TypeOK, serverVars, ackVars, processVars, queueVars, handlerVars, Repository!TypeOK
<1>5. Bounds' /\ Queue' /\ Causes'
  BY DEF Bounds, Queue, Causes, Waiting, Sent, serverVars, ackVars, queueVars, handlerVars
<1>6. Work'
  BY <1>1, <1>2 DEF Work, WorkOf, handlerVars
<1>7. Slots'
  <2>1. Live' = Live
    BY DEF Live, handlerVars
  <2> QED BY <2>1 DEF Slots, handlerVars
<1>8. OnlyValid' /\ DeadLetterIsEarned'
  BY <1>1, <1>2, <1>3 DEF OnlyValid, DeadLetterIsEarned, handlerVars
<1> QED BY <1>4, <1>5, <1>6, <1>7, <1>8

LEMMA StutterInv == ASSUME IInv, UNCHANGED vars PROVE IInv'
<1> USE DEF IInv, vars
<1>1. TypeOK'
  BY DEF TypeOK, serverVars, ackVars, processVars, queueVars, handlerVars, repoVars,
         Repository!TypeOK
<1>2. Bounds' /\ Queue' /\ Causes'
  BY DEF Bounds, Queue, Causes, Waiting, Sent, serverVars, ackVars, queueVars, handlerVars
<1> QED BY <1>1, <1>2, HandlersFrame

LEMMA NextInv == IInv /\ [Next]_vars => IInv'
<1> SUFFICES ASSUME IInv, [Next]_vars PROVE IInv'
  OBVIOUS
<1>1. CASE Step
  <2>1. CASE Callback
    BY <2>1, PutBackInv, HandleSpawnInv, CallbackReturnsInv DEF Callback
  <2>2. ASSUME NEW d \in Deliveries, Handler(d) PROVE IInv'
    BY <2>2, HandleInvalidInv, StartAttemptInv, SaveSucceedsInv, SaveFailsInv,
       BackoffExpiresInv, SettleInv DEF Handler
  <2>3. CASE Shutdown \/ WaitHandlers \/ CloseConnection \/ ReturnFromRun
             \/ Exit \/ Crash \/ Restart
    BY <2>3, MainInv, ProcessEndsInv, RestartInv
  <2> QED BY <1>1, <2>1, <2>2, <2>3, AckWaitExpiresInv, ServerReceivesInv,
             DeleteConsumerInv, DatabaseStoresInv DEF Step
<1>2. ASSUME NEW m \in Msgs, Deliver(m) PROVE IInv'
  BY <1>2, DeliverInv
<1>3. CASE Idle \/ UNCHANGED vars
  BY <1>3, StutterInv DEF Idle
<1> QED BY <1>1, <1>2, <1>3 DEF Next

-----------------------------------------------------------------------------
(* Theorems.                                                               *)

\* What holds of the Writer in every state it reaches.
THEOREM Invariance == SafeSpec => []IInv
<1> QED BY InitInv, NextInv, PTL DEF SafeSpec

\* Types: no message is delivered more often than its consumers allow, and no
\* more than WorkerCount slots are taken.
THEOREM TypeCorrect == SafeSpec => []TypeOK
<1>1. IInv => TypeOK
  BY DEF IInv
<1> QED BY <1>1, Invariance, PTL

\* The semaphore counts the handler goroutines, on every path on which one ends.
THEOREM NoSlotLeaks == SafeSpec => []SlotsMatchHandlers
<1>1. IInv => SlotsMatchHandlers
  BY DEF IInv, Slots, SlotsMatchHandlers
<1> QED BY <1>1, Invariance, PTL

\* Handle returns nil only for an event that is in the table.
THEOREM NilIsStored == SafeSpec => []NilMeansStored
<1>1. IInv => NilMeansStored
  BY DEF IInv, Work, WorkOf, NilMeansStored
<1> QED BY <1>1, Invariance, PTL

\* A DEAD LETTER line follows a delivery all of whose attempts failed.
THEOREM DeadLetterEarned == SafeSpec => []DeadLetterIsEarned
<1>1. IInv => DeadLetterIsEarned
  BY DEF IInv
<1> QED BY <1>1, Invariance, PTL

\* What JetStream holds as acknowledged was handed to a handler, what it holds
\* as terminated is invalid, what it has given up was delivered MaxDeliver
\* times, and only valid events are in the table.
THEOREM EndsHaveCauses == SafeSpec => []EndHasCause
<1>1. ASSUME IInv PROVE EndHasCause
  <2>1. \A m \in Msgs : m \in rows => KindOf[m] = "valid"
    BY <1>1 DEF IInv, OnlyValid
  <2> QED BY <1>1, <2>1 DEF IInv, Causes, Bounds, EndHasCause
<1> QED BY <1>1, Invariance, PTL

-----------------------------------------------------------------------------
(* What the Writer asks of its repository.                                 *)

\* An attempt is only made when all before it have failed, so that no handler
\* has two calls of Save on their way, nor saves what it has saved.
RetriesFollowFailures ==
    \A d \in Deliveries, j, k \in 1..MaxAttempts :
        j < k /\ call[<<d, k>>] # "idle" => call[<<d, j>>] = "error"

\* However attempts, contexts, crashes and redeliveries interleave, the loop of
\* Handle has one call of Save on its way, and makes none after a nil.
THEOREM OneSaveAtATime == SafeSpec => []RetriesFollowFailures
<1>1. ASSUME IInv PROVE RetriesFollowFailures
  <2>1. ASSUME NEW d \in Deliveries, NEW j \in 1..MaxAttempts, NEW k \in 1..MaxAttempts,
               j < k, call[<<d, k>>] # "idle"
        PROVE  call[<<d, j>>] = "error"
    <3>1. attempt[d] \in 0..MaxAttempts /\ WorkOf(d)
      BY <1>1 DEF IInv, TypeOK, Work
    <3>2. j < attempt[d]
      BY <2>1, <3>1, WriterAssumption DEF WriterAssumption, WorkOf
    <3> QED BY <3>1, <3>2 DEF WorkOf
  <2> QED BY <2>1 DEF RetriesFollowFailures
<1> QED BY <1>1, Invariance, PTL

LEMMA PortStep ==
    ASSUME IInv, Next
    PROVE  [Repository!Next]_(Repository!vars)
<1>1. ASSUME UNCHANGED repoVars PROVE UNCHANGED Repository!vars
  BY <1>1 DEF repoVars, Repository!vars
<1>2. CASE \E m \in Msgs : Deliver(m) \/ AckWaitExpires(m)
  BY <1>1, <1>2 DEF Deliver, AckWaitExpires
<1>3. CASE \E d \in Deliveries, v \in Verdicts : ServerReceives(d, v)
  BY <1>1, <1>3 DEF ServerReceives
<1>4. CASE DeleteConsumer \/ Shutdown \/ WaitHandlers \/ CloseConnection
           \/ ReturnFromRun \/ Exit \/ Crash \/ Restart \/ Idle
  BY <1>1, <1>4 DEF DeleteConsumer, Shutdown, WaitHandlers, CloseConnection,
     ReturnFromRun, Exit, Crash, ProcessEnds, Restart, Idle, vars
<1>5. CASE Callback
  BY <1>1, <1>5 DEF Callback, HandleMalformed, HandleSaturated, HandleSpawn, Dispatch,
     PutBack, CallbackReturns
<1>6. CASE DatabaseStores
  BY <1>6 DEF DatabaseStores, Repository!Next
<1>7. ASSUME NEW d \in Deliveries, Handler(d)
      PROVE  [Repository!Next]_(Repository!vars)
  <2>1. CASE HandleInvalid(d) \/ BackoffExpires(d) \/ Settle(d)
    BY <1>1, <2>1 DEF HandleInvalid, BackoffExpires, Settle
  <2>2. CASE StartAttempt(d)
    <3>1. WorkOf(d) /\ handler[d] \in {"started", "backoff"} /\ attempt[d] \in 0..MaxAttempts
      BY <2>2 DEF StartAttempt, At, IInv, TypeOK, Work
    <3>2. <<d, attempt[d] + 1>> \in SaveCalls
      BY <3>1, WriterAssumption DEF WorkOf, SaveCalls
    <3> QED BY <2>2, <3>2 DEF StartAttempt, Repository!Next
  <2>3. CASE SaveSucceeds(d) \/ SaveFails(d)
    <3>1. <<d, attempt[d]>> \in SaveCalls
      BY <2>3 DEF SaveSucceeds, SaveFails, At, IInv, Work, WorkOf, SaveCalls
    <3> QED BY <2>3, <3>1 DEF SaveSucceeds, SaveFails, Repository!Next
  <2> QED BY <1>7, <2>1, <2>2, <2>3 DEF Handler
<1> QED BY <1>2, <1>3, <1>4, <1>5, <1>6, <1>7 DEF Next, Step

\* Every step of the Writer, of its crashes and of its consumer is at the
\* repository a step of the port, or none: what WritePool was shown to give to
\* whoever keeps to the port (PoolImplementsPort), it gives to the Writer.
THEOREM WriterKeepsToPort == SafeSpec => Repository!SafeSpec
<1>1. Init => Repository!Init
  BY DEF Init
<1>2. IInv /\ [Next]_vars => [Repository!Next]_(Repository!vars)
  <2>1. UNCHANGED vars => UNCHANGED Repository!vars
    BY DEF vars, repoVars, Repository!vars
  <2> QED BY <2>1, PortStep
<1> QED BY <1>1, <1>2, Invariance, PTL DEF SafeSpec, Repository!SafeSpec

-----------------------------------------------------------------------------
(* What nats.ManualAck() would be worth.                                   *)

\* Acknowledgements come from Handle's nil: by its verdict, as nobody else
\* sends one, and a verdict is given once.
LEMMA AckFromVerdict ==
    ASSUME IInv, ~AutoAck, Next
    PROVE  /\ \A d \in Deliveries : <<d, "ack">> \in wire' =>
                 <<d, "ack">> \in wire \/ verdict[d] = "ack"
           /\ \A d \in Deliveries : verdict[d] = "ack" => verdict'[d] = "ack"
<1>1. ASSUME UNCHANGED <<wire, verdict>>
      PROVE  /\ \A d \in Deliveries : <<d, "ack">> \in wire' =>
                   <<d, "ack">> \in wire \/ verdict[d] = "ack"
             /\ \A d \in Deliveries : verdict[d] = "ack" => verdict'[d] = "ack"
  BY <1>1
<1>2. CASE \E m \in Msgs : Deliver(m) \/ AckWaitExpires(m)
  BY <1>1, <1>2 DEF Deliver, AckWaitExpires, ackVars, handlerVars
<1>3. CASE \E d \in Deliveries, v \in Verdicts : ServerReceives(d, v)
  BY <1>3 DEF ServerReceives, handlerVars
<1>4. CASE DeleteConsumer \/ DatabaseStores \/ Shutdown \/ WaitHandlers
           \/ CloseConnection \/ ReturnFromRun \/ Exit \/ Crash \/ Restart \/ Idle
  BY <1>1, <1>4 DEF DeleteConsumer, DatabaseStores, Shutdown, WaitHandlers,
     CloseConnection, ReturnFromRun, Exit, Crash, ProcessEnds, Restart, Idle, vars,
     ackVars, handlerVars
<1>5. ASSUME NEW c \in Deliveries, HandleMalformed(c) \/ HandleSaturated(c) \/ HandleSpawn(c)
      PROVE  /\ \A d \in Deliveries : <<d, "ack">> \in wire' => <<d, "ack">> \in wire
             /\ verdict' = verdict
  <2>1. verdict' = verdict
    BY <1>5 DEF HandleMalformed, HandleSaturated, HandleSpawn, Dispatch
  <2>2. wire' \subseteq wire \cup {<<c, "nak">>}
    BY <1>5 DEF HandleMalformed, HandleSaturated, HandleSpawn, PutBack, Send, ackVars
  <2> QED BY <2>1, <2>2
<1>6. CASE CallbackReturns
  BY <1>1, <1>6 DEF CallbackReturns, ackVars, handlerVars
<1>7. ASSUME NEW c \in Deliveries,
             HandleInvalid(c) \/ StartAttempt(c) \/ SaveSucceeds(c) \/ SaveFails(c)
                \/ BackoffExpires(c)
      PROVE  /\ wire' = wire
             /\ \A d \in Deliveries : verdict[d] = "ack" => verdict'[d] = "ack"
  <2>1. wire' = wire
    BY <1>7 DEF HandleInvalid, StartAttempt, SaveSucceeds, SaveFails, BackoffExpires, ackVars
  <2>2. handler[c] \in {"started", "saving", "backoff"}
    BY <1>7 DEF HandleInvalid, StartAttempt, SaveSucceeds, SaveFails, BackoffExpires, At
  <2>3. verdict[c] # "ack"
    BY <2>2 DEF IInv, Work, WorkOf
  <2>4. \E v : verdict' = [verdict EXCEPT ![c] = v] \/ verdict' = verdict
    BY <1>7 DEF HandleInvalid, StartAttempt, SaveSucceeds, SaveFails, BackoffExpires,
       Return, Backoff, Saved, Interrupted
  <2> QED BY <2>1, <2>3, <2>4 DEF IInv, TypeOK
<1>8. ASSUME NEW c \in Deliveries, Settle(c)
      PROVE  /\ wire' \subseteq wire \cup {<<c, verdict[c]>>}
             /\ verdict' = verdict
  BY <1>8 DEF Settle, Send, VerdictOf, ackVars
<1> QED BY <1>2, <1>3, <1>4, <1>5, <1>6, <1>7, <1>8 DEF Next, Step, Callback, Handler

\* A message becomes acknowledged by an acknowledgement that was on its way.
LEMMA AckedByWire ==
    ASSUME IInv, Next, NEW m \in Msgs, consumer'[m] = "acked"
    PROVE  consumer[m] = "acked" \/ \E d \in Deliveries : d[1] = m /\ <<d, "ack">> \in wire
<1>1. CASE consumer' = consumer
  BY <1>1
<1>2. ASSUME NEW x \in Msgs, Deliver(x) \/ AckWaitExpires(x)
      PROVE  consumer[m] = "acked"
  <2>1. \E s \in {"pending", "ready", "exhausted"} : consumer' = [consumer EXCEPT ![x] = s]
    BY <1>2 DEF Deliver, AckWaitExpires, Requeued
  <2> QED BY <2>1 DEF IInv, TypeOK
<1>3. ASSUME NEW d \in Deliveries, NEW v \in Verdicts, ServerReceives(d, v)
      PROVE  consumer[m] = "acked" \/ (d[1] = m /\ <<d, "ack">> \in wire)
  <2>1. \E s : /\ consumer' = [consumer EXCEPT ![d[1]] = s]
               /\ s = "acked" => v = "ack" \/ s = consumer[d[1]]
    <3> DEFINE x == d[1]
               s == CASE Outstanding(x) /\ v = "ack"                 -> "acked"
                      [] Outstanding(x) /\ v = "term"                -> "termed"
                      [] Outstanding(x) /\ v = "nak" /\ consumer[x] = "pending" -> Requeued(x)
                      [] OTHER                                       -> consumer[x]
    <3>1. consumer' = [consumer EXCEPT ![x] = s]
      BY <1>3 DEF ServerReceives
    <3>2. Requeued(x) # "acked"
      BY DEF Requeued
    <3>3. s = "acked" => v = "ack" \/ s = consumer[x]
      BY <3>2
    <3> QED BY <3>1, <3>3
  <2>2. <<d, v>> \in wire
    BY <1>3 DEF ServerReceives
  <2> QED BY <2>1, <2>2 DEF IInv, TypeOK
<1>4. CASE DeleteConsumer \/ DatabaseStores \/ Shutdown \/ WaitHandlers
           \/ CloseConnection \/ ReturnFromRun \/ Exit \/ Crash \/ Idle \/ Callback
  BY <1>1, <1>4 DEF DeleteConsumer, DatabaseStores, Shutdown, WaitHandlers, CloseConnection,
     ReturnFromRun, Exit, Crash, ProcessEnds, Idle, vars, serverVars, Callback,
     HandleMalformed, HandleSaturated, HandleSpawn, Dispatch, CallbackReturns
<1>5. CASE Restart
  BY <1>5 DEF Restart, FirstState
<1>6. ASSUME NEW d \in Deliveries, Handler(d) PROVE consumer' = consumer
  BY <1>6 DEF Handler, HandleInvalid, StartAttempt, SaveSucceeds, SaveFails, BackoffExpires,
     Settle, At, serverVars
<1> QED BY <1>1, <1>2, <1>3, <1>4, <1>5, <1>6 DEF Next, Step

\* The table only grows.
LEMMA RowsStay == ASSUME IInv, Next PROVE rows \subseteq rows'
<1>1. CASE DatabaseStores
  BY <1>1 DEF DatabaseStores, Repository!Store
<1>2. CASE Callback \/ \E d \in Deliveries : Handler(d)
  BY <1>2 DEF Callback, HandleMalformed, HandleSaturated, HandleSpawn, Dispatch,
     CallbackReturns, Handler, HandleInvalid, StartAttempt, SaveSucceeds, SaveFails,
     BackoffExpires, Settle, repoVars, Repository!Start, Repository!ReturnOk,
     Repository!ReturnError
<1>3. CASE (\E m \in Msgs : Deliver(m) \/ AckWaitExpires(m))
           \/ (\E d \in Deliveries, v \in Verdicts : ServerReceives(d, v))
           \/ DeleteConsumer \/ Shutdown \/ WaitHandlers \/ CloseConnection
           \/ ReturnFromRun \/ Exit \/ Crash \/ Restart \/ Idle
  BY <1>3 DEF Deliver, AckWaitExpires, ServerReceives, DeleteConsumer, Shutdown,
     WaitHandlers, CloseConnection, ReturnFromRun, Exit, Crash, ProcessEnds, Restart,
     Idle, vars, repoVars
<1> QED BY <1>1, <1>2, <1>3 DEF Next, Step

\* The inductive invariant of acknowledgements, with IInv.
AcksAreTrue == AckAfterHandle /\ AckMeansStored

LEMMA AcksStep ==
    ASSUME IInv, ~AutoAck, AcksAreTrue, [Next]_vars
    PROVE  AcksAreTrue'
<1>1. CASE Next
  <2>1. AckAfterHandle'
    BY <1>1, AckFromVerdict DEF AcksAreTrue, AckAfterHandle
  <2>2. AckMeansStored'
    <3>1. SUFFICES ASSUME NEW m \in Msgs, consumer'[m] = "acked" PROVE m \in rows'
      BY DEF AckMeansStored
    <3>2. CASE consumer[m] = "acked"
      BY <1>1, <3>2, RowsStay DEF AcksAreTrue, AckMeansStored
    <3>3. ASSUME NEW d \in Deliveries, d[1] = m, <<d, "ack">> \in wire
          PROVE  m \in rows
      <4>1. verdict[d] = "ack"
        BY <3>3 DEF AcksAreTrue, AckAfterHandle
      <4> QED BY <3>3, <4>1 DEF IInv, Work, WorkOf
    <3> QED BY <1>1, <3>1, <3>2, <3>3, AckedByWire, RowsStay
  <2> QED BY <2>1, <2>2 DEF AcksAreTrue
<1>2. CASE UNCHANGED vars
  BY <1>2 DEF AcksAreTrue, AckAfterHandle, AckMeansStored, vars, serverVars, ackVars,
     handlerVars, repoVars
<1> QED BY <1>1, <1>2

\* One option decides what an acknowledgement is worth: with nats.ManualAck()
\* it would be sent only after Handle has returned nil, and JetStream would
\* hold as acknowledged only what is in the table, whatever crashes, expires,
\* is lost or is delivered again, and whoever deletes the consumer.  The run
\* writer_autoack refutes the same of the code, which does without the option.
THEOREM ManualAckIsTrue ==
    ASSUME ~AutoAck
    PROVE  SafeSpec => [](AckAfterHandle /\ AckMeansStored)
<1>1. Init => AcksAreTrue
  BY DEF Init, AcksAreTrue, AckAfterHandle, AckMeansStored
<1>2. IInv /\ AcksAreTrue /\ [Next]_vars => AcksAreTrue'
  BY AcksStep
<1>3. AcksAreTrue => AckAfterHandle /\ AckMeansStored
  BY DEF AcksAreTrue
<1> QED BY <1>1, <1>2, <1>3, Invariance, PTL DEF SafeSpec
=============================================================================
