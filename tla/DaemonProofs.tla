----------------------------- MODULE DaemonProofs -----------------------------
(***************************************************************************)
(* Proofs about Daemon, for any number of daemons, of tries and of events: *)
(* the inductive invariant IInv and the safety properties it implies.      *)
(***************************************************************************)
EXTENDS Daemon, TLAPS

InStream(e) == \E i \in DOMAIN stream : stream[i] = e

\* The event has left no trace on the wire or in the stream.
Unsent(e) == (\A m \in wire : m.event # e) /\ ~InStream(e)

\* No try of the current event sends a message any more.
Stuck(d) == Over(d) \/ conn[d] = "closed"

\* The counters of the current event agree with the place in the loop.
Counted ==
    /\ \A d \in Daemons : pc[d] \in Publishing =>
          /\ generated[d] \in 1..MaxEvents
          /\ tried[Current(d)] = try[d]
          /\ pc[d] = "try" => try[d] < MaxRetries
          /\ pc[d] # "try" => try[d] \in Tries
    /\ \A e \in Events : e[2] > generated[e[1]] => tried[e] = 0

\* What is on its way, or stored, belongs to an event that was generated, and
\* to a try that was made.
Made ==
    /\ \A m \in wire : m.event[2] <= generated[m.event[1]]
    /\ \A a \in answers : a.message.event[2] <= generated[a.message.event[1]]
    /\ \A i \in DOMAIN stream : stream[i][2] <= generated[stream[i][1]]
    /\ \A d \in Daemons, a \in answers :
          pc[d] \in Publishing /\ a.message.event = Current(d) => a.message.try <= try[d]
    /\ \A d \in Daemons, m \in wire :
          pc[d] \in Publishing /\ m.event = Current(d) => m.try <= try[d]

\* An event has at most one message on the wire, and none once it is stored.
OneMessage ==
    /\ \A m, n \in wire : m.event = n.event => m = n
    /\ \A m \in wire : ~InStream(m.event)

\* Another try only follows when the earlier ones have left no trace, or when
\* it cannot send anything.
CleanRetry ==
    \A d \in Daemons :
        /\ pc[d] \in {"try", "sleep"} => Stuck(d) \/ Unsent(Current(d))
        /\ pc[d] = "waiting" =>
              /\ \A m \in wire : m.event = Current(d) => m.try = try[d]
              /\ \A a \in answers :
                    a.message = Message(d) /\ ~a.ok => Unsent(Current(d))

\* Good news is true.
Backed == \A a \in answers : a.ok => InStream(a.message.event)

\* An event that was stored after a later one of its daemon was reported lost.
LateIsLost ==
    \A i, j \in DOMAIN stream :
        i < j /\ stream[i][1] = stream[j][1] =>
            \/ stream[i][2] < stream[j][2]
            \/ stream[j][2] < generated[stream[j][1]] /\ result[stream[j]] # "nil"

IInv ==
    /\ TypeOK
    /\ Counted
    /\ Made
    /\ OneMessage
    /\ CleanRetry
    /\ Backed
    /\ NilMeansPersisted
    /\ PersistedOnce
    /\ LateIsLost

-----------------------------------------------------------------------------
(* Events and the stream.                                                  *)

LEMMA EventParts ==
    ASSUME NEW e \in Events
    PROVE  e[1] \in Daemons /\ e[2] \in 1..MaxEvents /\ e = <<e[1], e[2]>>
BY DEF Events

\* The event a daemon publishes is one of the model's, and its own.
LEMMA CurrentParts ==
    ASSUME Counted, NEW d \in Daemons, pc[d] \in Publishing
    PROVE  Current(d) \in Events /\ Current(d)[1] = d /\ Current(d)[2] = generated[d]
<1>1. generated[d] \in 1..MaxEvents
  BY DEF Counted
<1> QED BY <1>1 DEF Current, Events

\* Appending an event adds it to those in the stream.
LEMMA AppendParts ==
    ASSUME NEW s \in Seq(Events), NEW e \in Events
    PROVE  /\ Append(s, e) \in Seq(Events)
           /\ DOMAIN s = 1..Len(s) /\ Len(s) \in Nat
           /\ DOMAIN Append(s, e) = 1..Len(s)+1
           /\ \A i \in 1..Len(s) : Append(s, e)[i] = s[i] /\ s[i] \in Events
           /\ Append(s, e)[Len(s)+1] = e
OBVIOUS

-----------------------------------------------------------------------------
(* The invariant is inductive: one lemma per action.                       *)

LEMMA InitInv == Init => IInv
<1> SUFFICES ASSUME Init PROVE IInv
  OBVIOUS
<1> USE DaemonAssumption DEF Init
<1>1. TypeOK
  BY DEF TypeOK, Places, Events, Tries
<1>2. Counted /\ Made /\ OneMessage /\ CleanRetry /\ Backed
  BY DEF Counted, Made, OneMessage, CleanRetry, Backed, Publishing
<1>3. NilMeansPersisted /\ PersistedOnce /\ LateIsLost
  BY DEF NilMeansPersisted, PersistedOnce, LateIsLost
<1> QED BY <1>1, <1>2, <1>3 DEF IInv

\* The next event leaves no trace yet.
LEMMA EmitInv == ASSUME IInv, NEW d \in Daemons, Emit(d) PROVE IInv'
<1> USE DaemonAssumption DEF IInv, Emit
<1>1. TypeOK'
  BY DEF TypeOK, Places
<1>2. Counted'
  <2>1. generated'[d] = generated[d] + 1 /\ generated[d] \in 0..MaxEvents /\ try'[d] = 0
    BY DEF TypeOK
  <2>2. Current(d)' \in Events /\ Current(d)'[1] = d /\ Current(d)'[2] > generated[d]
    BY <2>1 DEF Current, Events
  <2>3. tried[Current(d)'] = 0
    BY <2>2 DEF Counted
  <2>4. ASSUME NEW c \in Daemons, pc'[c] \in Publishing
        PROVE  /\ generated'[c] \in 1..MaxEvents
               /\ tried'[Current(c)'] = try'[c]
               /\ pc'[c] = "try" => try'[c] < MaxRetries
               /\ pc'[c] # "try" => try'[c] \in Tries
    <3>1. CASE c = d
      BY <2>1, <2>3, <3>1 DEF TypeOK
    <3>2. CASE c # d
      <4>1. pc'[c] = pc[c] /\ generated'[c] = generated[c] /\ try'[c] = try[c]
        BY <3>2 DEF TypeOK
      <4> QED BY <2>4, <4>1 DEF Counted, Current
    <3> QED BY <3>1, <3>2
  <2>5. ASSUME NEW e \in Events, e[2] > generated'[e[1]] PROVE tried'[e] = 0
    <3>1. generated'[e[1]] >= generated[e[1]] /\ e[2] \in Nat
      BY EventParts, <2>1 DEF TypeOK
    <3>2. generated[e[1]] \in Nat /\ generated'[e[1]] \in Nat
      BY EventParts, <2>1 DEF TypeOK
    <3>3. e[2] > generated[e[1]]
      BY <2>5, <3>1, <3>2
    <3> QED BY <3>3 DEF Counted
  <2> QED BY <2>4, <2>5 DEF Counted
<1> DEFINE Grows == \A e \in Events : e[2] <= generated[e[1]] => e[2] <= generated'[e[1]]
<1>grows. Grows
  BY EventParts DEF TypeOK
<1>new. \A e \in Events : e[2] <= generated[e[1]] => e # Current(d)'
  BY EventParts DEF TypeOK, Current
<1>3. Made'
  <2>1. \A a \in answers : a.message \in [event : Events, try : Tries]
    BY DEF TypeOK
  <2>2. ASSUME NEW c \in Daemons, NEW a \in answers,
               pc'[c] \in Publishing, a.message.event = Current(c)'
        PROVE  a.message.try <= try'[c]
    <3>1. c # d
      BY <2>1, <2>2, <1>new DEF Made
    <3>2. pc'[c] = pc[c] /\ try'[c] = try[c] /\ Current(c)' = Current(c)
      BY <3>1 DEF TypeOK, Current
    <3> QED BY <2>2, <3>2 DEF Made
  <2>3. \A i \in DOMAIN stream : stream[i] \in Events
    BY DEF TypeOK
  <2>4. \A m \in wire : m.event \in Events
    BY DEF TypeOK
  <2>5. ASSUME NEW c \in Daemons, NEW m \in wire,
               pc'[c] \in Publishing, m.event = Current(c)'
        PROVE  m.try <= try'[c]
    <3>1. c # d
      BY <2>4, <2>5, <1>new DEF Made
    <3>2. pc'[c] = pc[c] /\ try'[c] = try[c] /\ Current(c)' = Current(c)
      BY <3>1 DEF TypeOK, Current
    <3> QED BY <2>5, <3>2 DEF Made
  <2> QED BY <1>grows, <2>1, <2>2, <2>3, <2>4, <2>5 DEF Made
<1>4. OneMessage' /\ Backed'
  BY DEF OneMessage, Backed, InStream
<1>5. CleanRetry'
  BY DEF CleanRetry, Made, TypeOK, Current, Message, Unsent, InStream, Stuck, Over
<1>6. NilMeansPersisted' /\ PersistedOnce'
  BY DEF NilMeansPersisted, PersistedOnce
<1>7. LateIsLost'
  <2>1. ASSUME NEW e \in Events, e[2] < generated[e[1]] PROVE e[2] < generated'[e[1]]
    BY <2>1, EventParts DEF TypeOK
  <2>2. \A i \in DOMAIN stream : stream[i] \in Events
    BY DEF TypeOK
  <2> QED BY <2>1, <2>2 DEF LateIsLost
<1> QED BY <1>1, <1>2, <1>3, <1>4, <1>5, <1>6, <1>7

\* A step of daemon d that leaves the wire, the answers and the stream alone.
LEMMA LocalStep ==
    ASSUME IInv, TypeOK', NEW d \in Daemons,
           UNCHANGED <<generated, try, tried, wire, answers, stream>>,
           \A c \in Daemons \ {d} :
              pc'[c] = pc[c] /\ Over(c)' = Over(c) /\ conn'[c] = conn[c],
           pc'[d] \in Publishing => pc[d] \in Publishing,
           pc'[d] = "try" => try[d] < MaxRetries,
           pc'[d] \in {"waiting", "sleep"} => try[d] \in Tries,
           pc'[d] = "waiting" => pc[d] = "waiting",
           pc'[d] \in {"try", "sleep"} => Stuck(d)' \/ Unsent(Current(d)),
           \A e \in Events : \/ result'[e] = result[e]
                            \/ /\ e[2] = generated[e[1]]
                               /\ result'[e] = "nil" => InStream(e)
    PROVE  IInv'
<1> USE DEF IInv
<1>1. Counted'
  <2>1. ASSUME NEW c \in Daemons, pc'[c] \in Publishing
        PROVE  /\ generated[c] \in 1..MaxEvents
               /\ tried[Current(c)] = try[c]
               /\ pc'[c] = "try" => try[c] < MaxRetries
               /\ pc'[c] # "try" => try[c] \in Tries
    BY <2>1 DEF Counted, Publishing
  <2> QED BY <2>1 DEF Counted, Current
<1>2. Made'
  <2>1. \A c \in Daemons : pc'[c] \in Publishing => pc[c] \in Publishing
    OBVIOUS
  <2> QED BY <2>1 DEF Made, Current
<1>3. OneMessage' /\ Backed'
  BY DEF OneMessage, Backed, InStream
<1>4. CleanRetry'
  <2>1. \A e : Unsent(e)' = Unsent(e)
    BY DEF Unsent, InStream
  <2>2. \A c \in Daemons : Current(c)' = Current(c) /\ Message(c)' = Message(c)
    BY DEF Current, Message
  <2>3. \A c \in Daemons \ {d} : Stuck(c)' = Stuck(c)
    BY DEF Stuck
  <2>4. ASSUME NEW c \in Daemons, pc'[c] \in {"try", "sleep"}
        PROVE  Stuck(c)' \/ Unsent(Current(c))
    BY <2>3, <2>4 DEF CleanRetry
  <2>5. \A c \in Daemons : pc'[c] = "waiting" => pc[c] = "waiting"
    OBVIOUS
  <2> QED BY <2>1, <2>2, <2>4, <2>5 DEF CleanRetry
<1>5. NilMeansPersisted'
  BY DEF NilMeansPersisted, InStream
<1>6. PersistedOnce'
  BY DEF PersistedOnce
<1>7. LateIsLost'
  <2>1. \A i \in DOMAIN stream : stream[i] \in Events
    BY DEF TypeOK
  <2>2. ASSUME NEW e \in Events, e[2] < generated[e[1]], result[e] # "nil"
        PROVE  result'[e] # "nil"
    BY <2>2, EventParts DEF TypeOK
  <2> QED BY <2>1, <2>2 DEF LateIsLost
<1> QED BY <1>1, <1>2, <1>3, <1>4, <1>5, <1>6, <1>7

LEMMA EmitStopsInv == ASSUME IInv, NEW d \in Daemons, EmitStops(d) PROVE IInv'
<1> USE DEF EmitStops
<1>1. TypeOK'
  BY DEF IInv, TypeOK, Places
<1>2. pc'[d] = "stopped"
  BY DEF IInv, TypeOK
<1> QED BY <1>1, <1>2, LocalStep DEF IInv, TypeOK, Publishing, Over

\* The signal ends the tries, as the deadline does.
LEMMA SignalInv == ASSUME IInv, NEW d \in Daemons, Signal(d) PROVE IInv'
<1> USE DEF Signal
<1>1. TypeOK'
  BY DEF IInv, TypeOK
<1>2. Over(d)' /\ \A c \in Daemons \ {d} : Over(c)' = Over(c)
  BY DEF IInv, TypeOK, Over
<1>3. /\ pc[d] = "try" => try[d] < MaxRetries
      /\ pc[d] \in {"waiting", "sleep"} => try[d] \in Tries
  BY DEF IInv, Counted, Publishing
<1> QED BY <1>1, <1>2, <1>3, LocalStep DEF Stuck

LEMMA DeadlineInv == ASSUME IInv, NEW d \in Daemons, Deadline(d) PROVE IInv'
<1> USE DEF Deadline
<1>1. TypeOK'
  BY DEF IInv, TypeOK
<1>2. Over(d)' /\ \A c \in Daemons \ {d} : Over(c)' = Over(c)
  BY DEF IInv, TypeOK, Over
<1>3. /\ pc[d] = "try" => try[d] < MaxRetries
      /\ pc[d] \in {"waiting", "sleep"} => try[d] \in Tries
  BY DEF IInv, Counted, Publishing
<1> QED BY <1>1, <1>2, <1>3, LocalStep DEF Stuck

\* The process that starts again works on no event.
LEMMA CrashInv == ASSUME IInv, NEW d \in Daemons, Crash(d) PROVE IInv'
<1> USE DEF Crash
<1>1. TypeOK'
  BY DEF IInv, TypeOK, Places
<1>2. pc'[d] = "limit"
  BY DEF IInv, TypeOK
<1>3. \A c \in Daemons \ {d} : pc'[c] = pc[c] /\ Over(c)' = Over(c) /\ conn'[c] = conn[c]
  BY DEF IInv, TypeOK, Over
<1> QED BY <1>1, <1>2, <1>3, LocalStep DEF Publishing

\* The deadline is over, and stays so.
LEMMA PublishExpiresInv == ASSUME IInv, NEW d \in Daemons, PublishExpires(d) PROVE IInv'
<1> USE DEF PublishExpires
<1>1. TypeOK'
  BY DEF IInv, TypeOK, Places
<1>2. pc'[d] = "sleep" /\ Stuck(d)'
  BY DEF IInv, TypeOK, Stuck, Over
<1>3. \A c \in Daemons \ {d} : pc'[c] = pc[c] /\ Over(c)' = Over(c) /\ conn'[c] = conn[c]
  BY DEF IInv, TypeOK, Over
<1>4. try[d] \in Tries
  BY DEF IInv, Counted, Publishing
<1> QED BY <1>1, <1>2, <1>3, <1>4, LocalStep DEF Publishing

\* So does the connection.
LEMMA ConnectionClosesInv == ASSUME IInv, NEW d \in Daemons, ConnectionCloses(d) PROVE IInv'
<1> USE DEF ConnectionCloses
<1>1. TypeOK'
  BY DEF IInv, TypeOK, Places
<1>2. Stuck(d)' /\ pc'[d] # "waiting"
  BY DEF IInv, TypeOK, Stuck
<1>3. \A c \in Daemons \ {d} : pc'[c] = pc[c] /\ Over(c)' = Over(c) /\ conn'[c] = conn[c]
  BY DEF IInv, TypeOK, Over
<1>4. /\ pc[d] = "try" => try[d] < MaxRetries
      /\ pc[d] \in {"waiting", "sleep"} => try[d] \in Tries
  BY DEF IInv, Counted, Publishing
<1>5. pc'[d] = pc[d] \/ (pc[d] = "waiting" /\ pc'[d] = "sleep")
  BY DEF IInv, TypeOK
<1> QED BY <1>1, <1>2, <1>3, <1>4, <1>5, LocalStep DEF Publishing

\* Return only touches the result of the current event.
LEMMA ReturnParts ==
    ASSUME IInv, NEW d \in Daemons, pc[d] \in Publishing,
           NEW res \in {"nil", "error"}, Return(d, res),
           res = "nil" => InStream(Current(d))
    PROVE  /\ pc' \in [Daemons -> Places] /\ pc'[d] = "limit"
           /\ \A c \in Daemons \ {d} : pc'[c] = pc[c]
           /\ result' \in [Events -> {"none", "nil", "error"}]
           /\ \A e \in Events : \/ result'[e] = result[e]
                                \/ /\ e[2] = generated[e[1]]
                                   /\ result'[e] = "nil" => InStream(e)
<1>1. Current(d) \in Events /\ Current(d)[1] = d /\ Current(d)[2] = generated[d]
  BY CurrentParts DEF IInv
<1>2. \A e \in Events : result'[e] = IF e = Current(d) THEN res ELSE result[e]
  BY DEF IInv, TypeOK, Return
<1> QED BY <1>1, <1>2 DEF IInv, TypeOK, Return, Places

LEMMA PublishGivesUpInv == ASSUME IInv, NEW d \in Daemons, PublishGivesUp(d) PROVE IInv'
<1> USE DEF PublishGivesUp
<1>1. pc[d] \in Publishing /\ Return(d, "error")
  BY DEF Publishing
<1>2. TypeOK'
  BY <1>1, ReturnParts DEF IInv, TypeOK
<1>3. \A c \in Daemons : Over(c)' = Over(c)
  BY DEF Over
<1> QED BY <1>1, <1>2, <1>3, ReturnParts, LocalStep DEF Publishing

\* An acknowledgement is true; after a refusal the event has left no trace.
LEMMA PublishAnsweredInv == ASSUME IInv, NEW d \in Daemons, PublishAnswered(d) PROVE IInv'
<1> USE DEF PublishAnswered
<1>0. pc[d] \in Publishing /\ pc[d] = "waiting"
  BY DEF Publishing
<1>1. PICK a \in answers :
         /\ a.message = Message(d)
         /\ IF a.ok THEN Return(d, "nil")
                    ELSE pc' = [pc EXCEPT ![d] = "sleep"] /\ UNCHANGED result
  OBVIOUS
<1>2. \A c \in Daemons : Over(c)' = Over(c)
  BY DEF Over
<1>3. CASE a.ok
  <2>1. Return(d, "nil") /\ InStream(Current(d))
    BY <1>1, <1>3 DEF IInv, Backed, Message
  <2>2. TypeOK'
    BY <1>0, <2>1, ReturnParts DEF IInv, TypeOK
  <2> QED BY <1>0, <1>2, <2>1, <2>2, ReturnParts, LocalStep DEF Publishing
<1>4. CASE ~a.ok
  <2>1. /\ pc' = [pc EXCEPT ![d] = "sleep"] /\ UNCHANGED result
        /\ Unsent(Current(d))
    BY <1>0, <1>1, <1>4 DEF IInv, CleanRetry
  <2>2. TypeOK' /\ pc'[d] = "sleep" /\ \A c \in Daemons \ {d} : pc'[c] = pc[c]
    BY <2>1 DEF IInv, TypeOK, Places
  <2>3. try[d] \in Tries
    BY <1>0 DEF IInv, Counted
  <2> QED BY <1>0, <1>2, <2>1, <2>2, <2>3, LocalStep
<1> QED BY <1>3, <1>4

\* The next try, or the end of the loop.
LEMMA AwakeInv == ASSUME IInv, NEW d \in Daemons, Awake(d) PROVE IInv'
<1> USE DEF Awake
<1>0. pc[d] \in Publishing /\ pc[d] = "sleep"
  BY DEF Publishing
<1>1. \A c \in Daemons : Over(c)' = Over(c) /\ Stuck(c)' = Stuck(c)
  BY DEF Over, Stuck
<1>2. CASE try[d] < MaxRetries
  <2>1. /\ pc' = [pc EXCEPT ![d] = "try"] /\ UNCHANGED result
        /\ Stuck(d) \/ Unsent(Current(d))
    BY <1>0, <1>2 DEF IInv, CleanRetry
  <2>2. TypeOK' /\ pc'[d] = "try" /\ \A c \in Daemons \ {d} : pc'[c] = pc[c]
    BY <2>1 DEF IInv, TypeOK, Places
  <2> QED BY <1>0, <1>1, <1>2, <2>1, <2>2, LocalStep
<1>3. CASE ~(try[d] < MaxRetries)
  <2>1. Return(d, "error")
    BY <1>3
  <2>2. TypeOK'
    BY <1>0, <2>1, ReturnParts DEF IInv, TypeOK
  <2> QED BY <1>0, <1>1, <2>1, <2>2, ReturnParts, LocalStep DEF Publishing
<1> QED BY <1>2, <1>3

\* A try that sends a message is the only one with a message on its way.
LEMMA PublishInv == ASSUME IInv, NEW d \in Daemons, Publish(d) PROVE IInv'
<1> USE DaemonAssumption DEF IInv, Publish
<1> DEFINE cur == Current(d)
           new == [event |-> cur, try |-> try[d] + 1]
<1>1. pc[d] \in Publishing /\ try[d] \in 0..MaxRetries /\ try[d] < MaxRetries
  BY DEF Publishing, TypeOK, Counted
<1>2. cur \in Events /\ cur[1] = d /\ cur[2] = generated[d] /\ tried[cur] = try[d]
  BY <1>1, CurrentParts DEF Counted
<1>3. try'[d] = try[d] + 1 /\ try'[d] \in Tries
  BY <1>1 DEF TypeOK, Tries
<1>4. new \in [event : Events, try : Tries]
  BY <1>2, <1>3
<1>5. wire' = wire \/ (conn[d] = "open" /\ wire' = wire \cup {new})
  OBVIOUS
<1>6. pc'[d] \in {"waiting", "sleep"} /\ pc' \in [Daemons -> Places]
  BY DEF TypeOK, Places
<1>7. \A c \in Daemons \ {d} : pc'[c] = pc[c] /\ try'[c] = try[c]
  BY DEF TypeOK
<1>8. conn[d] = "open" => Unsent(cur)
  BY DEF CleanRetry, Stuck
<1>9. \A c \in Daemons : Current(c)' = Current(c) /\ (c # d => Current(c) # cur)
  BY DEF Current
<1>10. TypeOK'
  <2>1. tried' \in [Events -> 0..MaxRetries]
    BY <1>1, <1>2 DEF TypeOK
  <2>2. try' \in [Daemons -> 0..MaxRetries]
    BY <1>1 DEF TypeOK
  <2>3. wire' \subseteq [event : Events, try : Tries]
    BY <1>4, <1>5 DEF TypeOK
  <2> QED BY <1>6, <2>1, <2>2, <2>3 DEF TypeOK
<1>11. Counted'
  <2>1. ASSUME NEW c \in Daemons, pc'[c] \in Publishing
        PROVE  /\ generated[c] \in 1..MaxEvents
               /\ tried'[Current(c)] = try'[c]
               /\ pc'[c] = "try" => try'[c] < MaxRetries
               /\ pc'[c] # "try" => try'[c] \in Tries
    <3>1. CASE c = d
      BY <1>1, <1>2, <1>3, <1>6, <3>1 DEF Counted, TypeOK
    <3>2. CASE c # d
      <4>1. tried'[Current(c)] = tried[Current(c)]
        BY <1>7, <1>9, <2>1, <3>2, CurrentParts DEF TypeOK
      <4> QED BY <1>7, <2>1, <3>2, <4>1 DEF Counted
    <3> QED BY <3>1, <3>2
  <2>2. ASSUME NEW e \in Events, e[2] > generated[e[1]] PROVE tried'[e] = 0
    <3>1. e # cur
      BY <1>1, <1>2, <2>2 DEF TypeOK
    <3> QED BY <2>2, <3>1 DEF Counted, TypeOK
  <2> QED BY <1>9, <2>1, <2>2 DEF Counted
<1>12. Made'
  <2>1. \A m \in wire' : m.event[2] <= generated[m.event[1]]
    BY <1>1, <1>2, <1>5 DEF Made, TypeOK
  <2>2. ASSUME NEW c \in Daemons, NEW a \in answers,
               pc'[c] \in Publishing, a.message.event = Current(c)
        PROVE  a.message.try <= try'[c]
    <3>1. CASE c = d
      <4>1. a.message.try <= try[d] /\ a.message.try \in Tries
        BY <1>1, <2>2, <3>1 DEF Made, TypeOK
      <4> QED BY <1>1, <1>3, <3>1, <4>1 DEF Tries
    <3>2. CASE c # d
      BY <1>7, <2>2, <3>2 DEF Made
    <3> QED BY <3>1, <3>2
  <2>3. ASSUME NEW c \in Daemons, NEW m \in wire',
               pc'[c] \in Publishing, m.event = Current(c)
        PROVE  m.try <= try'[c]
    <3>1. CASE c = d
      <4>1. m \in wire => m.try <= try[d] /\ m.try \in Tries
        BY <1>1, <2>3, <3>1 DEF Made, TypeOK
      <4>2. m \in wire \/ m.try = try'[d]
        BY <1>3, <1>5
      <4> QED BY <1>1, <1>3, <3>1, <4>1, <4>2 DEF Tries
    <3>2. CASE c # d
      BY <1>5, <1>7, <1>9, <2>3, <3>2 DEF Made
    <3> QED BY <3>1, <3>2
  <2> QED BY <1>9, <2>1, <2>2, <2>3 DEF Made
<1>13. OneMessage'
  BY <1>5, <1>8 DEF OneMessage, Unsent, InStream
<1>14. CleanRetry'
  <2>1. ASSUME NEW c \in Daemons, c # d, pc'[c] \in {"try", "sleep"}
        PROVE  Stuck(c)' \/ Unsent(Current(c))'
    BY <1>5, <1>7, <1>9, <2>1 DEF CleanRetry, Stuck, Over, Unsent, InStream
  <2>2. ASSUME NEW c \in Daemons, c # d, pc'[c] = "waiting"
        PROVE  /\ \A m \in wire' : m.event = Current(c) => m.try = try'[c]
               /\ \A a \in answers :
                     a.message = Message(c)' /\ ~a.ok => Unsent(Current(c))'
    BY <1>5, <1>7, <1>9, <2>2 DEF CleanRetry, Message, Unsent, InStream
  <2>3. pc'[d] = "sleep" => wire' = wire
    BY DEF TypeOK
  <2>4. pc'[d] = "sleep" => Stuck(d)' \/ Unsent(cur)'
    BY <1>8, <1>9, <2>3 DEF TypeOK, CleanRetry, Stuck, Over, Unsent, InStream
  <2>5. pc'[d] = "waiting" =>
            /\ \A m \in wire' : m.event = cur => m.try = try'[d]
            /\ \A a \in answers : a.message # Message(d)'
    <3>1. pc'[d] = "waiting" => Unsent(cur)
      BY <1>8 DEF TypeOK
    <3>2. \A a \in answers : a.message.event = cur => a.message.try <= try[d]
      BY <1>1 DEF Made
    <3>3. \A a \in answers : a.message # Message(d)'
      <4>1. Message(d)' = [event |-> cur, try |-> try'[d]]
        BY <1>9 DEF Message
      <4>2. ~(try'[d] <= try[d])
        BY <1>1, <1>3
      <4> QED BY <3>2, <4>1, <4>2
    <3> QED BY <1>3, <1>5, <3>1, <3>3 DEF Unsent
  <2> QED BY <1>6, <1>9, <2>1, <2>2, <2>4, <2>5 DEF CleanRetry
<1>15. Backed' /\ NilMeansPersisted' /\ PersistedOnce' /\ LateIsLost'
  BY DEF Backed, InStream, NilMeansPersisted, PersistedOnce, LateIsLost
<1> QED BY <1>10, <1>11, <1>12, <1>13, <1>14, <1>15

\* The server appends an event that is not in the stream yet.
LEMMA ServerReceivesInv ==
    ASSUME IInv, NEW m \in [event : Events, try : Tries], ServerReceives(m)
    PROVE  IInv'
<1> USE DEF IInv, ServerReceives, emitterVars
<1>0. m \in wire /\ wire' = wire \ {m} /\ m.event \in Events /\ ~InStream(m.event)
  BY DEF OneMessage
<1>1. PICK ok \in BOOLEAN :
         /\ stream' = IF ok THEN Append(stream, m.event) ELSE stream
         /\ answers' \in {answers, answers \cup {[message |-> m, ok |-> ok]}}
  OBVIOUS
<1>2. stream \in Seq(Events) /\ Len(stream) \in Nat /\ DOMAIN stream = 1..Len(stream)
  BY DEF TypeOK
<1>3. /\ stream' \in Seq(Events)
      /\ \A i \in DOMAIN stream' :
            \/ i \in DOMAIN stream /\ stream'[i] = stream[i]
            \/ ok /\ i = Len(stream) + 1 /\ stream'[i] = m.event
      /\ \A i \in DOMAIN stream : i \in DOMAIN stream' /\ stream'[i] = stream[i]
      /\ ok => \E i \in DOMAIN stream' : stream'[i] = m.event
  <2>1. CASE ok
    <3>1. stream' = Append(stream, m.event)
      BY <1>1, <2>1
    <3>2. Len(stream) + 1 \in DOMAIN stream' /\ stream'[Len(stream) + 1] = m.event
      BY <1>0, <1>2, <3>1, AppendParts
    <3> QED BY <1>0, <1>2, <2>1, <3>1, <3>2, AppendParts
  <2>2. CASE ~ok
    BY <1>1, <1>2, <2>2
  <2> QED BY <2>1, <2>2
<1>4. \A i \in DOMAIN stream : stream[i] \in Events /\ stream[i] # m.event
  BY <1>0, <1>2 DEF InStream
<1>5. \A a \in answers' : a \in answers \/ a = [message |-> m, ok |-> ok]
  BY <1>1
<1>6. \A e \in Events : InStream(e)' => InStream(e) \/ (ok /\ e = m.event)
  BY <1>3 DEF InStream
<1>7. \A e : InStream(e) => InStream(e)'
  BY <1>3 DEF InStream
<1>8. \A c \in Daemons : Current(c)' = Current(c) /\ Message(c)' = Message(c)
                         /\ Stuck(c)' = Stuck(c)
  BY DEF Current, Message, Stuck, Over
<1>9. TypeOK'
  BY <1>0, <1>1, <1>3 DEF TypeOK
<1>10. Counted'
  BY <1>8 DEF Counted
<1>11. Made'
  <2>1. m.event[2] <= generated[m.event[1]]
    BY <1>0 DEF Made
  <2>2. \A c \in Daemons : pc[c] \in Publishing /\ m.event = Current(c) => m.try <= try[c]
    BY <1>0 DEF Made
  <2>3. \A a \in answers' : a.message.event[2] <= generated[a.message.event[1]]
    BY <1>5, <2>1 DEF Made
  <2>4. \A i \in DOMAIN stream' : stream'[i][2] <= generated[stream'[i][1]]
    BY <1>3, <2>1 DEF Made
  <2> QED BY <1>0, <1>5, <1>8, <2>2, <2>3, <2>4 DEF Made
<1>12. OneMessage'
  <2>1. \A n \in wire' : n \in wire /\ n.event # m.event /\ n.event \in Events
    BY <1>0 DEF OneMessage, TypeOK
  <2> QED BY <1>6, <2>1 DEF OneMessage
<1>13. CleanRetry'
  <2>1. ASSUME NEW c \in Daemons, pc[c] \in Publishing,
               Current(c) # m.event, Unsent(Current(c))
        PROVE  Unsent(Current(c))'
    <3>1. Current(c) \in Events
      BY <2>1, CurrentParts
    <3> QED BY <1>0, <1>6, <1>8, <2>1, <3>1 DEF Unsent
  <2>2. ASSUME NEW c \in Daemons, Unsent(Current(c)) PROVE Current(c) # m.event
    BY <1>0, <2>2 DEF Unsent
  <2>3. ASSUME NEW c \in Daemons, pc[c] \in {"try", "sleep"}
        PROVE  Stuck(c)' \/ Unsent(Current(c))'
    BY <1>8, <2>1, <2>2, <2>3 DEF CleanRetry, Publishing
  <2>4. ASSUME NEW c \in Daemons, pc[c] = "waiting", NEW a \in answers',
               a.message = Message(c), ~a.ok
        PROVE  Unsent(Current(c))'
    <3>1. CASE a \in answers
      BY <2>1, <2>2, <2>4, <3>1 DEF CleanRetry, Publishing
    <3>2. CASE a = [message |-> m, ok |-> ok] /\ a \notin answers
      <4>1. m = Message(c) /\ ~ok /\ Current(c) = m.event
        BY <2>4, <3>2 DEF Message
      <4>2. ~InStream(m.event)'
        BY <1>0, <1>6, <4>1
      <4>3. \A n \in wire' : n.event # m.event
        BY <1>0 DEF OneMessage
      <4> QED BY <1>8, <4>1, <4>2, <4>3 DEF Unsent
    <3> QED BY <1>5, <3>1, <3>2
  <2>5. ASSUME NEW c \in Daemons, pc[c] = "waiting", NEW n \in wire', n.event = Current(c)
        PROVE  n.try = try[c]
    BY <1>0, <2>5 DEF CleanRetry
  <2> QED BY <1>8, <2>3, <2>4, <2>5 DEF CleanRetry
<1>14. Backed'
  <2>1. ok => InStream(m.event)'
    BY <1>3 DEF InStream
  <2> QED BY <1>5, <1>7, <2>1 DEF Backed
<1>15. NilMeansPersisted'
  BY <1>3 DEF NilMeansPersisted
<1>16. PersistedOnce'
  BY <1>3, <1>4 DEF PersistedOnce
<1>17. LateIsLost'
  <2>1. result[m.event] # "nil"
    BY <1>0 DEF NilMeansPersisted, InStream
  <2>2. ASSUME NEW i \in DOMAIN stream, stream[i][1] = m.event[1]
        PROVE  \/ stream[i][2] < m.event[2]
               \/ m.event[2] < generated[m.event[1]]
    <3>1. /\ stream[i] \in Events /\ stream[i] # m.event
          /\ stream[i][2] <= generated[m.event[1]]
      BY <1>4, <2>2 DEF Made
    <3>2. stream[i][2] # m.event[2]
      <4>1. stream[i] = <<stream[i][1], stream[i][2]>>
        BY <3>1, EventParts
      <4>2. m.event = <<m.event[1], m.event[2]>>
        BY <1>0, EventParts
      <4> QED BY <2>2, <3>1, <4>1, <4>2
    <3>3. stream[i][2] \in Nat /\ m.event[2] \in Nat /\ generated[m.event[1]] \in Nat
      <4>1. stream[i][2] \in 1..MaxEvents
        BY <3>1, EventParts
      <4>2. m.event[1] \in Daemons /\ m.event[2] \in 1..MaxEvents
        BY <1>0, EventParts
      <4>3. generated[m.event[1]] \in 0..MaxEvents
        BY <4>2 DEF TypeOK
      <4> QED BY <4>1, <4>2, <4>3
    <3> QED BY <3>1, <3>2, <3>3
  <2>3. SUFFICES ASSUME NEW i \in DOMAIN stream', NEW j \in DOMAIN stream', i < j,
                        stream'[i][1] = stream'[j][1]
                 PROVE  \/ stream'[i][2] < stream'[j][2]
                        \/ /\ stream'[j][2] < generated[stream'[j][1]]
                           /\ result[stream'[j]] # "nil"
    BY DEF LateIsLost
  <2>4. i \in DOMAIN stream /\ stream'[i] = stream[i]
    BY <1>2, <1>3, <2>3
  <2>5. CASE j \in DOMAIN stream /\ stream'[j] = stream[j]
    BY <2>3, <2>4, <2>5 DEF LateIsLost
  <2>6. CASE stream'[j] = m.event
    BY <2>1, <2>2, <2>3, <2>4, <2>6
  <2> QED BY <1>3, <2>5, <2>6
<1> QED BY <1>9, <1>10, <1>11, <1>12, <1>13, <1>14, <1>15, <1>16, <1>17

\* A step that changes nothing.
LEMMA StutterInv == ASSUME IInv, UNCHANGED vars PROVE IInv'
<1> USE DEF vars, emitterVars
<1>1. \A c \in Daemons : Current(c)' = Current(c) /\ Message(c)' = Message(c)
                         /\ Stuck(c)' = Stuck(c)
  BY DEF Current, Message, Stuck, Over
<1>2. \A e : InStream(e)' = InStream(e) /\ Unsent(e)' = Unsent(e)
  BY DEF InStream, Unsent
<1>3. TypeOK' /\ Counted' /\ Made'
  BY <1>1 DEF IInv, TypeOK, Counted, Made
<1>4. OneMessage' /\ CleanRetry' /\ Backed'
  BY <1>1, <1>2 DEF IInv, OneMessage, CleanRetry, Backed
<1>5. NilMeansPersisted' /\ PersistedOnce' /\ LateIsLost'
  BY DEF IInv, NilMeansPersisted, PersistedOnce, LateIsLost
<1> QED BY <1>3, <1>4, <1>5 DEF IInv

LEMMA NextInv == IInv /\ [Next]_vars => IInv'
<1> SUFFICES ASSUME IInv, [Next]_vars PROVE IInv'
  OBVIOUS
<1>1. ASSUME NEW d \in Daemons, Emitter(d) PROVE IInv'
  BY <1>1, EmitInv, EmitStopsInv, PublishInv, PublishGivesUpInv, PublishAnsweredInv,
     PublishExpiresInv, AwakeInv DEF Emitter
<1>2. ASSUME NEW d \in Daemons, Deadline(d) \/ Signal(d) \/ Crash(d) \/ ConnectionCloses(d)
      PROVE  IInv'
  BY <1>2, DeadlineInv, SignalInv, CrashInv, ConnectionClosesInv
<1>3. ASSUME NEW m \in [event : Events, try : Tries], ServerReceives(m) PROVE IInv'
  BY <1>3, ServerReceivesInv
<1>4. CASE Idle \/ UNCHANGED vars
  BY <1>4, StutterInv DEF Idle
<1> QED BY <1>1, <1>2, <1>3, <1>4 DEF Next

-----------------------------------------------------------------------------
(* Theorems.                                                               *)

\* What holds of tries, wire, answers and stream in every state.
THEOREM Invariance == SafeSpec => []IInv
<1> QED BY InitInv, NextInv, PTL DEF SafeSpec

\* Types, and no event is given to js.Publish more often than maxRetries.
THEOREM TypeCorrect == SafeSpec => []TypeOK
<1>1. IInv => TypeOK
  BY DEF IInv
<1> QED BY <1>1, Invariance, PTL

\* PublishEvent returns nil only for an event that is in the stream.
THEOREM NilIsPersisted == SafeSpec => []NilMeansPersisted
<1>1. IInv => NilMeansPersisted
  BY DEF IInv
<1> QED BY <1>1, Invariance, PTL

\* The retries of PublishEvent put no event into the stream twice.
THEOREM NoDuplicates == SafeSpec => []PersistedOnce
<1>1. IInv => PersistedOnce
  BY DEF IInv
<1> QED BY <1>1, Invariance, PTL

\* Events for which PublishEvent returned nil are in the stream in the order
\* in which their daemon generated them.
THEOREM OrderIsKept == SafeSpec => []PersistedInOrder
<1>1. IInv => PersistedInOrder
  BY DEF IInv, LateIsLost, PersistedInOrder
<1> QED BY <1>1, Invariance, PTL

-----------------------------------------------------------------------------
(* The Daemon implements its port Publisher.                               *)

\* PublishEvent has not returned yet for the event it works on, nor for one
\* that is to come.
Fresh ==
    /\ \A d \in Daemons : pc[d] \in Publishing => result[Current(d)] = "none"
    /\ \A e \in Events : e[2] > generated[e[1]] => result[e] = "none"

\* A step that neither ends a call nor stores an event.
Silent ==
    /\ UNCHANGED <<result, stream>>
    /\ \/ \E d \in Daemons : Emit(d)
       \/ /\ UNCHANGED generated
          /\ \A d \in Daemons : pc'[d] \in Publishing => pc[d] \in Publishing

\* A step with which PublishEvent returns res; a nil has its reason.
Returns(d, res) ==
    /\ pc[d] \in Publishing
    /\ Return(d, res)
    /\ res = "nil" => InStream(Current(d))
    /\ UNCHANGED <<generated, stream>>

LEMMA StepKinds ==
    ASSUME IInv, [Next]_vars
    PROVE  \/ Silent
           \/ \E d \in Daemons, res \in {"nil", "error"} : Returns(d, res)
           \/ \E m \in [event : Events, try : Tries] : ServerReceives(m)
<1>1. ASSUME NEW d \in Daemons,
             \/ Emit(d) \/ EmitStops(d) \/ Publish(d) \/ PublishExpires(d)
             \/ Deadline(d) \/ Signal(d) \/ Crash(d) \/ ConnectionCloses(d)
      PROVE  Silent
  <2>1. CASE Emit(d)
    BY <2>1 DEF Emit, Silent
  <2>2. CASE EmitStops(d)
    BY <2>2 DEF EmitStops, Silent, IInv, TypeOK, Publishing
  <2>3. CASE Publish(d)
    BY <2>3 DEF Publish, Silent, IInv, TypeOK, Publishing
  <2>4. CASE PublishExpires(d) \/ Crash(d) \/ ConnectionCloses(d)
    BY <2>4 DEF PublishExpires, Crash, ConnectionCloses, Silent, IInv, TypeOK, Publishing
  <2>5. CASE Deadline(d) \/ Signal(d)
    BY <2>5 DEF Deadline, Signal, Silent
  <2> QED BY <1>1, <2>1, <2>2, <2>3, <2>4, <2>5
<1>2. ASSUME NEW d \in Daemons, PublishGivesUp(d)
      PROVE  Returns(d, "error")
  BY <1>2 DEF PublishGivesUp, Returns, Publishing
<1>3. ASSUME NEW d \in Daemons, PublishAnswered(d)
      PROVE  Silent \/ Returns(d, "nil")
  <2>1. PICK a \in answers :
           /\ a.message = Message(d)
           /\ IF a.ok THEN Return(d, "nil")
                      ELSE pc' = [pc EXCEPT ![d] = "sleep"] /\ UNCHANGED result
    BY <1>3 DEF PublishAnswered
  <2>2. CASE a.ok
    <3>1. InStream(Current(d))
      BY <2>1, <2>2 DEF IInv, Backed, Message
    <3> QED BY <1>3, <2>1, <2>2, <3>1 DEF PublishAnswered, Returns, Publishing
  <2>3. CASE ~a.ok
    BY <1>3, <2>1, <2>3 DEF PublishAnswered, Silent, IInv, TypeOK, Publishing
  <2> QED BY <2>2, <2>3
<1>4. ASSUME NEW d \in Daemons, Awake(d)
      PROVE  Silent \/ Returns(d, "error")
  <2>1. CASE try[d] < MaxRetries
    BY <1>4, <2>1 DEF Awake, Silent, IInv, TypeOK, Publishing
  <2>2. CASE ~(try[d] < MaxRetries)
    BY <1>4, <2>2 DEF Awake, Returns, Publishing
  <2> QED BY <2>1, <2>2
<1>5. CASE Idle \/ UNCHANGED vars
  BY <1>5 DEF Idle, vars, emitterVars, Silent
<1> QED BY <1>1, <1>2, <1>3, <1>4, <1>5 DEF Next, Emitter

\* What Returns does to the results.
LEMMA ReturnsParts ==
    ASSUME IInv, NEW d \in Daemons, NEW res \in {"nil", "error"}, Returns(d, res)
    PROVE  /\ Current(d) \in Events
           /\ result' = [result EXCEPT ![Current(d)] = res]
           /\ pc'[d] \notin Publishing
           /\ \A c \in Daemons \ {d} : pc'[c] = pc[c] /\ Current(c) # Current(d)
           /\ \A e \in Events : e # Current(d) => result'[e] = result[e]
           /\ Current(d)[1] = d /\ Current(d)[2] = generated[d]
<1>1. Current(d) \in Events /\ Current(d)[1] = d /\ Current(d)[2] = generated[d]
  BY CurrentParts DEF IInv, Returns
<1>2. \A c \in Daemons \ {d} : Current(c) # Current(d)
  BY DEF Current
<1> QED BY <1>1, <1>2 DEF IInv, TypeOK, Returns, Return, Publishing

LEMMA FreshInit == Init => Fresh
BY DEF Init, Fresh, Publishing

LEMMA FreshInv == IInv /\ Fresh /\ [Next]_vars => Fresh'
<1> SUFFICES ASSUME IInv, Fresh, [Next]_vars PROVE Fresh'
  OBVIOUS
<1>1. CASE Silent
  <2>1. ASSUME NEW d \in Daemons, Emit(d), UNCHANGED result PROVE Fresh'
    <3>1. /\ generated'[d] = generated[d] + 1
          /\ \A c \in Daemons \ {d} : pc'[c] = pc[c] /\ generated'[c] = generated[c]
      BY <2>1 DEF Emit, IInv, TypeOK
    <3>2. generated[d] + 1 \in 1..MaxEvents
      BY <2>1, DaemonAssumption DEF Emit, IInv, TypeOK
    <3>3. \A c \in Daemons : generated[c] \in Nat /\ generated'[c] \in Nat
                             /\ generated[c] <= generated'[c]
      <4>1. ASSUME NEW c \in Daemons
            PROVE  generated[c] \in Nat /\ (c # d => generated'[c] = generated[c])
        BY <3>1, DaemonAssumption DEF IInv, TypeOK
      <4> QED BY <3>1, <4>1
    <3>4. ASSUME NEW e \in Events, e[2] > generated'[e[1]] PROVE result[e] = "none"
      <4>1. e[1] \in Daemons /\ e[2] \in Nat
        BY EventParts
      <4>2. e[2] > generated[e[1]]
        BY <3>3, <3>4, <4>1
      <4> QED BY <4>2 DEF Fresh
    <3>5. result[<<d, generated'[d]>>] = "none"
      <4>1. <<d, generated'[d]>> \in Events
        BY <3>1, <3>2 DEF Events
      <4>2. generated'[d] > generated[d]
        BY <3>1, <3>3
      <4> QED BY <4>1, <4>2 DEF Fresh
    <3> QED BY <2>1, <3>1, <3>4, <3>5 DEF Fresh, Current
  <2> QED BY <1>1, <2>1 DEF Silent, Fresh, Current
<1>2. CASE \E d \in Daemons, res \in {"nil", "error"} : Returns(d, res)
  <2>1. PICK d \in Daemons, res \in {"nil", "error"} : Returns(d, res)
    BY <1>2
  <2>2. UNCHANGED generated
    BY <2>1 DEF Returns
  <2>3. ASSUME NEW c \in Daemons, pc'[c] \in Publishing
        PROVE  result'[Current(c)] = "none"
    <3>1. c # d /\ pc'[c] = pc[c]
      BY <2>1, <2>3, ReturnsParts
    <3>2. Current(c) \in Events
      BY <2>3, <3>1, CurrentParts DEF IInv
    <3> QED BY <2>1, <2>3, <3>1, <3>2, ReturnsParts DEF Fresh
  <2>4. ASSUME NEW e \in Events, e[2] > generated[e[1]] PROVE result'[e] = "none"
    <3>1. Current(d)[1] = d /\ Current(d)[2] = generated[d] /\ generated[d] \in Nat
      BY <2>1, ReturnsParts, DaemonAssumption DEF IInv, TypeOK
    <3>2. e # Current(d)
      BY <2>4, <3>1
    <3> QED BY <2>1, <2>4, <3>2, ReturnsParts DEF Fresh
  <2> QED BY <2>2, <2>3, <2>4 DEF Fresh, Current
<1>3. CASE \E m \in [event : Events, try : Tries] : ServerReceives(m)
  BY <1>3 DEF ServerReceives, emitterVars, Fresh, Current
<1> QED BY <1>1, <1>2, <1>3, StepKinds

\* Every step of the Daemon is one of Publisher, or none.
LEMMA PortStep == IInv /\ Fresh /\ [Next]_vars => [Port!Next]_(Port!vars)
<1> SUFFICES ASSUME IInv, Fresh, [Next]_vars PROVE [Port!Next]_(Port!vars)
  OBVIOUS
<1>1. CASE Silent
  BY <1>1 DEF Silent, Port!vars
<1>2. CASE \E d \in Daemons, res \in {"nil", "error"} : Returns(d, res)
  <2>1. PICK d \in Daemons, res \in {"nil", "error"} : Returns(d, res)
    BY <1>2
  <2>2. /\ Current(d) \in Events
        /\ result' = [result EXCEPT ![Current(d)] = res]
        /\ result[Current(d)] = "none"
        /\ stream' = stream
    BY <2>1, ReturnsParts DEF Returns, Fresh
  <2>3. CASE res = "error"
    <3>1. Port!ReturnError(Current(d))
      BY <2>2, <2>3 DEF Port!ReturnError
    <3> QED BY <2>2, <3>1 DEF Port!Next
  <2>4. CASE res = "nil"
    <3>1. Current(d) \in Port!persisted
      BY <2>1, <2>4 DEF Returns, InStream, Port!persisted
    <3>2. Port!ReturnNil(Current(d))
      BY <2>2, <2>4, <3>1 DEF Port!ReturnNil, Port!Answered
    <3> QED BY <2>2, <3>2 DEF Port!Next
  <2> QED BY <2>3, <2>4
<1>3. CASE \E m \in [event : Events, try : Tries] : ServerReceives(m)
  <2>1. PICK m \in [event : Events, try : Tries] : ServerReceives(m)
    BY <1>3
  <2>2. UNCHANGED result /\ m.event \in Events /\ m.event \notin Port!persisted
    BY <2>1 DEF ServerReceives, emitterVars, IInv, OneMessage, InStream, Port!persisted
  <2>3. PICK ok \in BOOLEAN : stream' = IF ok THEN Append(stream, m.event) ELSE stream
    BY <2>1 DEF ServerReceives
  <2>4. CASE ok
    <3>1. Port!Persist(m.event)
      BY <2>2, <2>3, <2>4 DEF Port!Persist
    <3> QED BY <2>2, <3>1 DEF Port!Next
  <2>5. CASE ~ok
    BY <2>2, <2>3, <2>5 DEF Port!vars
  <2> QED BY <2>4, <2>5
<1> QED BY <1>1, <1>2, <1>3, StepKinds

\* The Daemon implements its outbound port: PublishEvent returns once for an
\* event, nil only when the stream holds it, and the stream takes it once.
THEOREM DaemonImplementsPort == SafeSpec => ImplementsPublisher
<1>1. Init => Port!Init
  BY DEF Init, Port!Init
<1>2. IInv /\ Fresh /\ [Next]_vars => [Port!Next]_(Port!vars)
  BY PortStep
<1> QED BY <1>1, <1>2, Invariance, FreshInit, FreshInv, PTL
        DEF SafeSpec, ImplementsPublisher, Port!Spec
=============================================================================
