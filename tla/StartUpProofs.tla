---------------------------- MODULE StartUpProofs ----------------------------
(***************************************************************************)
(* Proofs about StartUp, for any number of replicas, of failed requests    *)
(* and of stops.                                                           *)
(***************************************************************************)
EXTENDS StartUp, TLAPS

\* What a Writer has found, or made, on its way is still there: nobody takes
\* the database or the stream away.
Checked ==
    \A w \in Writers :
        /\ writer[w] \in {"verify", "lookup", "add", "again", "attach", "running"} => database
        /\ writer[w] \in {"add", "again", "attach", "running"} => stream

IInv == TypeOK /\ Checked

USE DEF Ended, DaemonStates, WriterStarts, WriterStates

\* At the start nothing has been found and nothing runs.
THEOREM InitInv == Init => IInv
<1> SUFFICES ASSUME Init PROVE IInv
  OBVIOUS
<1>1. TypeOK
  <2>1. /\ failures \in 0..MaxFailures /\ stops \in 0..MaxStops
        /\ subjects \in Nat /\ consumer \in 0..subjects
        /\ target \in [Writers -> 0..subjects]
    BY StartUpAssumption DEF Init
  <2>2. /\ daemon \in [Daemons -> DaemonStates] /\ writer \in [Writers -> WriterStates]
        /\ \A w \in Writers : target[w] # 0 <=> writer[w] \in {"attach", "running"}
    BY DEF Init
  <2> QED
    BY <2>1, <2>2 DEF Init, TypeOK
<1>2. Checked
  BY DEF Init, Checked
<1> QED
  BY <1>1, <1>2 DEF IInv

-----------------------------------------------------------------------------
(* The steps of a Daemon: they change daemon, and make the stream.         *)

\* A step that leaves the Writers and their servers alone.
LEMMA DaemonFrame ==
    ASSUME IInv,
           daemon' \in [Daemons -> DaemonStates],
           stream' \in {stream, TRUE},
           failures' \in 0..MaxFailures,
           stops' \in 0..MaxStops,
           UNCHANGED <<database, consumer, subjects, interest, writer, target, creator>>
    PROVE  IInv'
BY DEF IInv, TypeOK, Checked

LEMMA DaemonStepInv ==
    ASSUME IInv, NEW d \in Daemons, DaemonStarts(d) \/ DaemonEnds(d)
    PROVE  IInv'
<1> USE StartUpAssumption DEF IInv, TypeOK, DaemonTo, RequestFails, servers, replicas, bounds
<1>1. CASE StartDaemon(d)
  BY <1>1, DaemonFrame DEF StartDaemon
<1>2. CASE StreamInfo(d)
  BY <1>2, DaemonFrame DEF StreamInfo
<1>3. CASE AddStream(d)
  <2>1. /\ stream' \in {stream, TRUE}
        /\ failures' \in 0..MaxFailures
        /\ daemon' \in [Daemons -> DaemonStates]
    <3>1. failures' = failures \/ (failures < MaxFailures /\ failures' = failures + 1)
      BY <1>3 DEF AddStream
    <3>2. stream' = TRUE \/ stream' = stream
      BY <1>3 DEF AddStream
    <3>3. \E s \in DaemonStates : daemon' = [daemon EXCEPT ![d] = s]
      BY <1>3 DEF AddStream
    <3>4. failures' \in 0..MaxFailures
      BY <3>1
    <3>5. daemon' \in [Daemons -> DaemonStates]
      BY <3>3
    <3> QED
      BY <3>2, <3>4, <3>5
  <2> QED
    BY <1>3, <2>1, DaemonFrame DEF AddStream
<1>4. CASE DaemonEnds(d)
  BY <1>4, DaemonFrame DEF DaemonEnds
<1> QED
  BY <1>1, <1>2, <1>3, <1>4 DEF DaemonStarts

-----------------------------------------------------------------------------
(* The steps of a Writer.                                                  *)

LEMMA WriterStepInv ==
    ASSUME IInv, NEW w \in Writers, WriterStep(w)
    PROVE  IInv'
<1> USE StartUpAssumption DEF IInv, TypeOK, Checked, WriterTo, servers, replicas, bounds
<1>1. CASE StartWriter(w)
  BY <1>1 DEF StartWriter
<1>2. CASE ListDatabases(w)
  BY <1>2 DEF ListDatabases
<1>3. CASE CreateDatabase(w)
  BY <1>3 DEF CreateDatabase
<1>4. CASE VerifyConnection(w)
  BY <1>4 DEF VerifyConnection
<1>5. CASE LookUp(w)
  BY <1>5 DEF LookUp, Exits, EndsIn
<1>6. CASE AddConsumer(w)
  <2>1. TypeOK'
    BY <1>6 DEF AddConsumer, MakeConsumer
  <2>2. Checked'
    BY <1>6 DEF AddConsumer, MakeConsumer
  <2> QED
    BY <2>1, <2>2
<1>7. CASE Attach(w)
  BY <1>7 DEF Attach
<1> QED
  BY <1>1, <1>2, <1>3, <1>4, <1>5, <1>6, <1>7 DEF WriterStep

LEMMA WriterEndInv ==
    ASSUME IInv, NEW w \in Writers, StartFails(w) \/ StopWriter(w) \/ CrashWriter(w)
    PROVE  IInv'
<1> USE StartUpAssumption DEF IInv, TypeOK, Checked, WriterTo, Exits, EndsIn, servers, replicas, bounds
<1>1. CASE StartFails(w)
  <2>1. TypeOK'
    <3>1. subjects' \in Nat /\ consumer' \in 0..subjects' /\ subjects' >= subjects
      BY <1>1 DEF StartFails, MakeConsumer
    <3>2. database' \in BOOLEAN /\ failures' \in 0..MaxFailures
      <4>1. database' = database \/ database' = (database \/ writer[w] = "create")
        BY <1>1 DEF StartFails
      <4>2. failures < MaxFailures /\ failures' = failures + 1
        BY <1>1 DEF StartFails, RequestFails
      <4>3. database' \in BOOLEAN
        BY <4>1
      <4>4. failures' \in 0..MaxFailures
        BY <4>2
      <4> QED
        BY <4>3, <4>4
    <3> QED
      BY <1>1, <3>1, <3>2 DEF StartFails
  <2>2. Checked'
    BY <1>1 DEF StartFails
  <2> QED
    BY <2>1, <2>2
<1>2. CASE StopWriter(w)
  BY <1>2 DEF StopWriter
<1>3. CASE CrashWriter(w)
  BY <1>3 DEF CrashWriter
<1> QED
  BY <1>1, <1>2, <1>3

\* No request, failure, crash or stop invalidates what a Writer has found.
THEOREM NextInv == IInv /\ [Next]_vars => IInv'
<1> SUFFICES ASSUME IInv, [Next]_vars PROVE IInv'
  OBVIOUS
<1>1. ASSUME NEW d \in Daemons, DaemonStarts(d) \/ DaemonEnds(d) PROVE IInv'
  BY <1>1, DaemonStepInv
<1>2. ASSUME NEW w \in Writers,
             WriterStep(w) \/ StartFails(w) \/ StopWriter(w) \/ CrashWriter(w)
      PROVE  IInv'
  BY <1>2, WriterStepInv, WriterEndInv
<1>3. ASSUME NEW w \in Writers, NEW s \in 1..subjects, Noticed(w, s) PROVE IInv'
  BY <1>3 DEF Noticed, IInv, TypeOK, Checked, replicas, bounds
<1>4. CASE Idle \/ UNCHANGED vars
  BY <1>4 DEF Idle, vars, servers, replicas, bounds, IInv, TypeOK, Checked
<1> QED
  BY <1>1, <1>2, <1>3, <1>4 DEF Next

-----------------------------------------------------------------------------
(* The properties.                                                         *)

\* What a Writer has checked stays there until it runs.
THEOREM InvHolds == SafeSpec => []IInv
BY InitInv, NextInv, PTL DEF SafeSpec

\* Types, and: only a Writer that runs owns the consumer.
THEOREM TypeCorrect == SafeSpec => []TypeOK
<1>1. IInv => TypeOK
  BY DEF IInv
<1> QED
  BY <1>1, InvHolds, PTL

\* A Writer that runs has its database and its stream.
THEOREM RunningHasStores == SafeSpec => []StoresExist
<1>1. IInv => StoresExist
  BY DEF IInv, Checked, StoresExist
<1> QED
  BY <1>1, InvHolds, PTL

LEMMA CauseStep == TypeOK /\ Next => FailsForCause
<1> SUFFICES ASSUME TypeOK, Next PROVE FailsForCause
  OBVIOUS
<1> USE DEF TypeOK, WriterTo, DaemonTo, Exits, EndsIn, RequestFails, servers, replicas, bounds
<1>1. ASSUME NEW d \in Daemons, DaemonStarts(d) \/ DaemonEnds(d) PROVE FailsForCause
  <2>1. writer' = writer
    BY <1>1 DEF DaemonStarts, StartDaemon, StreamInfo, AddStream, DaemonEnds
  <2>2. ASSUME NEW e \in Daemons, daemon[e] \notin Ended, daemon'[e] \in Ended PROVE Excused
    <3>1. CASE StartDaemon(d) \/ StreamInfo(d)
      BY <3>1, <2>2 DEF StartDaemon, StreamInfo
    <3>2. CASE AddStream(d)
      <4>1. \/ daemon' = [daemon EXCEPT ![d] = "running"]
            \/ failures' = failures + 1
        BY <3>2 DEF AddStream
      <4> QED
        BY <4>1, <2>2 DEF Excused
    <3>3. CASE DaemonEnds(d)
      BY <3>3 DEF DaemonEnds, Excused
    <3> QED
      BY <1>1, <3>1, <3>2, <3>3 DEF DaemonStarts
  <2> QED
    BY <2>1, <2>2 DEF FailsForCause
<1>2. ASSUME NEW v \in Writers,
             WriterStep(v) \/ StartFails(v) \/ StopWriter(v) \/ CrashWriter(v)
      PROVE  FailsForCause
  <2>1. daemon' = daemon
    BY <1>2 DEF WriterStep, StartWriter, ListDatabases, CreateDatabase, VerifyConnection,
                LookUp, AddConsumer, Attach, StartFails, StopWriter, CrashWriter
  <2>2. ASSUME NEW w \in Writers, writer[w] \in WriterStarts, writer'[w] \in Ended
        PROVE  Excused \/ ~stream \/ Bound \/ writer[w] = "again"
    <3>1. CASE LookUp(v)
      BY <3>1, <2>2 DEF LookUp
    <3>2. CASE StartFails(v) \/ StopWriter(v) \/ CrashWriter(v)
      BY <3>2 DEF StartFails, StopWriter, CrashWriter, Excused
    <3>3. CASE WriterStep(v) /\ ~LookUp(v)
      BY <3>3, <2>2 DEF WriterStep, StartWriter, ListDatabases, CreateDatabase,
                        VerifyConnection, AddConsumer, Attach
    <3> QED
      BY <1>2, <3>1, <3>2, <3>3
  <2> QED
    BY <2>1, <2>2 DEF FailsForCause
<1>3. ASSUME NEW w \in Writers, NEW s \in 1..subjects, Noticed(w, s) PROVE FailsForCause
  BY <1>3 DEF Noticed, FailsForCause
<1>4. CASE Idle
  BY <1>4 DEF Idle, vars, FailsForCause
<1> QED
  BY <1>1, <1>2, <1>3, <1>4 DEF Next

\* A start fails only for a failed request, a missing stream, or a consumer
\* that another replica holds: never for the races to make stream or database.
THEOREM FailuresHaveCauses == SafeSpec => StartFailsForCause
<1>1. IInv /\ [Next]_vars => [FailsForCause]_vars
  BY CauseStep DEF IInv
<1> QED
  BY <1>1, InvHolds, PTL DEF SafeSpec, StartFailsForCause

-----------------------------------------------------------------------------
(* A single Writer.                                                        *)

\* The subject that a Writer has been told, or has made, is the consumer's.
Fed == \A w \in Writers : target[w] # 0 => target[w] = consumer

\* Nobody else touches the consumer between the lookup and the subscription.
LEMMA FedStep ==
    ASSUME IInv, Fed, \A v, w \in Writers : v = w, [Next]_vars
    PROVE  Fed'
<1> USE DEF IInv, TypeOK, Fed, WriterTo, servers, replicas, bounds
<1>1. ASSUME NEW d \in Daemons, DaemonStarts(d) \/ DaemonEnds(d) PROVE Fed'
  BY <1>1 DEF DaemonStarts, StartDaemon, StreamInfo, AddStream, DaemonEnds
<1>2. ASSUME NEW w \in Writers, StartWriter(w) \/ ListDatabases(w) \/ CreateDatabase(w)
                                  \/ VerifyConnection(w) \/ Attach(w)
      PROVE  Fed'
  BY <1>2 DEF StartWriter, ListDatabases, CreateDatabase, VerifyConnection, Attach
<1>3. ASSUME NEW w \in Writers, LookUp(w) PROVE Fed'
  BY <1>3 DEF LookUp, Exits, EndsIn
<1>4. ASSUME NEW w \in Writers, AddConsumer(w) PROVE Fed'
  BY <1>4 DEF AddConsumer, MakeConsumer
<1>5. ASSUME NEW w \in Writers, StartFails(w) \/ StopWriter(w) \/ CrashWriter(w)
      PROVE  Fed'
  <2>1. target' = [target EXCEPT ![w] = 0]
    BY <1>5 DEF StartFails, StopWriter, CrashWriter, Exits, EndsIn
  <2>2. \A v \in Writers : target'[v] = 0
    BY <2>1
  <2> QED BY <2>2
<1>6. ASSUME NEW w \in Writers, NEW s \in 1..subjects, Noticed(w, s) PROVE Fed'
  BY <1>6 DEF Noticed
<1>7. CASE Idle \/ UNCHANGED vars
  BY <1>7 DEF Idle, vars
<1> QED BY <1>1, <1>2, <1>3, <1>4, <1>5, <1>6, <1>7 DEF Next, WriterStep

\* One Writer, as docker-compose.yaml starts it, is subscribed to what the
\* consumer delivers to whenever it runs: through failed requests, lost
\* answers, crashes and stops, among them those that delete the consumer.
\* With two Writers it is refuted: between the lookup and the subscription of
\* one the other may make the consumer anew, with a subject of its own.
THEOREM SingleWriterIsFed ==
    ASSUME \A v, w \in Writers : v = w
    PROVE  SafeSpec => []RunningIsFed
<1>1. Init => Fed
  BY DEF Init, Fed
<1>2. IInv /\ Fed /\ [Next]_vars => Fed'
  BY FedStep
<1>3. IInv /\ Fed => RunningIsFed
  BY DEF IInv, TypeOK, Fed, RunningIsFed
<1> QED BY <1>1, <1>2, <1>3, InvHolds, PTL DEF SafeSpec
=============================================================================
