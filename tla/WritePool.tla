------------------------------ MODULE WritePool ------------------------------
(***************************************************************************)
(* The write worker pool of the Writer: InfluxRepository in                *)
(* internal/writer/adapters/influx_adapter.go.                             *)
(*                                                                         *)
(* Calls of Save put a request on the bounded channel pointCh and wait on  *)
(* a result channel of their own, of capacity one.  A fixed pool of        *)
(* workers drains pointCh into batches; a full batch, a tick or the drain  *)
(* at shutdown flushes a batch: one WritePoints call, then one result to   *)
(* each caller of the batch.  Close closes stopCh, upon which each worker  *)
(* empties what it sees in pointCh, flushes and exits, and waits for them. *)
(*                                                                         *)
(* Every action is one step of one goroutine between two points where it   *)
(* can block or be overtaken.  A "select" is the choice between the        *)
(* actions whose guard holds.  A request is named by the call that made    *)
(* it, which stands for its point and its result channel.                  *)
(***************************************************************************)
EXTENDS Naturals, FiniteSets, SequencesExt

CONSTANTS
    Calls,       \* invocations of Save; a retry is another call
    Points,      \* identities of points: timestamp, severity, event_id
    PointOf,     \* the point a call builds from its event
    Unparsable,  \* the calls whose event has a timestamp time.Parse rejects
    Workers,     \* the goroutines running writeWorker
    BatchSize    \* batchSize

ASSUME CallsAssumption ==
    /\ PointOf \in [Calls -> Points]
    /\ Unparsable \subseteq Calls

ASSUME PoolAssumption ==
    /\ IsFiniteSet(Workers)
    /\ Workers # {}
    /\ BatchSize \in Nat \ {0}

\* The capacity of pointCh: workerCount*batchSize.
ChanCap == Cardinality(Workers) * BatchSize

VARIABLES
    pc,        \* pc[c]: where the caller of c is, see PCs
    pointCh,   \* the requests buffered in pointCh, oldest first
    result,    \* result[c]: the result channel of c, see Results
    wpc,       \* wpc[w]: where worker w is, see WorkerPCs
    mode,      \* mode[w]: the loop w is in, see Modes
    batch,     \* batch[w]: points and results of w, those not yet notified
    outcome,   \* outcome[w]: what the last WritePoints of w returned
    stopped,   \* stopCh is closed
    closer,    \* where the goroutine that calls Close is
    rows,      \* the points InfluxDB holds
    early      \* auxiliary: the calls accepted while stopCh was open

workerVars == <<wpc, mode, batch, outcome>>
closeVars  == <<stopped, closer>>
vars == <<pc, pointCh, result, workerVars, closeVars, rows, early>>

\* "enqueue" is blocked in the first select of Save, "wait" in the second.
Returned == {"ok", "failed", "expired", "closed", "rejected"}
PCs == {"idle", "enqueue", "wait"} \cup Returned

\* "taken" is empty again: the caller has received the one value sent.
Results == {"empty", "ok", "error", "taken"}

WorkerPCs == {"receive", "write", "notify", "exited"}

\* The outer loop, the drain loop, and the last flush before the return.
Modes == {"running", "draining", "leaving"}

InChannel(c)  == c \in ToSet(pointCh)
InBatch(w, c) == c \in ToSet(batch[w])

Init ==
    /\ pc      = [c \in Calls |-> "idle"]
    /\ pointCh = <<>>
    /\ result  = [c \in Calls |-> "empty"]
    /\ wpc     = [w \in Workers |-> "receive"]
    /\ mode    = [w \in Workers |-> "running"]
    /\ batch   = [w \in Workers |-> <<>>]
    /\ outcome = [w \in Workers |-> "ok"]
    /\ stopped = FALSE
    /\ closer  = "open"
    /\ rows    = {}
    /\ early   = {}

-----------------------------------------------------------------------------
(* The callers: Save.                                                      *)

\* The timestamp does not parse: Save returns before it touches the pool.
SaveReject(c) ==
    /\ pc[c] = "idle"
    /\ c \in Unparsable
    /\ pc' = [pc EXCEPT ![c] = "rejected"]
    /\ UNCHANGED <<pointCh, result, workerVars, closeVars, rows, early>>

SaveCall(c) ==
    /\ pc[c] = "idle"
    /\ c \notin Unparsable
    /\ pc' = [pc EXCEPT ![c] = "enqueue"]
    /\ UNCHANGED <<pointCh, result, workerVars, closeVars, rows, early>>

\* The first select takes the send: the buffer has room, whether or not the
\* context is done or stopCh is closed already.
SaveSend(c) ==
    /\ pc[c] = "enqueue"
    /\ Len(pointCh) < ChanCap
    /\ pc' = [pc EXCEPT ![c] = "wait"]
    /\ pointCh' = Append(pointCh, c)
    /\ early' = IF stopped THEN early ELSE early \cup {c}
    /\ UNCHANGED <<result, workerVars, closeVars, rows>>

SaveSendClosed(c) ==
    /\ pc[c] = "enqueue"
    /\ stopped
    /\ pc' = [pc EXCEPT ![c] = "closed"]
    /\ UNCHANGED <<pointCh, result, workerVars, closeVars, rows, early>>

\* ctx.Done() is chosen in the first or in the second select.  Every context
\* has a deadline (ten seconds, set for each message by NATSSubscriber) that
\* may pass at any moment, before Save is called too on a retry.
SaveExpired(c) ==
    /\ pc[c] \in {"enqueue", "wait"}
    /\ pc' = [pc EXCEPT ![c] = "expired"]
    /\ UNCHANGED <<pointCh, result, workerVars, closeVars, rows, early>>

SaveResult(c) ==
    /\ pc[c] = "wait"
    /\ result[c] \in {"ok", "error"}
    /\ pc' = [pc EXCEPT ![c] = IF result[c] = "ok" THEN "ok" ELSE "failed"]
    /\ result' = [result EXCEPT ![c] = "taken"]
    /\ UNCHANGED <<pointCh, workerVars, closeVars, rows, early>>

-----------------------------------------------------------------------------
(* The workers: writeWorker and flushBatch.                                *)

\* Mutated form: a batch is flushed when it exceeds batchSize.
WorkerReceiveOver(w) ==
    /\ wpc[w] = "receive"
    /\ pointCh # <<>>
    /\ pointCh' = Tail(pointCh)
    /\ batch' = [batch EXCEPT ![w] = Append(@, Head(pointCh))]
    /\ wpc' = [wpc EXCEPT ![w] =
                  IF Len(batch[w]) + 1 > BatchSize THEN "write" ELSE "receive"]
    /\ UNCHANGED <<pc, result, mode, outcome, closeVars, rows, early>>

\* One receive from pointCh, in the outer loop or in the drain loop; the
\* batch that becomes full is flushed.
WorkerReceive(w) ==
    /\ wpc[w] = "receive"
    /\ pointCh # <<>>
    /\ pointCh' = Tail(pointCh)
    /\ batch' = [batch EXCEPT ![w] = Append(@, Head(pointCh))]
    /\ wpc' = [wpc EXCEPT ![w] =
                  IF Len(batch[w]) + 1 >= BatchSize THEN "write" ELSE "receive"]
    /\ UNCHANGED <<pc, result, mode, outcome, closeVars, rows, early>>

\* Mutated form: a tick flushes full batches only.
WorkerTickFull(w) ==
    /\ wpc[w] = "receive"
    /\ mode[w] = "running"
    /\ Len(batch[w]) >= BatchSize
    /\ wpc' = [wpc EXCEPT ![w] = "write"]
    /\ UNCHANGED <<pc, pointCh, result, mode, batch, outcome, closeVars,
                   rows, early>>

\* The ticker fires; with no point collected flush does nothing.
WorkerTick(w) ==
    /\ wpc[w] = "receive"
    /\ mode[w] = "running"
    /\ batch[w] # <<>>
    /\ wpc' = [wpc EXCEPT ![w] = "write"]
    /\ UNCHANGED <<pc, pointCh, result, mode, batch, outcome, closeVars,
                   rows, early>>

WorkerStop(w) ==
    /\ wpc[w] = "receive"
    /\ mode[w] = "running"
    /\ stopped
    /\ mode' = [mode EXCEPT ![w] = "draining"]
    /\ UNCHANGED <<pc, pointCh, result, wpc, batch, outcome, closeVars,
                   rows, early>>

\* Mutated form: the drain loop returns without its last flush.
WorkerDrainedNoFlush(w) ==
    /\ wpc[w] = "receive"
    /\ mode[w] = "draining"
    /\ pointCh = <<>>
    /\ mode' = [mode EXCEPT ![w] = "leaving"]
    /\ wpc' = [wpc EXCEPT ![w] = "exited"]
    /\ UNCHANGED <<pc, pointCh, result, batch, outcome, closeVars, rows,
                   early>>

\* Mutated form: after its last flush the drain loop is left, but not the
\* worker: the outer loop finds stopCh closed again.
WorkerDrainedNoReturn(w) ==
    /\ wpc[w] = "receive"
    /\ mode[w] = "draining"
    /\ pointCh = <<>>
    /\ mode' = [mode EXCEPT ![w] = "running"]
    /\ wpc' = [wpc EXCEPT ![w] = IF batch[w] = <<>> THEN "receive" ELSE "write"]
    /\ UNCHANGED <<pc, pointCh, result, batch, outcome, closeVars, rows,
                   early>>

\* The default branch of the drain loop: nothing is buffered at this moment.
WorkerDrained(w) ==
    /\ wpc[w] = "receive"
    /\ mode[w] = "draining"
    /\ pointCh = <<>>
    /\ mode' = [mode EXCEPT ![w] = "leaving"]
    /\ wpc' = [wpc EXCEPT ![w] = IF batch[w] = <<>> THEN "exited" ELSE "write"]
    /\ UNCHANGED <<pc, pointCh, result, batch, outcome, closeVars, rows,
                   early>>

PointsIn(w) == {PointOf[c] : c \in ToSet(batch[w])}

\* Mutated form: the error of WritePoints is dropped.
FlushWriteUnchecked(w) ==
    /\ wpc[w] = "write"
    /\ \E S \in SUBSET PointsIn(w) : rows' = rows \cup S
    /\ outcome' = [outcome EXCEPT ![w] = "ok"]
    /\ wpc' = [wpc EXCEPT ![w] = "notify"]
    /\ UNCHANGED <<pc, pointCh, result, mode, batch, closeVars, early>>

\* WritePoints returns: nil when all points are stored; an error says
\* nothing of them (a response lost, a timeout, a line refused).
FlushWrite(w) ==
    /\ wpc[w] = "write"
    /\ \/ /\ rows' = rows \cup PointsIn(w)
          /\ outcome' = [outcome EXCEPT ![w] = "ok"]
       \/ /\ \E S \in SUBSET PointsIn(w) : rows' = rows \cup S
          /\ outcome' = [outcome EXCEPT ![w] = "error"]
    /\ wpc' = [wpc EXCEPT ![w] = "notify"]
    /\ UNCHANGED <<pc, pointCh, result, mode, batch, closeVars, early>>

\* Mutated form: the first caller of the batch only is notified.
FlushNotifyFirst(w) ==
    /\ wpc[w] = "notify"
    /\ result[Head(batch[w])] \in {"empty", "taken"}
    /\ result' = [result EXCEPT ![Head(batch[w])] = outcome[w]]
    /\ batch' = [batch EXCEPT ![w] = <<>>]
    /\ wpc' = [wpc EXCEPT ![w] =
                  IF mode[w] = "leaving" THEN "exited" ELSE "receive"]
    /\ UNCHANGED <<pc, pointCh, mode, outcome, closeVars, rows, early>>

\* One send of flushBatch's loop: it blocks while the buffer of the result
\* channel, of capacity one, is full.
FlushNotify(w) ==
    /\ wpc[w] = "notify"
    /\ result[Head(batch[w])] \in {"empty", "taken"}
    /\ result' = [result EXCEPT ![Head(batch[w])] = outcome[w]]
    /\ batch' = [batch EXCEPT ![w] = Tail(@)]
    /\ wpc' = [wpc EXCEPT ![w] =
                  IF Len(batch[w]) > 1 THEN "notify"
                  ELSE IF mode[w] = "leaving" THEN "exited" ELSE "receive"]
    /\ UNCHANGED <<pc, pointCh, mode, outcome, closeVars, rows, early>>

-----------------------------------------------------------------------------
(* Close.  The Writer's run defers it: it runs when gracefulShutdown has   *)
(* returned, after 30 seconds at the latest, with handlers still in Save.  *)

CloseStop ==
    /\ closer = "open"
    /\ closer' = "stopping"
    /\ stopped' = TRUE
    /\ UNCHANGED <<pc, pointCh, result, workerVars, rows, early>>

\* Mutated form: Close does not wait for the workers.
CloseWaitNone ==
    /\ closer = "stopping"
    /\ closer' = "closed"
    /\ UNCHANGED <<pc, pointCh, result, workerVars, stopped, rows, early>>

CloseWait ==
    /\ closer = "stopping"
    /\ \A w \in Workers : wpc[w] = "exited"
    /\ closer' = "closed"
    /\ UNCHANGED <<pc, pointCh, result, workerVars, stopped, rows, early>>

\* Everyone is done: nothing is left to happen.
Terminated ==
    /\ closer = "closed"
    /\ \A c \in Calls : pc[c] \in Returned
    /\ UNCHANGED vars

Caller(c) ==
    \/ SaveReject(c) \/ SaveCall(c) \/ SaveSend(c) \/ SaveSendClosed(c)
    \/ SaveExpired(c) \/ SaveResult(c)

Worker(w) ==
    \/ WorkerReceive(w) \/ WorkerTick(w) \/ WorkerStop(w) \/ WorkerDrained(w)
    \/ FlushWrite(w) \/ FlushNotify(w)

Next ==
    \/ \E c \in Calls : Caller(c)
    \/ \E w \in Workers : Worker(w)
    \/ CloseStop \/ CloseWait
    \/ Terminated

\* Deadlines pass, and a goroutine with something to do runs.  Nothing forces a call of Save, nor Close, to be made.
Fairness ==
    /\ \A c \in Calls :
          WF_vars(SaveSendClosed(c) \/ SaveExpired(c) \/ SaveResult(c))
    /\ \A w \in Workers : WF_vars(Worker(w))
    /\ WF_vars(CloseWait)

SafeSpec == Init /\ [][Next]_vars
Spec == SafeSpec /\ Fairness

-----------------------------------------------------------------------------
(* Properties.                                                             *)

\* Every variable has its type, and the two buffers keep to their capacity:
\* pointCh to workerCount*batchSize, the slices of a worker to batchSize.
TypeOK ==
    /\ pc \in [Calls -> PCs]
    /\ pointCh \in Seq(Calls)
    /\ Len(pointCh) <= ChanCap
    /\ result \in [Calls -> Results]
    /\ wpc \in [Workers -> WorkerPCs]
    /\ mode \in [Workers -> Modes]
    /\ batch \in [Workers -> Seq(Calls)]
    /\ \A w \in Workers : Len(batch[w]) <= BatchSize
    /\ outcome \in [Workers -> {"ok", "error"}]
    /\ stopped \in BOOLEAN
    /\ closer \in {"open", "stopping", "closed"}
    /\ rows \subseteq Points
    /\ early \subseteq Calls

\* What lets the subscriber acknowledge a message when Save returned nil: the
\* point of that very call is in InfluxDB, although the write was made by
\* another goroutine, with the points of other callers, some of whom may have
\* given up (the contract stated above Save).
SaveOkIsStored == \A c \in Calls : pc[c] = "ok" => PointOf[c] \in rows

\* A request is never duplicated and never lost between goroutines: a caller
\* that waits with an empty result channel has its request in exactly one
\* place, pointCh or the batch of one worker, once; and no request that still
\* is in one of them has been answered already, so that the worker's send on
\* the result channel finds it empty (flushBatch never blocks, and answers
\* each request once).
ExactlyOneAnswer ==
    /\ IsInjective(pointCh)
    /\ \A w \in Workers : IsInjective(batch[w])
    /\ \A w \in Workers, c \in Calls : InBatch(w, c) => ~InChannel(c)
    /\ \A v, w \in Workers, c \in Calls : InBatch(v, c) /\ InBatch(w, c) => v = w
    /\ \A c \in Calls :
          InChannel(c) \/ (\E w \in Workers : InBatch(w, c)) => result[c] = "empty"
    /\ \A c \in Calls :
          pc[c] = "wait" /\ result[c] = "empty"
             => InChannel(c) \/ \E w \in Workers : InBatch(w, c)

\* Close drains: when it returns, every call accepted before stopCh was
\* closed has been answered, whichever worker held it and however the drain
\* loops of the workers interleaved.
CloseDrains == closer = "closed" => \A c \in early : result[c] # "empty"

\* Close closes the client after the workers: InfluxDB is not written to
\* through a closed client.
NoWriteAfterClose == [][closer = "closed" => UNCHANGED <<rows, batch>>]_vars

\* Every call accepted before stopCh was closed is answered, also when no
\* other call follows to fill its batch, and when its caller has given up.
EarlyIsAnswered == \A c \in Calls : c \in early ~> result[c] # "empty"

\* Close returns: no worker is left behind, busy or blocked on a channel.
CloseReturns == closer = "stopping" ~> closer = "closed"

\* "Each point's result channel is always written to exactly once" (comment
\* above writeWorker): when the workers are gone, no caller that still waits
\* is without its answer.
EveryRequestIsAnswered ==
    (\A w \in Workers : wpc[w] = "exited")
       => \A c \in Calls : pc[c] = "wait" => result[c] # "empty"

-----------------------------------------------------------------------------
(* The inductive invariant of the safety properties.                       *)

InPool(c) == InChannel(c) \/ \E w \in Workers : InBatch(w, c)

\* A request in the pool was sent by a caller that waits or has given up,
\* and a call that has not been sent has had no answer.
SentBeforeAnswered ==
    /\ \A c \in Calls : InPool(c) => pc[c] \in {"wait", "expired"}
    /\ \A c \in Calls : pc[c] \in {"idle", "enqueue"} => result[c] = "empty"

\* nil travels from WritePoints through the result channel to the caller,
\* and the point is stored at each station.
NilIsStored ==
    /\ \A w \in Workers, c \in Calls :
          wpc[w] = "notify" /\ outcome[w] = "ok" /\ InBatch(w, c)
             => PointOf[c] \in rows
    /\ \A c \in Calls : result[c] = "ok" \/ pc[c] = "ok" => PointOf[c] \in rows

\* What a worker holds where it is.
WorkerShape ==
    \A w \in Workers :
        /\ wpc[w] \in {"write", "notify"} => batch[w] # <<>>
        /\ wpc[w] = "receive" => Len(batch[w]) < BatchSize /\ mode[w] # "leaving"
        /\ wpc[w] = "exited" => batch[w] = <<>> /\ mode[w] = "leaving"

\* The drain: a worker that leaves has seen pointCh empty after stopCh was
\* closed, so what is in pointCh since then is late; and an early call is in
\* the pool until it is answered, also when its caller has given up.
Draining ==
    /\ \A w \in Workers : mode[w] # "running" => stopped
    /\ (\E w \in Workers : mode[w] = "leaving") => \A c \in early : ~InChannel(c)
    /\ \A c \in early : result[c] = "empty" => InPool(c)
    /\ stopped <=> closer # "open"
    /\ closer = "closed" => \A w \in Workers : wpc[w] = "exited"

IInv ==
    /\ TypeOK
    /\ ExactlyOneAnswer
    /\ SentBeforeAnswered
    /\ NilIsStored
    /\ WorkerShape
    /\ Draining

-----------------------------------------------------------------------------
\* The pool implements the port: what a caller sees of the pool.
CallerSees(c) ==
    CASE pc[c] = "idle"                 -> "idle"
      [] pc[c] \in {"enqueue", "wait"} -> "saving"
      [] pc[c] = "ok"                   -> "ok"
      [] OTHER                          -> "error"

Repository == INSTANCE EventRepository WITH call <- [c \in Calls |-> CallerSees(c)]

\* Every behaviour of the pool is one the port allows: nil is returned only
\* for a stored point, only requested points are stored, every call returns.
ImplementsRepository == Repository!Spec
=============================================================================
