------------------------------ MODULE QueryPath ------------------------------
(***************************************************************************)
(* A query from a client to InfluxDB and back:                             *)
(*   - Client: NATSRequester.Request, called once by run of                *)
(*     cmd/client/main.go (EventPath has what it displays of a row);       *)
(*   - Reader: NATSResponder.handleMessage, GinHandler.GetEvents, and      *)
(*     below both QueryService.HandleQuery and InfluxDBQuerier.Query;      *)
(*   - external: NATS request-reply, the HTTP clients, the Writer's rows,  *)
(*     InfluxDB's answer to the query.                                     *)
(*                                                                         *)
(* Of the Reader's process only its phase is kept here; ReaderService has  *)
(* the goroutines behind it.                                               *)
(***************************************************************************)
EXTENDS Integers, SequencesExt

CONSTANTS
    Events,       \* points that the Writer may store, each its own row
    TimeOf,       \* TimeOf[e] and CritOf[e]: columns of the row of e
    CritOf,
    Readers,      \* replicas of the Reader
    Queries,      \* queries over NATS, each sent by a process of its own
    Gets,         \* GET /api/v1/events over HTTP
    Ask,          \* Ask[c]: what the query or the GET c asks for
    MaxStops      \* bound on the stops of each Reader, for TLC

Calls == Queries \cup Gets

\* "malformed" is no JSON, or parameters that are absent or no integers;
\* "noreply" is a message without a reply subject.  The Client sends neither
\* over NATS, but others may.
Forms == {"wellformed", "malformed", "noreply"}

None == "none"

ASSUME QueryAssumption ==
    /\ TimeOf \in [Events -> Nat]
    /\ CritOf \in [Events -> 1..10]
    /\ Queries \cap Gets = {} /\ None \notin Queries
    /\ Ask \in [Calls -> [form : Forms, min : Int, limit : Int]]
    /\ \A g \in Gets : Ask[g].form # "noreply"
    /\ MaxStops \in Nat

VARIABLES
    table,      \* the rows of events_tab, which the first row creates
    (* Readers *)
    phase,      \* phase[r]: the process of r, "stopping" once gCtx is done
    stops,      \* how often r has been stopped
    inbox,      \* inbox[r]: messages that wait for the callback, oldest first
    current,    \* current[r]: the query the callback is at work on
    outcome,    \* outcome[r]: what it is going to reply
    server,     \* server[g]: the replica that handles the GET g
    (* clients *)
    replies,    \* replies on their way
    client,     \* client[c]: where the client process of c is
    response,   \* response[c]: the QueryResponse that it has decoded
    answer,     \* answer[g]: status code and rows, once g is answered
    (* auxiliary *)
    asked,      \* asked[c]: the table when c was sent
    handled,    \* handled[c]: the replicas that have started to handle c
    published,  \* published[r][c]: how many replies r has published for c
    erred,      \* calls for which InfluxDB has returned an error with cause,
                \* that is, any but the missing table of an empty database
    swallowed   \* calls whose error was taken for a missing table all the same

readerVars == <<phase, stops>>
jobVars    == <<current, outcome>>
clientVars == <<client, response>>
httpVars   == <<server, answer>>
countVars  == <<handled, published>>
errorVars  == <<erred, swallowed>>
vars == <<table, readerVars, inbox, jobVars, httpVars, replies, clientVars, asked,
          countVars, errorVars>>

-----------------------------------------------------------------------------
(* The query itself: domain, use case, querier.                            *)

\* What the transports parse and NewQueryParams accepts.
ParamsOk(a) ==
    a.form = "wellformed" /\ a.min \in 1..10 /\ a.limit \in 1..1000

Matching(a, t) == {e \in t : CritOf[e] >= a.min}
Cut(a, s)      == SubSeq(s, 1, IF Len(s) < a.limit THEN Len(s) ELSE a.limit)

\* Mutated form: the limit is applied before the order.
SelectUnordered(a, t) == {Cut(a, s) : s \in SetToSeqs(Matching(a, t))}

\* SELECT ... WHERE criticality >= $1 ORDER BY time DESC LIMIT $2: rows of
\* one time come in any order.
Select(a, t) ==
    {Cut(a, s) : s \in {q \in SetToSeqs(Matching(a, t)) :
                           \A i, j \in DOMAIN q : i < j => TimeOf[q[i]] >= TimeOf[q[j]]}}

Result(s)    == [kind |-> "result", rows |-> s, total |-> Len(s)]
Refusal(why) == [kind |-> why, rows |-> <<>>, total |-> 0]

\* The errors of the query whose text has "table" or "not found" in it: the
\* missing table, and for instance a denied access to table events_tab.
\* "down" is any other, and an error while the rows are read.
Swallowed == {"missing", "denied"}

\* The table is missing before the first row; a cancelled context only fails.
ErrorsOf(cancelled) ==
    {"down"} \cup IF cancelled THEN {}
                 ELSE IF table = {} THEN Swallowed ELSE {"denied"}

\* InfluxDBQuerier.Query for the call c: the database reads the table at one
\* moment; an error that mentions a table is taken for the missing table.
Query(c, cancelled, res) ==
    \/ /\ ~cancelled /\ table # {}
       /\ \E s \in Select(Ask[c], table) : res = Result(s)
       /\ UNCHANGED errorVars
    \/ \E err \in ErrorsOf(cancelled) :
          /\ res = IF err \in Swallowed THEN Result(<<>>) ELSE Refusal("internal")
          /\ erred' = IF err = "missing" THEN erred ELSE erred \cup {c}
          /\ swallowed' = IF err = "denied" THEN swallowed \cup {c} ELSE swallowed

\* QueryService.HandleQuery, with what its caller makes of an error.
HandleQuery(c, cancelled, res) ==
    \/ ~ParamsOk(Ask[c]) /\ res = Refusal("invalid") /\ UNCHANGED errorVars
    \/ ParamsOk(Ask[c]) /\ Query(c, cancelled, res)

Outcomes(c) ==
    {Refusal("invalid"), Refusal("internal"), Result(<<>>)}
        \cup {Result(s) : s \in Select(Ask[c], table)}

-----------------------------------------------------------------------------
(* What the client makes of a reply.                                       *)

\* Unmarshalling into QueryResponse: the error envelope {"error": ...} has
\* neither of its fields, and leaves them zero.
Decode(reply) ==
    IF reply.kind = "result" THEN [events |-> reply.rows, total |-> reply.total]
                             ELSE [events |-> <<>>, total |-> 0]

-----------------------------------------------------------------------------
Phases       == {"up", "stopping", "down"}
ClientStates == {"idle", "waiting", "displayed", "failed"}

NoResponse == [events |-> <<>>, total |-> 0]
NoAnswer   == [code |-> 0, rows |-> <<>>, total |-> 0]

Init ==
    /\ table     = {}
    /\ phase     = [r \in Readers |-> "up"]
    /\ stops     = [r \in Readers |-> 0]
    /\ inbox     = [r \in Readers |-> <<>>]
    /\ current   = [r \in Readers |-> None]
    /\ outcome   = [r \in Readers |-> Refusal(None)]
    /\ server    = [g \in Gets |-> None]
    /\ replies   = {}
    /\ client    = [c \in Queries |-> "idle"]
    /\ response  = [c \in Queries |-> NoResponse]
    /\ answer    = [g \in Gets |-> NoAnswer]
    /\ asked     = [c \in Calls |-> {}]
    /\ handled   = [c \in Queries |-> {}]
    /\ published = [r \in Readers |-> [c \in Queries |-> 0]]
    /\ erred     = {}
    /\ swallowed = {}

\* The Writer stores a row (external).
Store(e) ==
    /\ e \notin table
    /\ table' = table \cup {e}
    /\ UNCHANGED <<readerVars, inbox, jobVars, httpVars, replies,
                   clientVars, asked, countVars, errorVars>>

Serving(r) == phase[r] \in {"up", "stopping"}

-----------------------------------------------------------------------------
(* The client.                                                             *)

\* Every plain subscription of the subject gets the message: there is no
\* queue group.  Some may not, while their connection is down.  Without any
\* subscriber the server says so at once, and Request returns an error.  Who
\* sends a message without a reply subject does not wait.  A Reader that stops
\* is subscribed until Listen returns.
Request(c) ==
    /\ client[c] = "idle"
    /\ asked' = [asked EXCEPT ![c] = table]
    /\ \/ /\ \E r \in Readers : Serving(r)
          /\ client' = [client EXCEPT ![c] = IF Ask[c].form = "noreply" THEN "failed"
                                                                    ELSE "waiting"]
          /\ \E got \in SUBSET {r \in Readers : Serving(r)} :
                inbox' = [r \in Readers |->
                             IF r \in got THEN Append(inbox[r], c) ELSE inbox[r]]
       \/ /\ \A r \in Readers : phase[r] # "up"
          /\ client' = [client EXCEPT ![c] = "failed"]
          /\ UNCHANGED inbox
    /\ UNCHANGED <<table, readerVars, jobVars, httpVars, replies, response,
                   countVars, errorVars>>

\* The first reply counts.  It is decoded and displayed.
ClientReceives(c) ==
    /\ client[c] = "waiting"
    /\ \E m \in replies :
          /\ m.query = c
          /\ replies' = replies \ {m}
          /\ response' = [response EXCEPT ![c] = Decode(m.reply)]
    /\ client' = [client EXCEPT ![c] = "displayed"]
    /\ UNCHANGED <<table, readerVars, inbox, jobVars, httpVars, asked, countVars,
                   errorVars>>

\* requestTimeout passes: run returns an error.
ClientExpires(c) ==
    /\ client[c] = "waiting"
    /\ client' = [client EXCEPT ![c] = "failed"]
    /\ UNCHANGED <<table, readerVars, inbox, jobVars, httpVars, replies,
                   response, asked, countVars, errorVars>>

-----------------------------------------------------------------------------
(* NATSResponder: one message after the other.                             *)

\* The callback starts, with its context, for the oldest message.
TakeMessage(r) ==
    /\ Serving(r)
    /\ current[r] = None
    /\ inbox[r] # <<>>
    /\ LET c == Head(inbox[r])
       IN  /\ current' = [current EXCEPT ![r] = c]
           /\ handled' = [handled EXCEPT ![c] = @ \cup {r}]
    /\ inbox' = [inbox EXCEPT ![r] = Tail(@)]
    /\ UNCHANGED <<table, readerVars, outcome, httpVars, replies, clientVars, asked,
                   published, errorVars>>

\* The callback is at work on a message; what its steps leave alone.
AtWork(r) ==
    /\ Serving(r)
    /\ current[r] # None
    /\ UNCHANGED <<table, readerVars, inbox, httpVars, clientVars, asked, handled>>

\* No reply subject: the message is ignored.
HandleIgnore(r) ==
    /\ AtWork(r)
    /\ Ask[current[r]].form = "noreply"
    /\ current' = [current EXCEPT ![r] = None]
    /\ UNCHANGED <<outcome, replies, published, errorVars>>

\* The request is parsed and the query is run.
HandleRun(r) ==
    /\ AtWork(r)
    /\ Ask[current[r]].form # "noreply"
    /\ outcome[r].kind = None
    /\ \E res \in Outcomes(current[r]) :
          /\ HandleQuery(current[r], phase[r] = "stopping", res)
          /\ outcome' = [outcome EXCEPT ![r] = res]
    /\ UNCHANGED <<current, replies, published>>

\* Mutated form: no return after sendError, the empty response follows.
NextOutcomeContinues(res) ==
    IF res.kind \in {"invalid", "internal"} THEN Result(<<>>) ELSE Refusal(None)

\* What is still to be published after res: nothing, the callback returns.
NextOutcome(res) == Refusal(None)

\* Mutated form: the reply is handed over to a client that still waits.
MayReplyWaits(c) == client[c] = "waiting"

\* Publishing does not wait for anyone.
MayReply(c) == TRUE

\* The response or the error envelope is published, and may never arrive.
HandleReply(r) ==
    /\ AtWork(r)
    /\ outcome[r].kind # None
    /\ MayReply(current[r])
    /\ replies' = replies \cup {[query |-> current[r], reply |-> outcome[r]]}
    /\ published' = [published EXCEPT ![r][current[r]] = @ + 1]
    /\ outcome' = [outcome EXCEPT ![r] = NextOutcome(outcome[r])]
    /\ current' = [current EXCEPT ![r] = IF NextOutcome(outcome[r]).kind = None
                                         THEN None ELSE @]
    /\ UNCHANGED errorVars

-----------------------------------------------------------------------------
(* GinHandler.GetEvents: a goroutine per request.                          *)

\* The load balancer picks a Reader; one that stops accepts requests until
\* Shutdown is called.
Get(g, r) ==
    /\ server[g] = None
    /\ answer[g].code = 0
    /\ Serving(r)
    /\ server' = [server EXCEPT ![g] = r]
    /\ asked' = [asked EXCEPT ![g] = table]
    /\ UNCHANGED <<table, readerVars, inbox, jobVars, replies, clientVars,
                   answer, countVars, errorVars>>

\* The status code of what HandleQuery has returned.
StatusOf(res) ==
    CASE res.kind = "result"   -> 200
      [] res.kind = "invalid"  -> 400
      [] res.kind = "internal" -> 500

\* The context of an HTTP request is not the group's: it ends with the
\* connection.
GetEvents(g) ==
    /\ server[g] # None
    /\ answer[g].code = 0
    /\ \E res \in Outcomes(g) :
          /\ HandleQuery(g, FALSE, res)
          /\ answer' = [answer EXCEPT ![g] =
                           [code |-> StatusOf(res), rows |-> res.rows, total |-> res.total]]
    /\ UNCHANGED <<table, readerVars, inbox, jobVars, replies, clientVars,
                   server, asked, countVars>>

-----------------------------------------------------------------------------
(* The process of a Reader, see ReaderService.                             *)

\* The group's context is done: Listen returns and drains its subscription;
\* the callback goes on with what is in the inbox, with a context that is done.
Stop(r) ==
    /\ phase[r] = "up"
    /\ stops[r] < MaxStops
    /\ phase' = [phase EXCEPT ![r] = "stopping"]
    /\ stops' = [stops EXCEPT ![r] = @ + 1]
    /\ UNCHANGED <<table, inbox, jobVars, httpVars, replies, clientVars,
                   asked, countVars, errorVars>>

\* run returns without waiting for the drain: the inbox and the callback are
\* cut off.  A GET that is cut off may be sent again.
Exit(r) ==
    /\ phase[r] = "stopping"
    /\ phase' = [phase EXCEPT ![r] = "down"]
    /\ inbox' = [inbox EXCEPT ![r] = <<>>]
    /\ current' = [current EXCEPT ![r] = None]
    /\ outcome' = [outcome EXCEPT ![r] = Refusal(None)]
    /\ server' = [g \in Gets |-> IF server[g] = r /\ answer[g].code = 0
                                 THEN None ELSE server[g]]
    /\ UNCHANGED <<table, stops, replies, clientVars, answer, asked, countVars, errorVars>>

\* restart: unless-stopped.
Restart(r) ==
    /\ phase[r] = "down"
    /\ phase' = [phase EXCEPT ![r] = "up"]
    /\ UNCHANGED <<table, stops, inbox, jobVars, httpVars, replies,
                   clientVars, asked, countVars, errorVars>>

Callback(r) == TakeMessage(r) \/ HandleIgnore(r) \/ HandleRun(r) \/ HandleReply(r)

\* All is asked and answered: the system rests.
Idle ==
    /\ \A c \in Queries : client[c] \in {"displayed", "failed"}
    /\ \A g \in Gets : answer[g].code # 0
    /\ UNCHANGED vars

Next ==
    \/ \E e \in Events : Store(e)
    \/ \E c \in Queries : Request(c) \/ ClientReceives(c) \/ ClientExpires(c)
    \/ \E r \in Readers : Callback(r) \/ Stop(r) \/ Exit(r) \/ Restart(r)
    \/ \E g \in Gets : GetEvents(g) \/ (\E r \in Readers : Get(g, r))
    \/ Idle

\* The callback runs, a query returns within its ten seconds, a stopped
\* container goes down and is started again.  Nothing is assumed of the
\* network, of the database, of the Writer or of the clients.
Fairness ==
    \A r \in Readers : WF_vars(Callback(r)) /\ WF_vars(Exit(r)) /\ WF_vars(Restart(r))

SafeSpec == Init /\ [][Next]_vars
Spec == SafeSpec /\ Fairness

-----------------------------------------------------------------------------
(* Properties.                                                             *)

TypeOK ==
    /\ table \subseteq Events
    /\ phase \in [Readers -> Phases]
    /\ stops \in [Readers -> 0..MaxStops]
    /\ \A r \in Readers : inbox[r] \in Seq(Queries)
    /\ current \in [Readers -> Queries \cup {None}]
    /\ \A r \in Readers : current[r] = None => outcome[r] = Refusal(None)
    /\ server \in [Gets -> Readers \cup {None}]
    /\ client \in [Queries -> ClientStates]
    /\ \A g \in Gets : answer[g].code \in {0, 200, 400, 500}
    /\ asked \in [Calls -> SUBSET Events]
    /\ handled \in [Queries -> SUBSET Readers]
    /\ swallowed \subseteq erred /\ erred \subseteq Calls

\* What the caller of c sees of rows is right: they are rows that match,
\* newest first, no more than asked for; and no row that was in the table
\* when c was sent is passed over for an older one.
RightRows(c, rows, total) ==
    /\ total = Len(rows)
    /\ Len(rows) <= Ask[c].limit
    /\ \A i \in DOMAIN rows : rows[i] \in table /\ CritOf[rows[i]] >= Ask[c].min
    /\ \A i, j \in DOMAIN rows :
          i < j => rows[i] # rows[j] /\ TimeOf[rows[i]] >= TimeOf[rows[j]]
    /\ \A e \in asked[c] :
          \/ CritOf[e] < Ask[c].min
          \/ \E i \in DOMAIN rows : rows[i] = e
          \/ Len(rows) = Ask[c].limit /\ \A i \in DOMAIN rows : TimeOf[rows[i]] >= TimeOf[e]

\* A query over HTTP, or in a reply over NATS, is refused as invalid if and
\* only if it is, with the bounds of the README, and fails only after an error.
RightKind(c, kind) ==
    /\ kind = "invalid" <=>
          ~(Ask[c].form = "wellformed" /\ Ask[c].min >= 1 /\ Ask[c].min <= 10
              /\ Ask[c].limit >= 1 /\ Ask[c].limit <= 1000)
    /\ kind = "internal" => c \in erred

\* What callers see is right, although it was queued, computed and delivered
\* while the Writer stored more rows and Readers came and went.  The Reader
\* answers with no rows although there were some only when the text of an error
\* looked like that of the missing table; any other error it reports as one.
\* Over NATS the client also displays none after such a report, or because its
\* parameters were invalid: the error envelope decodes as no rows.
AnswersAreRight ==
    /\ \A m \in replies :
          /\ RightKind(m.query, m.reply.kind)
          /\ m.reply.kind = "result" =>
                \/ RightRows(m.query, m.reply.rows, m.reply.total)
                \/ m.reply.rows = <<>> /\ m.query \in swallowed
    /\ \A c \in Queries : client[c] = "displayed" =>
          \/ RightRows(c, response[c].events, response[c].total)
          \/ response[c] = NoResponse /\ (c \in erred \/ ~ParamsOk(Ask[c]))
    /\ \A g \in Gets : answer[g].code # 0 =>
          /\ RightKind(g, CASE answer[g].code = 200 -> "result"
                            [] answer[g].code = 400 -> "invalid"
                            [] OTHER -> "internal")
          /\ answer[g].code = 200 =>
                \/ RightRows(g, answer[g].rows, answer[g].total)
                \/ answer[g].rows = <<>> /\ g \in swallowed

\* Each replica that handles a query publishes one reply to it, never a
\* second one after an error; it owes the reply as long as the callback is at
\* work, and none to a message without reply subject.
OneReplyEach ==
    \A r \in Readers, c \in Queries :
        /\ published[r][c] <= 1
        /\ current[r] = c => published[r][c] = 0
        /\ Ask[c].form = "noreply" => published[r][c] = 0
        /\ r \in handled[c] /\ current[r] # c /\ stops[r] = 0 /\ Ask[c].form # "noreply"
              => published[r][c] = 1

\* No message stays in the inbox of a Reader: the callback never gets stuck on
\* one, with a reply subject or without, in a Reader that runs or that stops.
InboxIsServed ==
    \A r \in Readers, c \in Queries :
        (\E i \in DOMAIN inbox[r] : inbox[r][i] = c)
            ~> current[r] = None /\ ~(\E i \in DOMAIN inbox[r] : inbox[r][i] = c)

\* "NATS request-reply delivers each query to exactly one reader instance"
\* (README, Horizontal Scaling): no two replicas handle the same query.
OneReaderPerQuery == \A c \in Queries : \A r, q \in handled[c] : r = q

\* The reply on query_subject is "Query results returned by the reader"
\* (asyncapi.yaml): a client that displays "Total: 0 events" with status 0 has
\* been told that there were none, by a query that was run.
EmptyIsAResult ==
    [][\A c \in Queries :
          client[c] = "waiting" /\ client'[c] = "displayed" =>
              \E m \in replies : m.query = c /\ m.reply.kind = "result"]_vars

\* "events_tab not yet created (no data written)" (log line of
\* InfluxDBQuerier.Query): that is why it answers with no rows after an error.
OnlyMissingTableIsSwallowed == swallowed = {}
=============================================================================
