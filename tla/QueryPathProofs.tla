--------------------------- MODULE QueryPathProofs ---------------------------
(***************************************************************************)
(* Proofs about the Reader.                                                *)
(*   - QueryPath: its callers see right answers, and each replica publishes *)
(*     one reply to what it handles, for any number of replicas, clients,  *)
(*     rows and stops.                                                     *)
(*   - ReaderService, the process behind one replica (P, over the state of *)
(*     ReaderProcess): how it ends, for any set of HTTP requests, and that *)
(*     its phases are those that QueryPath knows.                          *)
(***************************************************************************)
EXTENDS QueryPath, ReaderProcess, FiniteSetTheorems, TLAPS

P == INSTANCE ReaderService

-----------------------------------------------------------------------------
(* What the query answers.                                                 *)

\* RightRows, with the table t at some moment and the rows past that were in
\* it when the call was sent.
RowsOf(c, rows, total, t, past) ==
    /\ total = Len(rows)
    /\ Len(rows) <= Ask[c].limit
    /\ \A i \in DOMAIN rows : rows[i] \in t /\ CritOf[rows[i]] >= Ask[c].min
    /\ \A i, j \in DOMAIN rows :
          i < j => rows[i] # rows[j] /\ TimeOf[rows[i]] >= TimeOf[rows[j]]
    /\ \A e \in past :
          \/ CritOf[e] < Ask[c].min
          \/ \E i \in DOMAIN rows : rows[i] = e
          \/ Len(rows) = Ask[c].limit /\ \A i \in DOMAIN rows : TimeOf[rows[i]] >= TimeOf[e]

\* What HandleQuery returns for c, be it a result or an error.
Good(c, res, t, past, errs, taken) ==
    /\ res.kind \in {"result", "invalid", "internal"}
    /\ res.kind = "invalid" <=> ~ParamsOk(Ask[c])
    /\ res.kind = "internal" => c \in errs
    /\ res.kind = "result" =>
          \/ RowsOf(c, res.rows, res.total, t, past)
          \/ res.rows = <<>> /\ res.total = 0 /\ c \in errs \cap taken

\* Rows are only added, and errors too: what was right stays right.
LEMMA RowsStay ==
    ASSUME NEW c, NEW rows, NEW total, NEW t, NEW past, NEW u, t \subseteq u,
           RowsOf(c, rows, total, t, past)
    PROVE  RowsOf(c, rows, total, u, past)
    BY DEF RowsOf

LEMMA GoodStays ==
    ASSUME NEW c, NEW res, NEW t, NEW past, NEW errs, NEW taken, NEW u, NEW more, NEW also,
           t \subseteq u, errs \subseteq more, taken \subseteq also,
           Good(c, res, t, past, errs, taken)
    PROVE  Good(c, res, u, past, more, also)
    BY RowsStay DEF Good

LEMMA Limits == ASSUME NEW a, ParamsOk(a) PROVE a.limit \in Nat /\ 1 <= a.limit
    BY DEF ParamsOk

\* The code's bounds are those of the README.
LEMMA ValidIff ==
    ASSUME NEW c \in Calls
    PROVE  ParamsOk(Ask[c]) <=>
              /\ Ask[c].form = "wellformed" /\ Ask[c].min >= 1 /\ Ask[c].min <= 10
              /\ Ask[c].limit >= 1 /\ Ask[c].limit <= 1000
<1>. DEFINE min == Ask[c].min
            limit == Ask[c].limit
<1>1. min \in Int /\ limit \in Int
    BY QueryAssumption
<1>2. ParamsOk(Ask[c]) <=> Ask[c].form = "wellformed" /\ min \in 1..10 /\ limit \in 1..1000
    BY DEF ParamsOk
<1>. HIDE DEF min, limit
<1>3. min \in 1..10 <=> min >= 1 /\ min <= 10
    BY <1>1
<1>4. limit \in 1..1000 <=> limit >= 1 /\ limit <= 1000
    BY <1>1
<1>. QED BY <1>2, <1>3, <1>4 DEF min, limit

\* ORDER BY time DESC LIMIT n: of the rows that match it returns the newest,
\* each once, and passes over none unless the limit is reached.
LEMMA SelectIsRight ==
    ASSUME NEW c \in Calls, ParamsOk(Ask[c]),
           NEW t, t \subseteq Events, IsFiniteSet(t), NEW past, past \subseteq t,
           NEW s \in Select(Ask[c], t)
    PROVE  RowsOf(c, s, Len(s), t, past)
<1>. DEFINE a == Ask[c]
            M == Matching(a, t)
            n == Cardinality(M)
            D == 1..n
<1>1. /\ M \subseteq t /\ \A e \in M : CritOf[e] >= a.min
      /\ \A e \in t : e \in M \/ CritOf[e] < a.min
      /\ \A e \in t : TimeOf[e] \in Nat
    BY QueryAssumption DEF ParamsOk, Matching
<1>0. a.limit \in Nat /\ 1 <= a.limit
    BY Limits
<1>2. IsFiniteSet(M) /\ n \in Nat
    BY <1>1, FS_Subset, FS_CardinalityType
<1>3. PICK q \in SetToSeqs(M) :
          /\ \A i, j \in DOMAIN q : i < j => TimeOf[q[i]] >= TimeOf[q[j]]
          /\ s = Cut(a, q)
    BY DEF Select
<1>4. q \in [D -> M] /\ \A i, j \in D : i # j => q[i] # q[j]
    BY <1>3 DEF SetToSeqs
<1>5. \A e \in M : \E i \in D : q[i] = e
    <2>1. q \in Injection(D, M)
        BY <1>4 DEF Injection, IsInjective
    <2>2. IsFiniteSet(D) /\ Cardinality(D) = n
        BY <1>2, FS_Interval
    <2>3. q \in Surjection(D, M)
        BY <1>2, <2>1, <2>2, FS_Injection
    <2>. QED BY <2>3 DEF Surjection
<1>. DEFINE k == IF n < a.limit THEN n ELSE a.limit
<1>6. q \in Seq(M) /\ Len(q) = n
    BY <1>2, <1>4
<1>7. Len(s) = k /\ DOMAIN s = 1..k /\ \A i \in 1..k : i \in D /\ s[i] = q[i]
    <2>1. k \in Nat /\ k <= n
        BY <1>0, <1>2
    <2>2. s = SubSeq(q, 1, k)
        BY <1>3, <1>6 DEF Cut
    <2>. QED BY <1>2, <1>6, <2>1, <2>2
<1>. HIDE DEF a, M, n, D, k
<1>8. Len(s) <= a.limit
    BY <1>0, <1>2, <1>7 DEF k
<1>9. \A i \in DOMAIN s : s[i] \in t /\ CritOf[s[i]] >= a.min
    BY <1>1, <1>4, <1>7
<1>10. \A i, j \in DOMAIN s : i < j => s[i] # s[j] /\ TimeOf[s[i]] >= TimeOf[s[j]]
    <2>. SUFFICES ASSUME NEW i \in DOMAIN s, NEW j \in DOMAIN s, i < j
                  PROVE  s[i] # s[j] /\ TimeOf[s[i]] >= TimeOf[s[j]]
        OBVIOUS
    <2>1. i \in D /\ j \in D /\ i # j /\ DOMAIN q = D
        BY <1>4, <1>7 DEF D
    <2>. QED BY <1>3, <1>4, <1>7, <2>1
<1>11. ASSUME NEW e \in past, e \in M, \A i \in DOMAIN s : s[i] # e
       PROVE  Len(s) = a.limit /\ \A i \in DOMAIN s : TimeOf[s[i]] >= TimeOf[e]
    <2>1. PICK j \in D : q[j] = e
        BY <1>5, <1>11
    <2>2. j \in Nat /\ j <= n /\ k < j
        BY <1>0, <1>2, <1>7, <1>11, <2>1 DEF D, k
    <2>3. k = a.limit /\ Len(s) = a.limit
        BY <1>0, <1>2, <1>7, <2>2 DEF k
    <2>4. ASSUME NEW i \in DOMAIN s PROVE TimeOf[s[i]] >= TimeOf[e]
        <3>1. i \in D /\ i < j /\ DOMAIN q = D /\ s[i] = q[i]
            BY <1>0, <1>2, <1>4, <1>7, <2>2, <2>3 DEF D
        <3>. QED BY <1>3, <2>1, <3>1
    <2>. QED BY <2>3, <2>4
<1>12. \A e \in past : e \in M \/ CritOf[e] < a.min
    BY <1>1
<1>. QED BY <1>8, <1>9, <1>10, <1>11, <1>12 DEF RowsOf, a

\* Whatever HandleQuery returns is good, with the errors it has recorded, and
\* forgets no error of another call.
LEMMA QueryIsGood ==
    ASSUME NEW c \in Calls, NEW cancelled \in BOOLEAN, NEW res,
           table \subseteq Events, IsFiniteSet(table), asked[c] \subseteq table,
           HandleQuery(c, cancelled, res)
    PROVE  /\ Good(c, res, table, asked[c], erred', swallowed')
           /\ erred \subseteq erred' /\ swallowed \subseteq swallowed'
<1>1. CASE ~ParamsOk(Ask[c])
    <2>1. res = Refusal("invalid") /\ erred' = erred /\ swallowed' = swallowed
        BY <1>1 DEF HandleQuery, errorVars
    <2>. QED BY <1>1, <2>1 DEF Good, Refusal
<1>2. CASE ParamsOk(Ask[c])
    <2>1. Query(c, cancelled, res)
        BY <1>2 DEF HandleQuery
    <2>2. ASSUME NEW s \in Select(Ask[c], table), res = Result(s),
                 erred' = erred /\ swallowed' = swallowed
          PROVE  Good(c, res, table, asked[c], erred', swallowed')
        <3>1. RowsOf(c, s, Len(s), table, asked[c])
            BY <1>2, <2>2, SelectIsRight
        <3>. QED BY <1>2, <2>2, <3>1 DEF Good, Result
    <2>3. ASSUME NEW err \in ErrorsOf(cancelled),
                 res = IF err \in Swallowed THEN Result(<<>>) ELSE Refusal("internal"),
                 erred' = IF err = "missing" THEN erred ELSE erred \cup {c},
                 swallowed' = IF err = "denied" THEN swallowed \cup {c} ELSE swallowed
          PROVE  Good(c, res, table, asked[c], erred', swallowed')
        <3>1. CASE err = "missing"
            <4>1. table = {} /\ res = Result(<<>>)
                BY <2>3, <3>1 DEF ErrorsOf, Swallowed
            <4>2. asked[c] = {} /\ 1 <= Ask[c].limit /\ Ask[c].limit \in Nat
                BY <1>2, <4>1, Limits
            <4>3. RowsOf(c, <<>>, Len(<<>>), table, asked[c])
                BY <4>2 DEF RowsOf
            <4>. QED BY <1>2, <4>1, <4>3 DEF Good, Result
        <3>2. CASE err = "denied"
            <4>1. res = Result(<<>>) /\ c \in erred' \cap swallowed'
                BY <2>3, <3>2 DEF Swallowed
            <4>. QED BY <1>2, <4>1 DEF Good, Result
        <3>3. CASE err = "down"
            <4>1. res = Refusal("internal") /\ c \in erred'
                BY <2>3, <3>3 DEF Swallowed
            <4>. QED BY <1>2, <4>1 DEF Good, Refusal
        <3>. QED BY <3>1, <3>2, <3>3 DEF ErrorsOf, Swallowed
    <2>4. CASE \E s \in Select(Ask[c], table) : res = Result(s) /\ UNCHANGED errorVars
        BY <2>2, <2>4 DEF errorVars
    <2>5. CASE \E err \in ErrorsOf(cancelled) :
                  /\ res = IF err \in Swallowed THEN Result(<<>>) ELSE Refusal("internal")
                  /\ erred' = IF err = "missing" THEN erred ELSE erred \cup {c}
                  /\ swallowed' = IF err = "denied" THEN swallowed \cup {c} ELSE swallowed
        BY <2>3, <2>5
    <2>. QED BY <2>1, <2>4, <2>5 DEF Query
<1>. QED BY <1>1, <1>2

-----------------------------------------------------------------------------
(* The inductive invariant.                                                *)

\* asked says that what was in the table is in it still.
Typed ==
    /\ table \subseteq Events /\ IsFiniteSet(table)
    /\ phase \in [Readers -> Phases]
    /\ stops \in [Readers -> Nat]
    /\ inbox \in [Readers -> Seq(Queries)]
    /\ current \in [Readers -> Queries \cup {None}]
    /\ DOMAIN outcome = Readers
    /\ DOMAIN response = Queries
    /\ DOMAIN answer = Gets
    /\ client \in [Queries -> ClientStates]
    /\ asked \in [Calls -> SUBSET table]
    /\ handled \in [Queries -> SUBSET Readers]
    /\ published \in [Readers -> [Queries -> Nat]]
    /\ \A m \in replies : m.query \in Queries

Waits(r, c) == \E i \in DOMAIN inbox[r] : inbox[r][i] = c

\* A query comes to a replica once: it waits there, or is at work, or is done
\* with, or has not been sent.  This is what OneReplyEach needs to be inductive.
Once ==
    /\ \A r \in Readers : \A i, j \in DOMAIN inbox[r] : i # j => inbox[r][i] # inbox[r][j]
    /\ \A r \in Readers, c \in Queries :
          /\ Waits(r, c) => r \notin handled[c] /\ client[c] # "idle"
          /\ r \in handled[c] => client[c] # "idle"
          /\ r \notin handled[c] => current[r] # c /\ published[r][c] = 0
    /\ \A m \in replies : client[m.query] # "idle"

\* A replica that was never stopped has lost nothing.
Up == \A r \in Readers : stops[r] = 0 => phase[r] = "up"

\* What is computed but not yet published, and what is published but not yet
\* received, is good.
OnItsWay ==
    /\ \A r \in Readers :
          IF current[r] = None \/ Ask[current[r]].form = "noreply"
          THEN outcome[r].kind = None
          ELSE outcome[r].kind # None =>
                  Good(current[r], outcome[r], table, asked[current[r]], erred, swallowed)
    /\ \A m \in replies : Good(m.query, m.reply, table, asked[m.query], erred, swallowed)

\* And so is what the callers have in the end.
Received ==
    /\ \A c \in Queries : client[c] = "displayed" =>
          \/ RowsOf(c, response[c].events, response[c].total, table, asked[c])
          \/ response[c] = NoResponse /\ (c \in erred \/ ~ParamsOk(Ask[c]))
    /\ \A g \in Gets : answer[g].code # 0 =>
          \E kind \in {"result", "invalid", "internal"} :
             /\ answer[g].code = StatusOf([kind |-> kind])
             /\ Good(g, [kind |-> kind, rows |-> answer[g].rows, total |-> answer[g].total],
                     table, asked[g], erred, swallowed)

IInv == Typed /\ Once /\ Up /\ OneReplyEach /\ OnItsWay /\ Received

-----------------------------------------------------------------------------

LEMMA InitInv == Init => IInv
<1>. SUFFICES ASSUME Init PROVE IInv
    OBVIOUS
<1>. USE DEF Init
<1>1. Typed
    BY FS_EmptySet, QueryAssumption DEF Typed, Phases, ClientStates
<1>2. Once
    BY QueryAssumption DEF Once, Waits
<1>3. Up
    BY DEF Up
<1>4. OneReplyEach
    BY QueryAssumption DEF OneReplyEach
<1>5. OnItsWay
    BY DEF OnItsWay, Refusal
<1>6. Received
    BY DEF Received, NoAnswer
<1>. QED BY <1>1, <1>2, <1>3, <1>4, <1>5, <1>6 DEF IInv

-----------------------------------------------------------------------------
(* Every step preserves the types.                                         *)

\* What a query that is sent does to the inboxes: some replicas get it.
LEMMA RequestInbox ==
    ASSUME Typed, NEW c \in Queries, Request(c)
    PROVE  \E got \in SUBSET Readers :
              inbox' = [r \in Readers |-> IF r \in got THEN Append(inbox[r], c) ELSE inbox[r]]
<1>1. CASE UNCHANGED inbox
    <2>1. inbox' = [r \in Readers |-> IF r \in {} THEN Append(inbox[r], c) ELSE inbox[r]]
        BY <1>1 DEF Typed
    <2>. WITNESS {} \in SUBSET Readers
    <2>. QED BY <2>1
<1>2. CASE \E got \in SUBSET {r \in Readers : phase[r] = "up"} :
              inbox' = [r \in Readers |-> IF r \in got THEN Append(inbox[r], c) ELSE inbox[r]]
    BY <1>2
<1>. QED BY <1>1, <1>2 DEF Request

LEMMA Counts ==
    ASSUME NEW f \in [Readers -> Nat], NEW r \in Readers
    PROVE  [f EXCEPT ![r] = f[r] + 1] \in [Readers -> Nat]
<1>1. f[r] + 1 \in Nat
    OBVIOUS
<1>. QED BY <1>1

LEMMA TypedStep == ASSUME Typed, [Next]_vars PROVE Typed'
<1>. USE DEF Typed
<1>1. ASSUME NEW e \in Events, Store(e) PROVE Typed'
    <2>1. IsFiniteSet(table')
        BY <1>1, FS_AddElement DEF Store
    <2>. QED BY <1>1, <2>1
            DEF Store, readerVars, jobVars, httpVars, clientVars, countVars, errorVars
<1>2. ASSUME NEW c \in Queries, Request(c) PROVE Typed'
    <2>1. inbox' \in [Readers -> Seq(Queries)]
        <3>1. PICK got \in SUBSET Readers :
                  inbox' = [r \in Readers |-> IF r \in got THEN Append(inbox[r], c) ELSE inbox[r]]
            BY <1>2, RequestInbox
        <3>2. \A r \in Readers : Append(inbox[r], c) \in Seq(Queries) /\ inbox[r] \in Seq(Queries)
            OBVIOUS
        <3>. QED BY <3>1, <3>2
    <2>2. asked' \in [Calls -> SUBSET table] /\ table' = table
        BY <1>2 DEF Request, Calls
    <2>3. client' \in [Queries -> ClientStates]
        BY <1>2 DEF Request, ClientStates
    <2>. QED BY <1>2, <2>1, <2>2, <2>3
            DEF Request, readerVars, jobVars, httpVars, countVars, errorVars
<1>3. ASSUME NEW c \in Queries, ClientReceives(c) \/ ClientExpires(c) PROVE Typed'
    BY <1>3 DEF ClientReceives, ClientExpires, ClientStates, readerVars, jobVars, httpVars,
                clientVars, countVars, errorVars
<1>4. ASSUME NEW r \in Readers, TakeMessage(r) PROVE Typed'
    <2>1. Head(inbox[r]) \in Queries /\ Tail(inbox[r]) \in Seq(Queries)
        BY <1>4 DEF TakeMessage
    <2>. QED BY <1>4, <2>1 DEF TakeMessage, readerVars, httpVars, clientVars, errorVars
<1>5. ASSUME NEW r \in Readers, HandleIgnore(r) \/ HandleRun(r) PROVE Typed'
    BY <1>5 DEF HandleIgnore, HandleRun, AtWork, readerVars, httpVars, clientVars
<1>6. ASSUME NEW r \in Readers, HandleReply(r) PROVE Typed'
    <2>1. current[r] \in Queries
        BY <1>6 DEF HandleReply, AtWork
    <2>2. published' \in [Readers -> [Queries -> Nat]]
        BY <1>6, <2>1 DEF HandleReply
    <2>. QED BY <1>6, <2>1, <2>2
            DEF HandleReply, AtWork, readerVars, httpVars, clientVars
<1>7. ASSUME NEW r \in Readers, Stop(r) \/ Restart(r) PROVE Typed'
    <2>1. phase' \in [Readers -> Phases]
        BY <1>7 DEF Stop, Restart, Phases
    <2>2. stops' = stops \/ stops' = [stops EXCEPT ![r] = stops[r] + 1]
        BY <1>7 DEF Stop, Restart
    <2>3. stops' \in [Readers -> Nat]
        <3>1. stops \in [Readers -> Nat]
            OBVIOUS
        <3>2. [stops EXCEPT ![r] = stops[r] + 1] \in [Readers -> Nat]
            BY <3>1, Counts
        <3>. QED BY <2>2, <3>1, <3>2
    <2>. QED BY <1>7, <2>1, <2>3
            DEF Stop, Restart, jobVars, httpVars, clientVars, countVars, errorVars
<1>8. ASSUME NEW r \in Readers, Exit(r) PROVE Typed'
    BY <1>8 DEF Exit, Phases, clientVars, countVars, errorVars
<1>9. ASSUME NEW g \in Gets, GetEvents(g) PROVE Typed'
    BY <1>9 DEF GetEvents, readerVars, jobVars, clientVars, countVars
<1>10. ASSUME NEW g \in Gets, NEW r \in Readers, Get(g, r) PROVE Typed'
    BY <1>10 DEF Get, Calls, readerVars, jobVars, clientVars, countVars, errorVars
<1>11. CASE UNCHANGED vars
    BY <1>11 DEF vars, readerVars, jobVars, httpVars, clientVars, countVars, errorVars
<1>. QED BY <1>1, <1>2, <1>3, <1>4, <1>5, <1>6, <1>7, <1>8, <1>9, <1>10, <1>11
        DEF Next, Callback, Idle

-----------------------------------------------------------------------------
(* Every step preserves that a query comes once and is answered once.      *)

\* Most steps leave the replicas' messages alone.
LEMMA OnceStays ==
    ASSUME Typed, Once, UNCHANGED <<inbox, current, handled, published>>,
           \A c \in Queries : client[c] # "idle" => client'[c] # "idle",
           replies' \subseteq replies
    PROVE  Once'
    BY DEF Once, Waits, Typed

LEMMA OneReplyStays ==
    ASSUME OneReplyEach, UNCHANGED <<current, handled, published>>,
           \A r \in Readers : stops'[r] = 0 => stops[r] = 0
    PROVE  OneReplyEach'
    BY DEF OneReplyEach

LEMMA UpStep == ASSUME Typed, Up, [Next]_vars PROVE Up'
<1>1. ASSUME NEW r \in Readers, Stop(r) PROVE Up'
    <2>1. stops[r] \in Nat /\ stops[r] + 1 # 0
        BY DEF Typed
    <2>. QED BY <1>1, <2>1 DEF Up, Typed, Stop
<1>2. ASSUME NEW r \in Readers, Exit(r) \/ Restart(r) PROVE Up'
    BY <1>2 DEF Up, Typed, Exit, Restart
<1>3. CASE UNCHANGED <<phase, stops>>
    BY <1>3 DEF Up
<1>4. ASSUME NEW r \in Readers, Callback(r) PROVE UNCHANGED <<phase, stops>>
    BY <1>4 DEF Callback, TakeMessage, HandleIgnore, HandleRun, HandleReply, AtWork, readerVars
<1>5. ASSUME NEW c \in Queries, Request(c) \/ ClientReceives(c) \/ ClientExpires(c)
      PROVE  UNCHANGED <<phase, stops>>
    BY <1>5 DEF Request, ClientReceives, ClientExpires, readerVars
<1>6. ASSUME NEW g \in Gets, GetEvents(g) \/ \E r \in Readers : Get(g, r)
      PROVE  UNCHANGED <<phase, stops>>
    BY <1>6 DEF GetEvents, Get, readerVars
<1>7. ASSUME NEW e \in Events, Store(e) PROVE UNCHANGED <<phase, stops>>
    BY <1>7 DEF Store, readerVars
<1>. QED BY <1>1, <1>2, <1>3, <1>4, <1>5, <1>6, <1>7 DEF Next, Idle, vars, readerVars

\* A query that is sent waits where it has come, once.
LEMMA RequestOnce ==
    ASSUME Typed, Typed', Once, OneReplyEach, NEW c \in Queries, Request(c)
    PROVE  Once' /\ OneReplyEach'
<1>1. PICK got \in SUBSET Readers :
          inbox' = [r \in Readers |-> IF r \in got THEN Append(inbox[r], c) ELSE inbox[r]]
    BY RequestInbox
<1>2. /\ client[c] = "idle" /\ client'[c] # "idle"
      /\ \A d \in Queries : d # c => client'[d] = client[d]
      /\ UNCHANGED <<stops, current, handled, published, replies>>
    BY DEF Request, Typed, readerVars, jobVars, countVars
<1>3. \A r \in Readers : ~Waits(r, c) /\ r \notin handled[c]
    BY <1>2 DEF Once
<1>4. ASSUME NEW r \in Readers
      PROVE  /\ \A i, j \in DOMAIN inbox'[r] : i # j => inbox'[r][i] # inbox'[r][j]
             /\ \A d \in Queries : Waits(r, d)' => Waits(r, d) \/ d = c
    <2>1. CASE r \notin got
        BY <1>1, <2>1 DEF Once, Waits
    <2>2. CASE r \in got
        <3>1. inbox[r] \in Seq(Queries) /\ inbox'[r] = Append(inbox[r], c)
            BY <1>1, <2>2 DEF Typed
        <3>2. /\ DOMAIN inbox[r] = 1..Len(inbox[r]) /\ Len(inbox[r]) \in Nat
              /\ DOMAIN inbox'[r] = 1..(Len(inbox[r]) + 1)
              /\ inbox'[r][Len(inbox[r]) + 1] = c
              /\ \A i \in DOMAIN inbox[r] : inbox'[r][i] = inbox[r][i]
            BY <3>1
        <3>3. \A i \in DOMAIN inbox[r] : inbox[r][i] # c
            BY <1>3 DEF Waits
        <3>4. \A i \in DOMAIN inbox'[r] : i \in DOMAIN inbox[r] \/ i = Len(inbox[r]) + 1
            BY <3>2
        <3>5. \A i, j \in DOMAIN inbox[r] : i # j => inbox[r][i] # inbox[r][j]
            BY DEF Once
        <3>. QED BY <3>2, <3>3, <3>4, <3>5 DEF Waits
    <2>. QED BY <2>1, <2>2
<1>5. Once'
    <2>1. \A d \in Queries : client[d] # "idle" => client'[d] # "idle"
        BY <1>2
    <2>2. \A m \in replies' : client'[m.query] # "idle"
        BY <1>2, <2>1 DEF Once, Typed
    <2>3. ASSUME NEW r \in Readers, NEW d \in Queries
          PROVE  /\ Waits(r, d)' => r \notin handled'[d] /\ client'[d] # "idle"
                 /\ r \in handled'[d] => client'[d] # "idle"
                 /\ r \notin handled'[d] => current'[r] # d /\ published'[r][d] = 0
        <3>1. Waits(r, d)' => Waits(r, d) \/ d = c
            BY <1>4
        <3>. QED BY <1>2, <1>3, <2>1, <3>1 DEF Once
    <2>4. \A r \in Readers :
             \A i, j \in DOMAIN inbox'[r] : i # j => inbox'[r][i] # inbox'[r][j]
        BY <1>4
    <2>. QED BY <2>2, <2>3, <2>4 DEF Once
<1>6. OneReplyEach'
    BY <1>2, OneReplyStays
<1>. QED BY <1>5, <1>6

\* The callback takes the oldest message: it does not wait any more.
LEMMA TakeOnce ==
    ASSUME Typed, Typed', Once, OneReplyEach, NEW r \in Readers, TakeMessage(r)
    PROVE  Once' /\ OneReplyEach'
<1>. DEFINE c == Head(inbox[r])
            s == inbox[r]
<1>1. /\ s \in Seq(Queries) /\ s # <<>>
      /\ current' = [current EXCEPT ![r] = c]
      /\ handled' = [handled EXCEPT ![c] = handled[c] \cup {r}]
      /\ inbox' = [inbox EXCEPT ![r] = Tail(s)]
      /\ UNCHANGED <<published, client, replies, stops>>
      /\ current[r] = None
    BY DEF TakeMessage, Typed, readerVars, clientVars
<1>2. /\ c \in Queries /\ 1 \in DOMAIN s /\ s[1] = c
      /\ DOMAIN Tail(s) = 1..(Len(s) - 1) /\ Len(s) \in Nat /\ DOMAIN s = 1..Len(s)
      /\ \A i \in DOMAIN Tail(s) : i + 1 \in DOMAIN s /\ i \in Nat /\ Tail(s)[i] = s[i + 1]
    BY <1>1
<1>3. r \notin handled[c] /\ client[c] # "idle" /\ published[r][c] = 0
    BY <1>2 DEF Once, Waits
<1>. DEFINE t == Tail(s)
<1>4. /\ \A d \in Queries : (\E i \in DOMAIN t : t[i] = d) => Waits(r, d) /\ d # c
      /\ \A i, j \in DOMAIN t : i # j => t[i] # t[j]
    <2>1. \A i, j \in DOMAIN s : i # j => s[i] # s[j]
        BY DEF Once
    <2>2. \A i \in DOMAIN t : t[i] = s[i + 1] /\ i + 1 \in DOMAIN s /\ i \in Nat \ {0}
        BY <1>2
    <2>. HIDE DEF t
    <2>3. \A i, j \in DOMAIN t : i # j => t[i] # t[j]
        BY <2>1, <2>2
    <2>4. ASSUME NEW d \in Queries, NEW i \in DOMAIN t, t[i] = d
          PROVE  Waits(r, d) /\ d # c
        <3>1. i + 1 \in DOMAIN s /\ s[i + 1] = d /\ i + 1 # 1
            BY <2>2, <2>4
        <3>. HIDE DEF c
        <3>2. d # c
            BY <3>1, <2>1, <1>2
        <3>. QED BY <3>1, <3>2 DEF Waits
    <2>. QED BY <2>3, <2>4
<1>. HIDE DEF c, s
<1>5. /\ inbox'[r] = Tail(s) /\ current'[r] = c
      /\ \A q \in Readers : q # r => inbox'[q] = inbox[q] /\ current'[q] = current[q]
      /\ \A q \in Readers, d \in Queries :
            q \in handled'[d] <=> q \in handled[d] \/ (q = r /\ d = c)
    BY <1>1, <1>2 DEF Typed
<1>6. \A q \in Readers, d \in Queries :
         Waits(q, d)' => Waits(q, d) /\ ~(q = r /\ d = c)
    BY <1>4, <1>5 DEF Waits
<1>7. Once'
    BY <1>1, <1>2, <1>3, <1>4, <1>5, <1>6 DEF Once, Typed
<1>8. OneReplyEach'
    <2>. SUFFICES ASSUME NEW q \in Readers, NEW d \in Queries
                  PROVE  /\ published'[q][d] <= 1
                         /\ current'[q] = d => published'[q][d] = 0
                         /\ Ask[d].form = "noreply" => published'[q][d] = 0
                         /\ q \in handled'[d] /\ current'[q] # d /\ stops'[q] = 0
                               /\ Ask[d].form # "noreply" => published'[q][d] = 1
        BY DEF OneReplyEach
    <2>1. current[r] # d
        BY <1>1, QueryAssumption
    <2>. QED BY <1>1, <1>2, <1>3, <1>5, <2>1 DEF OneReplyEach
<1>. QED BY <1>7, <1>8

\* A message without reply subject is done with, and gets no reply.
LEMMA IgnoreOnce ==
    ASSUME Typed, Once, OneReplyEach, NEW r \in Readers, HandleIgnore(r)
    PROVE  Once' /\ OneReplyEach'
<1>1. /\ Ask[current[r]].form = "noreply"
      /\ current' = [current EXCEPT ![r] = None]
      /\ UNCHANGED <<inbox, handled, published, client, replies, stops>>
    BY DEF HandleIgnore, AtWork, readerVars, clientVars
<1>2. /\ \A d \in Queries : current'[r] # d
      /\ \A q \in Readers : q # r => current'[q] = current[q]
    BY <1>1, QueryAssumption DEF Typed
<1>3. Once'
    BY <1>1, <1>2 DEF Once, Waits, Typed
<1>4. OneReplyEach'
    BY <1>1, <1>2 DEF OneReplyEach
<1>. QED BY <1>3, <1>4

\* The one reply is published, and the callback is done with the query.
LEMMA ReplyOnce ==
    ASSUME Typed, Once, OneReplyEach, OnItsWay, NEW r \in Readers, HandleReply(r)
    PROVE  Once' /\ OneReplyEach'
<1>. DEFINE c == current[r]
<1>1. /\ c \in Queries /\ outcome[r].kind # None
      /\ replies' = replies \cup {[query |-> c, reply |-> outcome[r]]}
      /\ published' = [published EXCEPT ![r][c] = published[r][c] + 1]
      /\ current' = [current EXCEPT ![r] = None]
      /\ UNCHANGED <<inbox, handled, client, stops>>
    BY DEF HandleReply, AtWork, Typed, NextOutcome, Refusal, readerVars, clientVars
<1>2. Ask[c].form # "noreply" /\ r \in handled[c] /\ published[r][c] = 0 /\ client[c] # "idle"
    BY <1>1 DEF OnItsWay, Once, OneReplyEach
<1>. HIDE DEF c
<1>3. /\ \A d \in Queries : current'[r] # d
      /\ \A q \in Readers : q # r => current'[q] = current[q]
    BY <1>1, QueryAssumption DEF Typed
<1>4. \A q \in Readers, d \in Queries :
         published'[q][d] = IF q = r /\ d = c THEN 1 ELSE published[q][d]
    BY <1>1, <1>2 DEF Typed
<1>5. Once'
    <2>1. \A m \in replies' : client'[m.query] # "idle"
        BY <1>1, <1>2 DEF Once
    <2>2. ASSUME NEW q \in Readers, NEW d \in Queries, q \notin handled'[d]
          PROVE  current'[q] # d /\ published'[q][d] = 0
        BY <1>1, <1>2, <1>3, <1>4, <2>2 DEF Once
    <2>. QED BY <1>1, <2>1, <2>2 DEF Once, Waits
<1>6. OneReplyEach'
    <2>. SUFFICES ASSUME NEW q \in Readers, NEW d \in Queries
                  PROVE  /\ published'[q][d] <= 1
                         /\ current'[q] = d => published'[q][d] = 0
                         /\ Ask[d].form = "noreply" => published'[q][d] = 0
                         /\ q \in handled'[d] /\ current'[q] # d /\ stops'[q] = 0
                               /\ Ask[d].form # "noreply" => published'[q][d] = 1
        BY DEF OneReplyEach
    <2>1. current[r] = d <=> d = c
        BY DEF c
    <2>. QED BY <1>1, <1>2, <1>3, <1>4, <2>1 DEF OneReplyEach
<1>. QED BY <1>5, <1>6

\* What a Reader that was stopped leaves unanswered, it does not owe any more.
LEMMA ExitOnce ==
    ASSUME Typed, Once, OneReplyEach, Up, NEW r \in Readers, Exit(r)
    PROVE  Once' /\ OneReplyEach'
<1>1. /\ stops[r] # 0
      /\ inbox' = [inbox EXCEPT ![r] = <<>>]
      /\ current' = [current EXCEPT ![r] = None]
      /\ UNCHANGED <<handled, published, client, replies, stops>>
    BY DEF Exit, Up, clientVars, countVars
<1>2. /\ \A d \in Queries : current'[r] # d /\ ~Waits(r, d)'
      /\ \A q \in Readers : q # r => current'[q] = current[q] /\ inbox'[q] = inbox[q]
      /\ inbox'[r] = <<>>
    BY <1>1, QueryAssumption DEF Typed, Waits
<1>3. \A q \in Readers, d \in Queries : Waits(q, d)' => Waits(q, d)
    BY <1>2 DEF Waits
<1>4. Once'
    BY <1>1, <1>2, <1>3 DEF Once, Typed
<1>5. OneReplyEach'
    BY <1>1, <1>2 DEF OneReplyEach
<1>. QED BY <1>4, <1>5

LEMMA HandlingStep ==
    ASSUME Typed, Typed', Once, OneReplyEach, Up, OnItsWay, [Next]_vars
    PROVE  Once' /\ OneReplyEach'
<1>1. ASSUME UNCHANGED <<inbox, current, handled, published>>,
             \A c \in Queries : client[c] # "idle" => client'[c] # "idle",
             replies' \subseteq replies,
             \A r \in Readers : stops'[r] = 0 => stops[r] = 0
      PROVE  Once' /\ OneReplyEach'
    BY <1>1, OnceStays, OneReplyStays
<1>2. ASSUME NEW e \in Events, Store(e) PROVE Once' /\ OneReplyEach'
    BY <1>1, <1>2 DEF Store, readerVars, jobVars, clientVars, countVars
<1>3. ASSUME NEW c \in Queries, Request(c) PROVE Once' /\ OneReplyEach'
    BY <1>3, RequestOnce
<1>4. ASSUME NEW c \in Queries, ClientReceives(c) \/ ClientExpires(c)
      PROVE  Once' /\ OneReplyEach'
    <2>1. \A d \in Queries : client[d] # "idle" => client'[d] # "idle"
        BY <1>4 DEF ClientReceives, ClientExpires, Typed
    <2>2. UNCHANGED <<inbox, current, handled, published, stops>> /\ replies' \subseteq replies
        BY <1>4 DEF ClientReceives, ClientExpires, readerVars, jobVars, countVars
    <2>. QED BY <1>1, <2>1, <2>2
<1>5. ASSUME NEW r \in Readers, TakeMessage(r) PROVE Once' /\ OneReplyEach'
    BY <1>5, TakeOnce
<1>6. ASSUME NEW r \in Readers, HandleIgnore(r) PROVE Once' /\ OneReplyEach'
    BY <1>6, IgnoreOnce
<1>7. ASSUME NEW r \in Readers, HandleRun(r) PROVE Once' /\ OneReplyEach'
    BY <1>1, <1>7 DEF HandleRun, AtWork, readerVars, clientVars
<1>8. ASSUME NEW r \in Readers, HandleReply(r) PROVE Once' /\ OneReplyEach'
    BY <1>8, ReplyOnce
<1>9. ASSUME NEW r \in Readers, Stop(r) PROVE Once' /\ OneReplyEach'
    <2>1. \A q \in Readers : stops'[q] = 0 => stops[q] = 0
        <3>1. stops[r] + 1 # 0
            BY DEF Typed
        <3>. QED BY <1>9, <3>1 DEF Stop, Typed
    <2>. QED BY <1>1, <1>9, <2>1 DEF Stop, jobVars, clientVars, countVars
<1>10. ASSUME NEW r \in Readers, Exit(r) PROVE Once' /\ OneReplyEach'
    BY <1>10, ExitOnce
<1>11. ASSUME NEW r \in Readers, Restart(r) PROVE Once' /\ OneReplyEach'
    BY <1>1, <1>11 DEF Restart, jobVars, clientVars, countVars
<1>12. ASSUME NEW g \in Gets, GetEvents(g) \/ \E r \in Readers : Get(g, r)
       PROVE  Once' /\ OneReplyEach'
    BY <1>1, <1>12 DEF GetEvents, Get, readerVars, jobVars, clientVars, countVars
<1>13. CASE UNCHANGED vars
    BY <1>1, <1>13 DEF vars, readerVars, jobVars, clientVars, countVars
<1>. QED BY <1>2, <1>3, <1>4, <1>5, <1>6, <1>7, <1>8, <1>9, <1>10, <1>11, <1>12, <1>13
        DEF Next, Callback, Idle

-----------------------------------------------------------------------------
(* Every step preserves that what is on its way, or received, is good.     *)

\* The table and the errors only grow, and what was sent was sent: what is on
\* its way stays good.
LEMMA WayStays ==
    ASSUME Typed, Once, OnItsWay,
           table \subseteq table', erred \subseteq erred', swallowed \subseteq swallowed',
           UNCHANGED <<current, outcome>>, replies' \subseteq replies,
           \A c \in Queries : client[c] # "idle" => asked'[c] = asked[c]
    PROVE  OnItsWay'
<1>1. ASSUME NEW r \in Readers, current[r] # None, Ask[current[r]].form # "noreply",
             outcome[r].kind # None
      PROVE  Good(current[r], outcome[r], table', asked'[current[r]], erred', swallowed')
    <2>1. current[r] \in Queries
        BY <1>1 DEF Typed
    <2>2. asked'[current[r]] = asked[current[r]]
        BY <2>1 DEF Once
    <2>3. Good(current[r], outcome[r], table, asked[current[r]], erred, swallowed)
        BY <1>1 DEF OnItsWay
    <2>. QED BY <2>2, <2>3, GoodStays
<1>2. ASSUME NEW m \in replies'
      PROVE  Good(m.query, m.reply, table', asked'[m.query], erred', swallowed')
    <2>1. asked'[m.query] = asked[m.query]
        BY DEF Once, Typed
    <2>2. Good(m.query, m.reply, table, asked[m.query], erred, swallowed)
        BY DEF OnItsWay
    <2>. QED BY <2>1, <2>2, GoodStays
<1>. QED BY <1>1, <1>2 DEF OnItsWay

\* And so does what was received.
LEMMA ReceivedStays ==
    ASSUME Received, table \subseteq table',
           erred \subseteq erred', swallowed \subseteq swallowed'
    PROVE  /\ \A c \in Queries :
                 /\ client[c] = "displayed" /\ client'[c] = client[c]
                 /\ response'[c] = response[c] /\ asked'[c] = asked[c]
                 => \/ RowsOf(c, response'[c].events, response'[c].total, table', asked'[c])
                    \/ response'[c] = NoResponse /\ (c \in erred' \/ ~ParamsOk(Ask[c]))
           /\ \A g \in Gets :
                 answer[g].code # 0 /\ answer'[g] = answer[g] /\ asked'[g] = asked[g]
                 => \E kind \in {"result", "invalid", "internal"} :
                       /\ answer'[g].code = StatusOf([kind |-> kind])
                       /\ Good(g, [kind |-> kind, rows |-> answer'[g].rows,
                                   total |-> answer'[g].total],
                               table', asked'[g], erred', swallowed')
<1>1. ASSUME NEW c \in Queries, client[c] = "displayed",
             response'[c] = response[c], asked'[c] = asked[c]
      PROVE  \/ RowsOf(c, response'[c].events, response'[c].total, table', asked'[c])
             \/ response'[c] = NoResponse /\ (c \in erred' \/ ~ParamsOk(Ask[c]))
    <2>1. CASE RowsOf(c, response[c].events, response[c].total, table, asked[c])
        BY <1>1, <2>1, RowsStay
    <2>2. CASE response[c] = NoResponse /\ (c \in erred \/ ~ParamsOk(Ask[c]))
        BY <1>1, <2>2
    <2>. QED BY <1>1, <2>1, <2>2 DEF Received
<1>2. ASSUME NEW g \in Gets, answer[g].code # 0, answer'[g] = answer[g], asked'[g] = asked[g]
      PROVE  \E kind \in {"result", "invalid", "internal"} :
                /\ answer'[g].code = StatusOf([kind |-> kind])
                /\ Good(g, [kind |-> kind, rows |-> answer'[g].rows,
                            total |-> answer'[g].total], table', asked'[g], erred', swallowed')
    <2>1. PICK kind \in {"result", "invalid", "internal"} :
             /\ answer[g].code = StatusOf([kind |-> kind])
             /\ Good(g, [kind |-> kind, rows |-> answer[g].rows, total |-> answer[g].total],
                     table, asked[g], erred, swallowed)
        BY <1>2 DEF Received
    <2>2. Good(g, [kind |-> kind, rows |-> answer[g].rows, total |-> answer[g].total],
               table', asked[g], erred', swallowed')
        BY <2>1, GoodStays
    <2>. WITNESS kind \in {"result", "invalid", "internal"}
    <2>. QED BY <1>2, <2>1, <2>2
<1>. QED BY <1>1, <1>2

\* The callers that receive nothing in a step have what they had.
LEMMA NobodyReceives ==
    ASSUME Received, table \subseteq table',
           erred \subseteq erred', swallowed \subseteq swallowed',
           \A c \in Queries : client'[c] = "displayed" =>
              client[c] = "displayed" /\ response'[c] = response[c] /\ asked'[c] = asked[c],
           \A g \in Gets : answer'[g].code # 0 =>
              answer'[g] = answer[g] /\ asked'[g] = asked[g]
    PROVE  Received'
<1>1. ASSUME NEW c \in Queries, client'[c] = "displayed"
      PROVE  \/ RowsOf(c, response'[c].events, response'[c].total, table', asked'[c])
             \/ response'[c] = NoResponse /\ (c \in erred' \/ ~ParamsOk(Ask[c]))
    BY <1>1, ReceivedStays
<1>2. ASSUME NEW g \in Gets, answer'[g].code # 0
      PROVE  \E kind \in {"result", "invalid", "internal"} :
                /\ answer'[g].code = StatusOf([kind |-> kind])
                /\ Good(g, [kind |-> kind, rows |-> answer'[g].rows,
                            total |-> answer'[g].total], table', asked'[g], erred', swallowed')
    BY <1>2, ReceivedStays
<1>. QED BY <1>1, <1>2 DEF Received

\* The first reply is decoded: an error envelope has no rows, and there was an
\* error, or the parameters were invalid.
LEMMA ReceiveGood ==
    ASSUME Typed, Once, OnItsWay, Received, NEW c \in Queries, ClientReceives(c)
    PROVE  OnItsWay' /\ Received'
<1>1. PICK m \in replies :
         /\ m.query = c
         /\ replies' = replies \ {m}
         /\ response' = [response EXCEPT ![c] = Decode(m.reply)]
    BY DEF ClientReceives
<1>2. /\ client[c] # "displayed"
      /\ client' = [client EXCEPT ![c] = "displayed"]
      /\ UNCHANGED <<table, asked, current, outcome, answer, erred, swallowed>>
    BY DEF ClientReceives, readerVars, jobVars, httpVars, countVars, errorVars
<1>3. OnItsWay'
    BY <1>1, <1>2, WayStays
<1>4. Good(c, m.reply, table, asked[c], erred, swallowed)
    BY <1>1 DEF OnItsWay
<1>5. response'[c] = Decode(m.reply)
    BY <1>1 DEF Typed
<1>6. \/ RowsOf(c, response'[c].events, response'[c].total, table', asked'[c])
      \/ response'[c] = NoResponse /\ (c \in erred' \/ ~ParamsOk(Ask[c]))
    <2>1. CASE m.reply.kind = "result"
        <3>1. response'[c] = [events |-> m.reply.rows, total |-> m.reply.total]
            BY <1>5, <2>1 DEF Decode
        <3>2. CASE RowsOf(c, m.reply.rows, m.reply.total, table, asked[c])
            BY <1>2, <3>1, <3>2
        <3>3. CASE m.reply.rows = <<>> /\ m.reply.total = 0 /\ c \in erred \cap swallowed
            BY <1>2, <3>1, <3>3 DEF NoResponse
        <3>. QED BY <1>4, <2>1, <3>2, <3>3 DEF Good
    <2>2. CASE m.reply.kind # "result"
        BY <1>2, <1>4, <1>5, <2>2 DEF Good, Decode, NoResponse
    <2>. QED BY <2>1, <2>2
<1>7. ASSUME NEW d \in Queries, client'[d] = "displayed"
      PROVE  \/ RowsOf(d, response'[d].events, response'[d].total, table', asked'[d])
             \/ response'[d] = NoResponse /\ (d \in erred' \/ ~ParamsOk(Ask[d]))
    <2>1. CASE d = c
        BY <1>6, <2>1
    <2>2. CASE d # c
        BY <1>1, <1>2, <1>7, <2>2, ReceivedStays DEF Typed
    <2>. QED BY <2>1, <2>2
<1>8. Received'
    BY <1>2, <1>7, ReceivedStays DEF Received
<1>. QED BY <1>3, <1>8

\* The query is run, and what is going to be replied is good.
LEMMA RunGood ==
    ASSUME Typed, Once, OnItsWay, Received, NEW r \in Readers, HandleRun(r)
    PROVE  OnItsWay' /\ Received'
<1>. DEFINE c == current[r]
<1>1. /\ c \in Queries /\ c \in Calls
      /\ Ask[c].form # "noreply"
      /\ UNCHANGED <<table, current, client, response, answer, asked, replies>>
    BY DEF HandleRun, AtWork, Typed, Calls, httpVars, clientVars
<1>2. PICK res \in Outcomes(c) :
         /\ HandleQuery(c, phase[r] = "stopping", res)
         /\ outcome' = [outcome EXCEPT ![r] = res]
    BY DEF HandleRun
<1>3. /\ Good(c, res, table, asked[c], erred', swallowed')
      /\ erred \subseteq erred' /\ swallowed \subseteq swallowed'
    <2>1. asked[c] \subseteq table /\ table \subseteq Events /\ IsFiniteSet(table)
        BY <1>1 DEF Typed
    <2>. DEFINE cancelled == phase[r] = "stopping"
    <2>2. cancelled \in BOOLEAN /\ HandleQuery(c, cancelled, res)
        BY <1>2
    <2>. HIDE DEF cancelled
    <2>. QED BY <1>1, <2>1, <2>2, QueryIsGood
<1>4. /\ outcome'[r] = res
      /\ \A q \in Readers : q # r => outcome'[q] = outcome[q]
    BY <1>2 DEF Typed
<1>5. ASSUME NEW q \in Readers, current[q] # None, Ask[current[q]].form # "noreply",
             outcome'[q].kind # None
      PROVE  Good(current[q], outcome'[q], table, asked[current[q]], erred', swallowed')
    <2>1. CASE q = r
        BY <1>3, <1>4, <2>1
    <2>2. CASE q # r
        <3>1. Good(current[q], outcome[q], table, asked[current[q]], erred, swallowed)
            BY <1>4, <1>5, <2>2 DEF OnItsWay
        <3>. QED BY <1>3, <1>4, <2>2, <3>1, GoodStays
    <2>. QED BY <2>1, <2>2
<1>6. ASSUME NEW q \in Readers, current[q] = None \/ Ask[current[q]].form = "noreply"
      PROVE  outcome'[q].kind = None
    <2>1. q # r
        BY <1>1, <1>6, QueryAssumption
    <2>. QED BY <1>4, <1>6, <2>1 DEF OnItsWay
<1>7. ASSUME NEW m \in replies
      PROVE  Good(m.query, m.reply, table, asked[m.query], erred', swallowed')
    BY <1>3, GoodStays DEF OnItsWay
<1>. HIDE DEF c
<1>8. OnItsWay'
    BY <1>1, <1>5, <1>6, <1>7 DEF OnItsWay
<1>9. Received'
    BY <1>1, <1>3, NobodyReceives
<1>. QED BY <1>8, <1>9

\* What was good as an outcome is good as a reply.
LEMMA ReplyGood ==
    ASSUME Typed, Once, OnItsWay, Received, NEW r \in Readers, HandleReply(r)
    PROVE  OnItsWay' /\ Received'
<1>. DEFINE c == current[r]
<1>1. /\ outcome[r].kind # None
      /\ replies' = replies \cup {[query |-> c, reply |-> outcome[r]]}
      /\ outcome' = [outcome EXCEPT ![r] = Refusal(None)]
      /\ current' = [current EXCEPT ![r] = None]
      /\ UNCHANGED <<table, client, response, answer, asked, erred, swallowed>>
    BY DEF HandleReply, AtWork, NextOutcome, Refusal, httpVars, clientVars, errorVars
<1>2. Good(c, outcome[r], table, asked[c], erred, swallowed)
    BY <1>1 DEF OnItsWay
<1>. HIDE DEF c
<1>3. /\ current'[r] = None /\ outcome'[r].kind = None
      /\ \A q \in Readers : q # r => outcome'[q] = outcome[q] /\ current'[q] = current[q]
    BY <1>1 DEF Typed, Refusal
<1>4. ASSUME NEW q \in Readers
      PROVE  IF current'[q] = None \/ Ask[current'[q]].form = "noreply"
             THEN outcome'[q].kind = None
             ELSE outcome'[q].kind # None =>
                     Good(current'[q], outcome'[q], table', asked'[current'[q]], erred', swallowed')
    BY <1>1, <1>3 DEF OnItsWay
<1>5. ASSUME NEW m \in replies'
      PROVE  Good(m.query, m.reply, table', asked'[m.query], erred', swallowed')
    <2>1. CASE m \in replies
        BY <1>1, <2>1 DEF OnItsWay
    <2>2. CASE m = [query |-> c, reply |-> outcome[r]]
        BY <1>1, <1>2, <2>2
    <2>. QED BY <1>1, <2>1, <2>2
<1>6. OnItsWay'
    BY <1>4, <1>5 DEF OnItsWay
<1>7. Received'
    BY <1>1, NobodyReceives
<1>. QED BY <1>6, <1>7

\* A Reader that goes down takes along what it was at work on, no more.
LEMMA ExitGood ==
    ASSUME Typed, Once, OnItsWay, Received, NEW r \in Readers, Exit(r)
    PROVE  OnItsWay' /\ Received'
<1>1. /\ outcome' = [outcome EXCEPT ![r] = Refusal(None)]
      /\ current' = [current EXCEPT ![r] = None]
      /\ UNCHANGED <<table, replies, client, response, answer, asked, erred, swallowed>>
    BY DEF Exit, clientVars, errorVars
<1>2. /\ current'[r] = None /\ outcome'[r].kind = None
      /\ \A q \in Readers : q # r => outcome'[q] = outcome[q] /\ current'[q] = current[q]
    BY <1>1 DEF Typed, Refusal
<1>3. ASSUME NEW q \in Readers
      PROVE  IF current'[q] = None \/ Ask[current'[q]].form = "noreply"
             THEN outcome'[q].kind = None
             ELSE outcome'[q].kind # None =>
                     Good(current'[q], outcome'[q], table', asked'[current'[q]], erred', swallowed')
    BY <1>1, <1>2 DEF OnItsWay
<1>4. OnItsWay'
    BY <1>1, <1>3 DEF OnItsWay
<1>5. Received'
    BY <1>1, NobodyReceives
<1>. QED BY <1>4, <1>5

\* The callback begins, or is done with, a message for which nothing is
\* computed.
LEMMA TurnGood ==
    ASSUME Typed, Once, OnItsWay, Received, NEW r \in Readers,
           TakeMessage(r) \/ HandleIgnore(r)
    PROVE  OnItsWay' /\ Received'
<1>1. /\ outcome[r].kind = None
      /\ UNCHANGED <<table, outcome, replies, client, response, answer, asked, erred, swallowed>>
      /\ \A q \in Readers : q # r => current'[q] = current[q]
    BY DEF TakeMessage, HandleIgnore, AtWork, OnItsWay, Typed, httpVars, clientVars, errorVars
<1>2. OnItsWay'
    <2>1. ASSUME NEW q \in Readers
          PROVE  IF current'[q] = None \/ Ask[current'[q]].form = "noreply"
                 THEN outcome'[q].kind = None
                 ELSE outcome'[q].kind # None =>
                         Good(current'[q], outcome'[q], table', asked'[current'[q]],
                              erred', swallowed')
        BY <1>1 DEF OnItsWay
    <2>. QED BY <1>1, <2>1 DEF OnItsWay
<1>3. Received'
    BY <1>1, NobodyReceives
<1>. QED BY <1>2, <1>3

\* A GET is answered.
LEMMA GetEventsGood ==
    ASSUME Typed, Once, OnItsWay, Received, NEW g \in Gets, GetEvents(g)
    PROVE  OnItsWay' /\ Received'
<1>1. /\ answer[g].code = 0
      /\ UNCHANGED <<table, current, outcome, replies, client, response, asked>>
    BY DEF GetEvents, jobVars, clientVars
<1>2. PICK res \in Outcomes(g) :
         /\ HandleQuery(g, FALSE, res)
         /\ answer' = [answer EXCEPT ![g] =
                          [code |-> StatusOf(res), rows |-> res.rows, total |-> res.total]]
    BY DEF GetEvents
<1>3. /\ Good(g, res, table, asked[g], erred', swallowed')
      /\ erred \subseteq erred' /\ swallowed \subseteq swallowed'
    <2>1. /\ g \in Calls /\ asked[g] \subseteq table
          /\ table \subseteq Events /\ IsFiniteSet(table)
        BY DEF Typed, Calls
    <2>. QED BY <1>2, <2>1, QueryIsGood
<1>4. OnItsWay'
    BY <1>1, <1>3, WayStays
<1>5. \E kind \in {"result", "invalid", "internal"} :
         /\ answer'[g].code = StatusOf([kind |-> kind])
         /\ Good(g, [kind |-> kind, rows |-> answer'[g].rows, total |-> answer'[g].total],
                 table', asked'[g], erred', swallowed')
    <2>1. answer'[g] = [code |-> StatusOf(res), rows |-> res.rows, total |-> res.total]
        BY <1>2 DEF Typed
    <2>2. res.kind \in {"result", "invalid", "internal"}
        BY <1>3 DEF Good
    <2>3. StatusOf(res) = StatusOf([kind |-> res.kind])
        BY <2>2 DEF StatusOf
    <2>4. Good(g, [kind |-> res.kind, rows |-> res.rows, total |-> res.total],
               table, asked[g], erred', swallowed')
        BY <1>3 DEF Good
    <2>5. Good(g, [kind |-> res.kind, rows |-> answer'[g].rows, total |-> answer'[g].total],
               table', asked'[g], erred', swallowed')
        BY <1>1, <2>1, <2>4
    <2>. WITNESS res.kind \in {"result", "invalid", "internal"}
    <2>. QED BY <2>1, <2>3, <2>5
<1>6. \A h \in Gets : h # g => answer'[h] = answer[h]
    BY <1>2 DEF Typed
<1>7. ASSUME NEW h \in Gets, answer'[h].code # 0
      PROVE  \E kind \in {"result", "invalid", "internal"} :
                /\ answer'[h].code = StatusOf([kind |-> kind])
                /\ Good(h, [kind |-> kind, rows |-> answer'[h].rows,
                            total |-> answer'[h].total], table', asked'[h], erred', swallowed')
    <2>1. CASE h = g
        BY <1>5, <2>1
    <2>2. CASE h # g
        BY <1>1, <1>3, <1>6, <1>7, <2>2, ReceivedStays
    <2>. QED BY <2>1, <2>2
<1>8. ASSUME NEW c \in Queries, client'[c] = "displayed"
      PROVE  \/ RowsOf(c, response'[c].events, response'[c].total, table', asked'[c])
             \/ response'[c] = NoResponse /\ (c \in erred' \/ ~ParamsOk(Ask[c]))
    BY <1>1, <1>3, <1>8, ReceivedStays
<1>9. Received'
    BY <1>7, <1>8 DEF Received
<1>. QED BY <1>4, <1>9

LEMMA GoodStep ==
    ASSUME Typed, Once, OnItsWay, Received, [Next]_vars
    PROVE  OnItsWay' /\ Received'
<1>1. ASSUME UNCHANGED <<current, outcome, response, answer, erred, swallowed>>,
             table \subseteq table', replies' \subseteq replies,
             \A c \in Queries : client'[c] = "displayed" => client[c] = "displayed",
             \A c \in Queries : client[c] # "idle" \/ client'[c] = "displayed"
                                   => asked'[c] = asked[c],
             \A g \in Gets : answer[g].code # 0 => asked'[g] = asked[g]
      PROVE  OnItsWay' /\ Received'
    <2>1. OnItsWay'
        BY <1>1, WayStays
    <2>2. Received'
        BY <1>1, NobodyReceives
    <2>. QED BY <2>1, <2>2
<1>2. ASSUME NEW e \in Events, Store(e) PROVE OnItsWay' /\ Received'
    BY <1>1, <1>2 DEF Store, jobVars, httpVars, clientVars, errorVars
<1>3. ASSUME NEW c \in Queries, Request(c) PROVE OnItsWay' /\ Received'
    <2>1. /\ client[c] = "idle" /\ client'[c] # "displayed"
          /\ asked' = [asked EXCEPT ![c] = table]
          /\ \A d \in Queries : d # c => client'[d] = client[d]
          /\ UNCHANGED <<table, current, outcome, response, answer, erred, swallowed, replies>>
        BY <1>3 DEF Request, Typed, jobVars, httpVars, errorVars
    <2>2. \A d \in Calls : d # c => asked'[d] = asked[d]
        BY <2>1 DEF Typed
    <2>3. \A g \in Gets : g # c /\ g \in Calls
        BY QueryAssumption DEF Calls
    <2>4. Queries \subseteq Calls
        BY DEF Calls
    <2>. QED BY <1>1, <2>1, <2>2, <2>3, <2>4
<1>4. ASSUME NEW c \in Queries, ClientReceives(c) PROVE OnItsWay' /\ Received'
    BY <1>4, ReceiveGood
<1>5. ASSUME NEW c \in Queries, ClientExpires(c) PROVE OnItsWay' /\ Received'
    <2>1. \A d \in Queries : client'[d] = "displayed" => client[d] = "displayed"
        BY <1>5 DEF ClientExpires, Typed
    <2>. QED BY <1>1, <1>5, <2>1 DEF ClientExpires, jobVars, httpVars, errorVars
<1>6. ASSUME NEW r \in Readers, TakeMessage(r) \/ HandleIgnore(r)
      PROVE  OnItsWay' /\ Received'
    BY <1>6, TurnGood
<1>7. ASSUME NEW r \in Readers, HandleRun(r) PROVE OnItsWay' /\ Received'
    BY <1>7, RunGood
<1>8. ASSUME NEW r \in Readers, HandleReply(r) PROVE OnItsWay' /\ Received'
    BY <1>8, ReplyGood
<1>9. ASSUME NEW r \in Readers, Stop(r) \/ Restart(r) PROVE OnItsWay' /\ Received'
    BY <1>1, <1>9 DEF Stop, Restart, jobVars, httpVars, clientVars, errorVars
<1>10. ASSUME NEW r \in Readers, Exit(r) PROVE OnItsWay' /\ Received'
    BY <1>10, ExitGood
<1>11. ASSUME NEW g \in Gets, GetEvents(g) PROVE OnItsWay' /\ Received'
    BY <1>11, GetEventsGood
<1>12. ASSUME NEW g \in Gets, NEW r \in Readers, Get(g, r) PROVE OnItsWay' /\ Received'
    <2>1. /\ answer[g].code = 0
          /\ asked' = [asked EXCEPT ![g] = table]
          /\ UNCHANGED <<table, current, outcome, client, response, answer, erred, swallowed,
                         replies>>
        BY <1>12 DEF Get, jobVars, clientVars, errorVars
    <2>2. \A d \in Calls : d # g => asked'[d] = asked[d]
        BY <2>1 DEF Typed
    <2>3. \A d \in Queries : d # g /\ d \in Calls
        BY QueryAssumption DEF Calls
    <2>4. Gets \subseteq Calls
        BY DEF Calls
    <2>. QED BY <1>1, <2>1, <2>2, <2>3, <2>4
<1>13. CASE UNCHANGED vars
    BY <1>1, <1>13 DEF vars, jobVars, httpVars, clientVars, errorVars
<1>. QED BY <1>2, <1>3, <1>4, <1>5, <1>6, <1>7, <1>8, <1>9, <1>10, <1>11, <1>12, <1>13
        DEF Next, Callback, Idle

-----------------------------------------------------------------------------

LEMMA NextInv == IInv /\ [Next]_vars => IInv'
    BY TypedStep, UpStep, HandlingStep, GoodStep DEF IInv

\* The invariant of what waits, is computed, is on its way and is received.
THEOREM Invariance == SafeSpec => []IInv
    BY InitInv, NextInv, PTL DEF SafeSpec

\* Each replica publishes one reply to each query that it handles, and owes it
\* no more than a stop excuses (handleMessage of nats_responder.go).
THEOREM AnsweredOnce == SafeSpec => []OneReplyEach
<1>1. IInv => OneReplyEach
    BY DEF IInv
<1>. QED BY <1>1, Invariance, PTL

\* What callers see are the rows they asked for, the newest, each once, and
\* none passed over that was stored when they asked; a Reader's result without
\* such rows has an error behind it that looked like the missing table, and an
\* empty display of the Client any error, or invalid parameters
\* (InfluxDBQuerier.Query, QueryService.HandleQuery and both transports).
THEOREM AnswersRight == SafeSpec => []AnswersAreRight
<1>1. IInv => AnswersAreRight
    <2>. SUFFICES ASSUME IInv PROVE AnswersAreRight
        OBVIOUS
    <2>. USE DEF IInv
    <2>1. ASSUME NEW m \in replies
          PROVE  /\ RightKind(m.query, m.reply.kind)
                 /\ m.reply.kind = "result" =>
                       \/ RightRows(m.query, m.reply.rows, m.reply.total)
                       \/ m.reply.rows = <<>> /\ m.query \in swallowed
        <3>1. Good(m.query, m.reply, table, asked[m.query], erred, swallowed)
            BY DEF OnItsWay
        <3>2. m.query \in Calls
            BY DEF Typed, Calls
        <3>3. RightKind(m.query, m.reply.kind)
            BY <3>1, <3>2, ValidIff DEF Good, RightKind
        <3>. QED BY <3>1, <3>3 DEF Good, RowsOf, RightRows
    <2>2. ASSUME NEW c \in Queries, client[c] = "displayed"
          PROVE  \/ RightRows(c, response[c].events, response[c].total)
                 \/ response[c] = NoResponse /\ (c \in erred \/ ~ParamsOk(Ask[c]))
        BY <2>2 DEF Received, RowsOf, RightRows
    <2>3. ASSUME NEW g \in Gets, answer[g].code # 0
          PROVE  /\ RightKind(g, CASE answer[g].code = 200 -> "result"
                                   [] answer[g].code = 400 -> "invalid"
                                   [] OTHER -> "internal")
                 /\ answer[g].code = 200 =>
                       \/ RightRows(g, answer[g].rows, answer[g].total)
                       \/ answer[g].rows = <<>> /\ g \in swallowed
        <3>1. PICK kind \in {"result", "invalid", "internal"} :
                 /\ answer[g].code = StatusOf([kind |-> kind])
                 /\ Good(g, [kind |-> kind, rows |-> answer[g].rows,
                             total |-> answer[g].total], table, asked[g], erred, swallowed)
            BY <2>3 DEF Received
        <3>2. kind = CASE answer[g].code = 200 -> "result"
                       [] answer[g].code = 400 -> "invalid"
                       [] OTHER -> "internal"
            BY <3>1 DEF StatusOf
        <3>3. g \in Calls
            BY DEF Calls
        <3>4. RightKind(g, kind)
            BY <3>1, <3>3, ValidIff DEF Good, RightKind
        <3>5. answer[g].code = 200 => kind = "result"
            BY <3>2
        <3>6. kind = "result" => \/ RightRows(g, answer[g].rows, answer[g].total)
                                 \/ answer[g].rows = <<>> /\ g \in swallowed
            BY <3>1 DEF Good, RowsOf, RightRows
        <3>. QED BY <3>2, <3>4, <3>5, <3>6
    <2>. QED BY <2>1, <2>2, <2>3 DEF AnswersAreRight
<1>. QED BY <1>1, Invariance, PTL

-----------------------------------------------------------------------------
(* The process of a Reader: the inductive invariant.                       *)

AllReturned == \A n \in P!Goroutines : goroutine[n] = "returned"

\* The group keeps an error if and only if a goroutine returned one.
ErrorKept == groupErr = P!NoError <=> failed = {}

\* Shutdown waits for the group's context.
Cancelled == goroutine["shutdown"] # "starting" => done

\* Shutdown returns nil only when no request is active, and after its begin
\* no request is accepted.
Drained ==
    goroutine["shutdown"] = "returned" /\ "shutdown" \notin failed => P!Active = {}

\* Only the end of the process cuts a request off.
CutAtExit == \A g \in Requests : get[g] = "cut" => exitCode = 1

\* The process ends after its goroutines, with the code of the group's error,
\* and no request is active afterwards.
ExitLast ==
    ~P!Alive => /\ AllReturned /\ P!Active = {}
                /\ exitCode = (IF groupErr = P!NoError THEN 0 ELSE 1)

ProcessInv == P!TypeOK /\ ErrorKept /\ Cancelled /\ Drained /\ CutAtExit /\ ExitLast

-----------------------------------------------------------------------------
(* The invariant is inductive.                                             *)

LEMMA ProcessInit == P!Init => ProcessInv
BY DEF P!Init, ProcessInv, P!TypeOK, ErrorKept, Cancelled, Drained, CutAtExit,
       ExitLast, P!Goroutines, P!States, P!NoError, P!NoCode, P!Alive, P!Active

\* A step of a goroutine of the group that lives; it may only return from
\* Shutdown with nil when no request is active.
LEMMA GroupStep ==
    ASSUME ProcessInv, NEW n \in P!Goroutines, goroutine[n] # "returned",
           UNCHANGED <<signalled, get, conn, readyWith, exitCode>>,
           inShutdown' = (goroutine'["shutdown"] # "starting"),
           \/ P!Run(n)
           \/ P!ReturnErr(n)
           \/ P!ReturnNil(n) /\ (n = "shutdown" => P!Active = {}),
           n = "shutdown" => done
    PROVE  ProcessInv'
<1>1. P!Alive
  BY DEF ProcessInv, ExitLast, AllReturned
<1>2. n # P!NoError
  BY DEF P!Goroutines, P!NoError
<1>3. P!TypeOK'
  BY DEF ProcessInv, P!TypeOK, P!Run, P!ReturnErr, P!ReturnNil, P!States
<1>4. ErrorKept'
  BY <1>2 DEF ProcessInv, ErrorKept, P!Run, P!ReturnErr, P!ReturnNil
<1>5. Drained'
  <2>1. P!Active' = P!Active
    BY DEF P!Active
  <2>2. CASE n = "shutdown"
    BY <2>1, <2>2 DEF ProcessInv, P!TypeOK, P!Run, P!ReturnErr, P!ReturnNil,
                      Drained
  <2>3. CASE n # "shutdown"
    <3>1. goroutine'["shutdown"] = goroutine["shutdown"]
      BY <2>3 DEF ProcessInv, P!TypeOK, P!Run, P!ReturnErr, P!ReturnNil,
                  P!Goroutines
    <3>2. "shutdown" \in failed => "shutdown" \in failed'
      BY DEF P!Run, P!ReturnErr, P!ReturnNil
    <3> QED BY <2>1, <3>1, <3>2 DEF ProcessInv, Drained
  <2> QED BY <2>2, <2>3
<1>6. CutAtExit' /\ ExitLast'
  BY <1>1 DEF ProcessInv, CutAtExit, ExitLast, P!Alive
<1>7. Cancelled'
  BY DEF ProcessInv, P!TypeOK, P!Goroutines, Cancelled, P!Run, P!ReturnErr,
         P!ReturnNil
<1> QED BY <1>3, <1>4, <1>5, <1>6, <1>7 DEF ProcessInv

\* serve and listen leave the server's shutdown alone.
LEMMA ServersInv ==
    ASSUME ProcessInv, P!Serve \/ P!ServeFails \/ P!Listener
    PROVE  ProcessInv'
<1> DEFINE Moves(n) == P!Run(n) \/ P!ReturnErr(n) \/ P!ReturnNil(n)
<1>1. ASSUME NEW n \in {"serve", "listen"}, Moves(n),
             goroutine[n] # "returned",
             UNCHANGED <<signalled, inShutdown, get, conn, readyWith, exitCode>>
      PROVE  ProcessInv'
  <2>1. goroutine'["shutdown"] = goroutine["shutdown"]
    BY <1>1 DEF ProcessInv, P!TypeOK, P!Goroutines, P!Run, P!ReturnErr,
                P!ReturnNil
  <2>2. inShutdown' = (goroutine'["shutdown"] # "starting")
    BY <1>1, <2>1 DEF ProcessInv, P!TypeOK
  <2>3. n \in P!Goroutines /\ n # "shutdown"
    BY DEF P!Goroutines
  <2> QED BY <1>1, <2>2, <2>3, GroupStep
<1>2. CASE P!Serve \/ P!ServeFails
  BY <1>1, <1>2 DEF P!Serve, P!Bind, P!ServeClosed, P!ServeFails
<1>3. CASE P!Listener
  BY <1>1, <1>3 DEF P!Listener, P!Listen, P!ListenReturns
<1> QED BY <1>2, <1>3

LEMMA ShutdownInv == ASSUME ProcessInv, P!Shutdown PROVE ProcessInv'
<1>1. "shutdown" \in P!Goroutines
  BY DEF P!Goroutines
<1>2. CASE P!ShutdownBegins
  <2>1. inShutdown' = (goroutine'["shutdown"] # "starting")
    BY <1>1, <1>2 DEF P!ShutdownBegins, P!Run, ProcessInv, P!TypeOK
  <2> QED BY <1>1, <1>2, <2>1, GroupStep DEF P!ShutdownBegins
<1>3. CASE P!ShutdownDone \/ P!ShutdownExpires
  <2>1. inShutdown' = (goroutine'["shutdown"] # "starting")
    BY <1>1, <1>3 DEF P!ShutdownDone, P!ShutdownExpires, P!ReturnNil,
                      P!ReturnErr, ProcessInv, P!TypeOK
  <2>2. done
    BY <1>3 DEF P!ShutdownDone, P!ShutdownExpires, ProcessInv, Cancelled
  <2> QED BY <1>1, <1>3, <2>1, <2>2, GroupStep DEF P!ShutdownDone, P!ShutdownExpires
<1> QED BY <1>2, <1>3 DEF P!Shutdown

\* Requests come before Shutdown has begun.
LEMMA RequestsInv ==
    ASSUME ProcessInv, NEW g \in Requests, P!Accept(g) \/ P!Answer(g)
    PROVE  ProcessInv'
<1>1. P!Alive
      /\ UNCHANGED <<P!groupVars, signalled, inShutdown, conn, readyWith, exitCode>>
  BY DEF P!Accept, P!Answer, P!Accepting
<1>2. P!TypeOK'
  BY <1>1 DEF ProcessInv, P!TypeOK, P!groupVars, P!Accept, P!Answer
<1>3. Drained'
  <2>1. CASE P!Accept(g)
    <3>1. goroutine["shutdown"] = "starting"
      BY <2>1 DEF P!Accept, P!Accepting, ProcessInv, P!TypeOK
    <3> QED BY <1>1, <3>1 DEF Drained, P!groupVars
  <2>2. CASE P!Answer(g)
    <3>1. P!Active' \subseteq P!Active
      BY <2>2 DEF P!Answer, P!Active, ProcessInv, P!TypeOK
    <3> QED BY <1>1, <3>1 DEF ProcessInv, Drained, P!groupVars
  <2> QED BY <2>1, <2>2
<1>4. CutAtExit'
  BY <1>1 DEF ProcessInv, P!TypeOK, CutAtExit, P!Accept, P!Answer
<1>5. ErrorKept' /\ Cancelled' /\ ExitLast'
  BY <1>1 DEF ProcessInv, ErrorKept, Cancelled, ExitLast, AllReturned, P!Alive,
              P!groupVars
<1> QED BY <1>2, <1>3, <1>4, <1>5 DEF ProcessInv

\* What only touches the context, the connection or the readiness.
LEMMA AroundInv ==
    ASSUME ProcessInv, P!Ready \/ P!Connection \/ P!Signal
    PROVE  ProcessInv'
<1>1. UNCHANGED <<goroutine, groupErr, failed, inShutdown, get, exitCode>>
  BY DEF P!Ready, P!Connection, P!Signal, P!groupVars
<1>2. P!TypeOK'
  BY <1>1 DEF ProcessInv, P!TypeOK, P!Ready, P!Connection, P!Signal,
              P!groupVars
<1>3. Cancelled'
  BY <1>1 DEF ProcessInv, Cancelled, P!Ready, P!Connection, P!Signal, P!groupVars
<1> QED BY <1>1, <1>2, <1>3 DEF ProcessInv, ErrorKept, Drained, CutAtExit, ExitLast,
                                AllReturned, P!Alive, P!Active

\* A clean exit follows a Shutdown that returned nil.
LEMMA WaitReturnsInv == ASSUME ProcessInv, P!WaitReturns PROVE ProcessInv'
<1> USE DEF P!WaitReturns, P!groupVars
<1>1. AllReturned /\ exitCode' = (IF groupErr = P!NoError THEN 0 ELSE 1)
  BY DEF AllReturned
<1>2. P!TypeOK'
  BY <1>1 DEF ProcessInv, P!TypeOK, P!Active
<1>3. P!Active' = {}
  BY DEF P!Active, ProcessInv, P!TypeOK
<1>4. ErrorKept' /\ Cancelled' /\ ExitLast'
  BY <1>1, <1>3 DEF ProcessInv, ErrorKept, Cancelled, ExitLast, AllReturned
<1>5. CutAtExit'
  <2>1. groupErr = P!NoError => P!Active = {}
    BY <1>1 DEF ProcessInv, ErrorKept, Drained, AllReturned, P!Goroutines
  <2>2. \A g \in Requests : get[g] # "cut"
    BY DEF ProcessInv, CutAtExit, P!Alive, P!NoCode
  <2> QED BY <1>1, <2>1, <2>2 DEF CutAtExit, ProcessInv, P!TypeOK
<1> QED BY <1>2, <1>3, <1>4, <1>5 DEF ProcessInv, Drained

LEMMA ProcessNext == ProcessInv /\ [P!Next]_(P!vars) => ProcessInv'
<1> SUFFICES ASSUME ProcessInv, [P!Next]_(P!vars) PROVE ProcessInv'
  OBVIOUS
<1>1. CASE P!Exited \/ UNCHANGED P!vars
  BY <1>1 DEF P!Exited, P!vars, P!groupVars, ProcessInv, P!TypeOK, ErrorKept,
              Cancelled, Drained, CutAtExit, ExitLast, AllReturned, P!Alive, P!Active
<1> QED BY <1>1, ServersInv, ShutdownInv, RequestsInv, AroundInv, WaitReturnsInv
        DEF P!Next

-----------------------------------------------------------------------------
(* Theorems.                                                               *)

\* What holds of a Reader process in every state it reaches.
THEOREM ProcessInvariance == P!Spec => []ProcessInv
<1> QED BY ProcessInit, ProcessNext, PTL DEF P!Spec

\* With exit code 0 no HTTP request was cut off.
THEOREM CleanExit == P!Spec => []CleanExitCutsNothing
<1>1. ASSUME ProcessInv PROVE CleanExitCutsNothing
  <2>1. ASSUME NEW g \in Requests, get[g] = "cut" PROVE exitCode # 0
    <3>1. exitCode = 1
      BY <1>1, <2>1 DEF ProcessInv, CutAtExit
    <3> QED BY <3>1
  <2> QED BY <2>1 DEF CleanExitCutsNothing
<1> QED BY <1>1, ProcessInvariance, PTL

\* The exit code is 1 if and only if a goroutine of the group failed.
THEOREM ExitCodeTells == P!Spec => []ExitCodeIsTrue
<1>1. ProcessInv => ExitCodeIsTrue
  BY DEF ProcessInv, P!TypeOK, ExitLast, ErrorKept, ExitCodeIsTrue, Alive, NoCode,
         P!Alive, P!NoCode
<1> QED BY <1>1, ProcessInvariance, PTL

\* The actions Stop and Exit of QueryPath.
StopsOrExits ==
    \/ PhaseOf = "up" /\ PhaseOf' = "stopping"
    \/ PhaseOf = "stopping" /\ PhaseOf' = "down"

\* A process is down only after its context was done, and no context is
\* renewed (errgroup.WithContext over signal.NotifyContext in run).
LEMMA PhaseStep ==
    ASSUME ProcessInv, [P!Next]_(P!vars)
    PROVE  [StopsOrExits]_PhaseOf
<1> USE DEF Alive, NoCode, P!Alive, P!NoCode
<1>1. CASE P!Signal
  BY <1>1 DEF P!Signal, PhaseOf, StopsOrExits
<1>2. CASE P!WaitReturns
  <2>1. P!Alive /\ done
    BY <1>2 DEF P!WaitReturns, P!Goroutines, ProcessInv, Cancelled
  <2>2. ~P!Alive'
    BY <1>2 DEF P!WaitReturns
  <2> QED BY <2>1, <2>2 DEF PhaseOf, StopsOrExits
<1>3. CASE P!Serve \/ P!ServeFails \/ P!Shutdown \/ P!Listener
  <2>1. exitCode' = exitCode /\ (done => done')
    BY <1>3 DEF P!Serve, P!ServeFails, P!Shutdown, P!Listener, P!Bind, P!ServeClosed,
                P!ShutdownBegins, P!ShutdownDone, P!ShutdownExpires, P!Listen,
                P!ListenReturns, P!Run, P!ReturnNil, P!ReturnErr
  <2> QED BY <2>1 DEF PhaseOf, StopsOrExits
<1>4. CASE \/ \E g \in Requests : P!Accept(g) \/ P!Answer(g)
           \/ P!Ready \/ P!Connection \/ P!Exited \/ UNCHANGED P!vars
  <2>1. UNCHANGED <<exitCode, done>>
    BY <1>4 DEF P!Accept, P!Answer, P!Ready, P!Connection, P!Exited, P!vars, P!groupVars
  <2> QED BY <2>1 DEF PhaseOf
<1> QED BY <1>1, <1>2, <1>3, <1>4 DEF P!Next

\* QueryPath's phases are those of the process: it comes up, stops when the
\* context of the group is done, and then goes down, with no request left that
\* it could still answer.
THEOREM PhasesAreTrue ==
    P!Spec => PhaseOf = "up" /\ [][StopsOrExits]_PhaseOf
                             /\ [](PhaseOf = "down" => Active = {})
<1>1. P!Init => PhaseOf = "up"
  BY DEF P!Init, PhaseOf, Alive, NoCode, P!NoCode
<1>2. ProcessInv => (PhaseOf = "down" => Active = {})
  BY DEF ProcessInv, ExitLast, PhaseOf, Alive, NoCode, P!Alive, P!NoCode, Active,
         P!Active
<1> QED BY <1>1, <1>2, ProcessInvariance, PhaseStep, PTL DEF P!Spec
=============================================================================
