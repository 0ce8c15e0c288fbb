-------------------------- MODULE DeploymentProofs --------------------------
(***************************************************************************)
(* Proofs that what a program has loaded once it runs verifies its peers,  *)
(* for every environment, every change of the files and every restart, and *)
(* that every reply of the Reader's handlers has passed through its guards *)
(* and every redirect leads to one that has.                               *)
(***************************************************************************)
EXTENDS Deployment, TLAPS

\* Where the steps that load or need certificates are in the order of run.
PairAt == CASE program \in {"daemon", "client"} -> 2
            [] program = "writer" -> 3
            [] program = "reader" -> 5

ConnectAt == CASE program \in {"daemon", "client"} -> 4
               [] program = "writer" -> 8
               [] program = "reader" -> 7

\* RunsVerified speaks of the process that has come through all its steps;
\* the invariant says of each step what coming past it means.  Env and
\* program never change while the files do.
Places == program \in Programs /\ at \in Nat

PastPair ==
    at > PairAt /\ (program # "writer" \/ Names(NatsNames)) => "natsCert" \in loaded

PastDatabase == program = "writer" /\ at > 7 => "influxCA" \in loaded

PastConnect == at > ConnectAt => "natsCA" \in loaded

IInv == Places /\ PastPair /\ PastDatabase /\ PastConnect

-----------------------------------------------------------------------------
(* The steps, by their places.                                             *)

\* What is done at each place, program by program.
LEMMA Order ==
    ASSUME Places, NEW step, At(step)
    PROVE  /\ at = PairAt => step = "pair"
           /\ at = ConnectAt => step = "connect"
           /\ program = "writer" /\ at = 7 => step = "database"
           /\ step = "influxStat" => (program = "reader" /\ at = 3) \/ (program = "writer" /\ at = 5)
<1>1. CASE program \in {"daemon", "client"}
    BY <1>1 DEF Places, At, Steps, PairAt, ConnectAt
<1>2. CASE program = "writer"
    BY <1>2 DEF Places, At, Steps, PairAt, ConnectAt
<1>3. CASE program = "reader"
    BY <1>3 DEF Places, At, Steps, PairAt, ConnectAt
<1>4. QED BY <1>1, <1>2, <1>3 DEF Places, Programs, Services

\* A process that runs has come past Connect.
LEMMA Ends ==
    ASSUME Places
    PROVE  /\ Len(Steps[program]) = ConnectAt
           /\ PairAt \in Nat /\ ConnectAt \in Nat
           /\ 0 < PairAt /\ PairAt < ConnectAt
           /\ program = "writer" => ConnectAt = 8
<1>1. CASE program = "daemon"
    BY <1>1 DEF Places, Steps, PairAt, ConnectAt
<1>4. CASE program = "client"
    BY <1>4 DEF Places, Steps, PairAt, ConnectAt
<1>2. CASE program = "writer"
    BY <1>2 DEF Places, Steps, PairAt, ConnectAt
<1>3. CASE program = "reader"
    BY <1>3 DEF Places, Steps, PairAt, ConnectAt
<1>. QED BY <1>1, <1>2, <1>3, <1>4 DEF Places, Programs, Services

-----------------------------------------------------------------------------
(* The invariant is inductive.                                             *)

LEMMA InitInv == Init => IInv
<1>. SUFFICES ASSUME Init PROVE IInv
    OBVIOUS
<1>1. Places
    BY DEF Init, Places
<1>. QED BY <1>1, Ends DEF Init, IInv, PastPair, PastDatabase, PastConnect

\* A process that ends has loaded nothing, and is past nothing.
LEMMA ExitInv == ASSUME IInv, Exit PROVE IInv'
<1>1. Places' /\ at' = 0 /\ PairAt' = PairAt /\ ConnectAt' = ConnectAt
    BY DEF IInv, Places, Exit, world, PairAt, ConnectAt
<1>2. 0 < PairAt /\ 0 < ConnectAt /\ PairAt \in Nat /\ ConnectAt \in Nat
    BY Ends DEF IInv
<1>. QED BY <1>1, <1>2 DEF IInv, PastPair, PastDatabase, PastConnect

\* A step that is passed keeps what was loaded, and comes past its place only.
LEMMA PassInv ==
    ASSUME IInv, NEW certs, Pass(certs),
           at = PairAt => "natsCert" \in certs \/ (program = "writer" /\ ~Names(NatsNames)),
           program = "writer" /\ at = 7 => "influxCA" \in loaded \cup certs,
           at = ConnectAt => "natsCA" \in loaded \cup certs
    PROVE  IInv'
<1>1. /\ Places' /\ at' = at + 1 /\ loaded' = loaded \cup certs
      /\ program' = program /\ env' = env
      /\ PairAt' = PairAt /\ ConnectAt' = ConnectAt
    BY DEF IInv, Places, Pass, world, PairAt, ConnectAt
<1>2. PairAt \in Nat /\ ConnectAt \in Nat /\ at \in Nat
    BY Ends DEF IInv, Places
<1>3. Names(NatsNames)' = Names(NatsNames)
    BY <1>1 DEF Names, NatsNames
<1>4. PastPair'
    BY <1>1, <1>2, <1>3 DEF IInv, PastPair
<1>5. PastDatabase'
    BY <1>1, <1>2 DEF IInv, PastDatabase
<1>6. PastConnect'
    BY <1>1, <1>2 DEF IInv, PastConnect
<1>. QED BY <1>1, <1>4, <1>5, <1>6 DEF IInv

\* A step that leaves the process where it is.
LEMMA StayInv ==
    ASSUME IInv, program' = program, env' = env, at' = at, loaded' = loaded
    PROVE  IInv'
<1>1. Names(NatsNames)' = Names(NatsNames)
    BY DEF Names, NatsNames
<1>. QED BY <1>1 DEF IInv, Places, PastPair, PastDatabase, PastConnect, PairAt, ConnectAt

\* A step of the start at any other place than the three.
LEMMA PlainInv ==
    ASSUME IInv, NEW step, At(step) \/ at = 0, NEW certs, Pass(certs),
           step \notin {"pair", "database", "connect"}
    PROVE  IInv'
<1>1. at # PairAt /\ at # ConnectAt /\ ~(program = "writer" /\ at = 7)
    BY Order, Ends DEF IInv
<1>. QED BY <1>1, PassInv

LEMMA StartStepInv == ASSUME IInv, StartStep PROVE IInv'
<1>1. CASE Start
    <2>1. at = 0 /\ Pass({})
        BY <1>1 DEF Start
    <2>. QED BY <2>1, PlainInv
<1>2. CASE LoadConfig
    BY <1>2, ExitInv, PlainInv DEF LoadConfig
<1>3. CASE Stat
    <2>1. At("stat") /\ (Exit \/ Pass({}))
        BY <1>3 DEF Stat
    <2>. QED BY <2>1, ExitInv, PlainInv
<1>4. CASE LoadPair
    <2>1. At("pair") /\ LoadNamed({"cert", "key"}, "natsCert")
        BY <1>4 DEF LoadPair
    <2>2. at # ConnectAt /\ ~(program = "writer" /\ at = 7)
        BY <2>1, Order, Ends DEF IInv
    <2>3. CASE \E f \in {"cert", "key"} : Name[f] = ""
        <3>1. ~Names(NatsNames)
            <4>1. Name["cert"] = "" \/ Name["key"] = ""
                BY <2>3
            <4>2. Name["cert"] = env.NATS_TLS_CERT /\ Name["key"] = env.NATS_TLS_KEY
                BY DEF Name
            <4>. HIDE DEF Name
            <4>3. env["NATS_TLS_CERT"] = "" \/ env["NATS_TLS_KEY"] = ""
                BY <4>1, <4>2
            <4>. QED BY <4>3 DEF Names, NatsNames
        <3>2. Exit \/ (program = "writer" /\ Pass({}))
            BY <2>1, <2>3 DEF LoadNamed
        <3>. QED BY <2>2, <3>1, <3>2, ExitInv, PassInv
    <2>4. CASE ~ \E f \in {"cert", "key"} : Name[f] = ""
        <3>1. Exit \/ Pass({"natsCert"})
            BY <2>1, <2>4 DEF LoadNamed
        <3>. QED BY <2>2, <3>1, ExitInv, PassInv
    <2>. QED BY <2>3, <2>4
<1>5. CASE LoadCA
    <2>1. At("ca") /\ (Exit \/ Pass({}) \/ Pass({"natsCA"}))
        BY <1>5 DEF LoadCA, LoadNamed
    <2>. QED BY <2>1, ExitInv, PlainInv
<1>6. CASE InfluxStat
    <2>1. At("influxStat")
        BY <1>6 DEF InfluxStat
    <2>2. CASE Pass({})
        BY <2>1, <2>2, PlainInv
    <2>3. CASE at' = at + 2 /\ UNCHANGED <<world, loaded, tokens, reply>>
        <3>1. (program = "reader" /\ at = 3) \/ (program = "writer" /\ at = 5)
            BY <2>1, Order DEF IInv
        <3>2. Names(NatsNames)' = Names(NatsNames) /\ program' = program /\ loaded' = loaded
            BY <2>3 DEF Names, NatsNames, world
        <3>. QED BY <2>3, <3>1, <3>2
                DEF IInv, Places, PastPair, PastDatabase, PastConnect, PairAt, ConnectAt
    <2>. QED BY <1>6, <2>2, <2>3 DEF InfluxStat
<1>7. CASE InfluxRead
    BY <1>7, ExitInv, PlainInv DEF InfluxRead
<1>8. CASE Database
    <2>1. At("database") /\ (Exit \/ (Pass({}) /\ "influxCA" \in loaded))
        BY <1>8 DEF Database
    <2>2. at # PairAt /\ at # ConnectAt
        BY <2>1, Order DEF IInv
    <2>. QED BY <2>1, <2>2, ExitInv, PassInv
<1>9. CASE Connect
    <2>1. At("connect")
        BY <1>9 DEF Connect
    <2>2. at # PairAt /\ ~(program = "writer" /\ at = 7)
        BY <2>1, Order DEF IInv
    <2>3. CASE "natsCA" \notin loaded
        BY <1>9, <2>3, ExitInv DEF Connect
    <2>4. CASE "natsCA" \in loaded
        <3>1. at' = at + 1 /\ UNCHANGED <<world, loaded, reply>>
            BY <1>9, <2>4 DEF Connect
        <3>2. Names(NatsNames)' = Names(NatsNames) /\ program' = program /\ loaded' = loaded
              /\ PairAt' = PairAt /\ ConnectAt' = ConnectAt
            BY <3>1 DEF Names, NatsNames, world, PairAt, ConnectAt
        <3>3. PairAt \in Nat /\ ConnectAt \in Nat /\ at \in Nat
            BY Ends DEF IInv, Places
        <3>. QED BY <2>2, <2>4, <3>1, <3>2, <3>3
                DEF IInv, Places, PastPair, PastDatabase, PastConnect
    <2>. QED BY <2>3, <2>4
<1>. QED BY <1>1, <1>2, <1>3, <1>4, <1>5, <1>6, <1>7, <1>8, <1>9 DEF StartStep

LEMMA NextInv == IInv /\ [Next]_vars => IInv'
<1>. SUFFICES ASSUME IInv, [Next]_vars PROVE IInv'
    OBVIOUS
<1>1. CASE StartStep
    BY <1>1, StartStepInv
<1>2. CASE Emit \/ Refill \/ Idle
    BY <1>2, StayInv DEF Emit, Refill, Idle, world, vars
<1>3. CASE WaitFails \/ ClientEnds
    BY <1>3, ExitInv DEF WaitFails, ClientEnds
<1>4. CASE Kill
    <2>1. Places' /\ at' = 0 /\ PairAt' = PairAt /\ ConnectAt' = ConnectAt
        BY <1>4 DEF IInv, Places, Kill, PairAt, ConnectAt
    <2>2. 0 < PairAt /\ 0 < ConnectAt /\ PairAt \in Nat /\ ConnectAt \in Nat
        BY Ends DEF IInv
    <2>. QED BY <2>1, <2>2 DEF IInv, PastPair, PastDatabase, PastConnect
<1>5. ASSUME NEW req \in Requests, Serve(req) PROVE IInv'
    BY <1>5, StayInv DEF Serve, world
<1>6. ASSUME NEW f \in Files, Change(f) PROVE IInv'
    BY <1>6, StayInv DEF Change
<1>7. CASE UNCHANGED vars
    BY <1>7, StayInv DEF vars, world
<1>. QED BY <1>1, <1>2, <1>3, <1>4, <1>5, <1>6, <1>7 DEF Next

\* The invariant of the steps that a process has come past.
THEOREM Invariance == Spec => []IInv
    BY InitInv, NextInv, PTL DEF Spec

-----------------------------------------------------------------------------

\* A program that runs verifies the NATS server against the private CA and
\* presents its certificate, and a Writer that runs verifies InfluxDB's,
\* whatever has become of the files since run looked at them (cmd/*/main.go,
\* pkg/security/tls.go).
THEOREM RunningIsVerified == Spec => []RunsVerified
<1>1. IInv => RunsVerified
    <2>. SUFFICES ASSUME IInv, Running PROVE RunsVerified
        BY DEF RunsVerified
    <2>1. at > ConnectAt /\ at > PairAt /\ (program = "writer" => at > 7)
        BY Ends DEF IInv, Places, Running
    <2>. QED BY <2>1 DEF IInv, PastPair, PastDatabase, PastConnect, RunsVerified
<1>. QED BY <1>1, Invariance, PTL

-----------------------------------------------------------------------------
(* What the Reader replies.                                                *)

\* A chain of three or four handlers, one after the other.
LEMMA ChainUnfold ==
    ASSUME NEW req, NEW e, NEW list
    PROVE  LET chain == Middleware \o Routed(req, e)
               step(r, i) == Handle(r, chain[i], req, e, list)
               three == step(step(step(NoReply, 1), 2), 3)
           IN  /\ Len(chain) = 3 => Chained(req, e, list) = three
               /\ Len(chain) = 4 => Chained(req, e, list) = step(three, 4)
<1>. DEFINE chain == Middleware \o Routed(req, e)
            n == Len(chain)
            step(r, i) == Handle(r, chain[i], req, e, list)
            one   == step(NoReply, 1)
            two   == step(one, 2)
            three == step(two, 3)
            four  == step(three, 4)
            after[i \in 0..n] == IF i = 0 THEN NoReply ELSE step(after[i - 1], i)
            f == [i \in 0..n |-> IF i = 0 THEN NoReply ELSE IF i = 1 THEN one
                                 ELSE IF i = 2 THEN two ELSE IF i = 3 THEN three ELSE four]
<1>. SUFFICES ASSUME n = 3 \/ n = 4
              PROVE  Chained(req, e, list) = IF n = 3 THEN three ELSE four
    OBVIOUS
<1>1. Chained(req, e, list) = after[n]
    BY DEF Chained
<1>2. after = CHOOSE g : g = [i \in 0..n |-> IF i = 0 THEN NoReply ELSE step(g[i - 1], i)]
    OBVIOUS
<1>3. f = [i \in 0..n |-> IF i = 0 THEN NoReply ELSE step(f[i - 1], i)]
    <2>1. /\ f[0] = NoReply /\ f[1] = step(f[0], 1)
          /\ f[2] = step(f[1], 2) /\ f[3] = step(f[2], 3)
          /\ n = 4 => f[4] = step(f[3], 4)
        <3>. HIDE DEF step, n
        <3>. QED OBVIOUS
    <2>2. ASSUME NEW i \in 0..n
          PROVE  f[i] = IF i = 0 THEN NoReply ELSE step(f[i - 1], i)
        <3>1. i = 0 \/ i = 1 \/ i = 2 \/ i = 3 \/ (i = 4 /\ n = 4)
            <4>. HIDE DEF n
            <4>. QED OBVIOUS
        <3>. HIDE DEF f, step, n
        <3>. QED BY <2>1, <3>1
    <2>3. f = [i \in 0..n |-> f[i]]
        <3>. HIDE DEF step, n
        <3>. QED OBVIOUS
    <2>. HIDE DEF f, step, n
    <2>. QED BY <2>2, <2>3
<1>. HIDE DEF after, step, n
<1>4. after = [i \in 0..n |-> IF i = 0 THEN NoReply ELSE step(after[i - 1], i)]
    <2>. HIDE DEF f
    <2>. QED BY <1>2, <1>3
<1>5. /\ after[0] = NoReply /\ after[1] = step(after[0], 1)
      /\ after[2] = step(after[1], 2) /\ after[3] = step(after[2], 3)
      /\ n = 4 => after[4] = step(after[3], 4)
    BY <1>4
<1>. QED BY <1>1, <1>5

\* A reply with the headers that all handlers agree on.
Is(status, csp, origin, outcome) ==
    [status |-> status, headers |-> SecurityHeaders, csp |-> csp,
     allowOrigin |-> origin, outcome |-> outcome]

LEMMA HandleIs ==
    ASSUME NEW req, NEW e, NEW list, NEW s, NEW csp, NEW o
    PROVE  LET r == Is(s, csp, o, "none")
           IN  /\ Handle(r, "securityHeaders", req, e, list) = Is(s, "strict", o, "none")
               /\ Handle(r, "swaggerSecurityHeaders", req, e, list) = Is(s, "swagger", o, "none")
               /\ Handle(r, "handler", req, e, list) = Is(200, csp, o, "handled")
               /\ Handle(r, "notFound", req, e, list) = Is(404, csp, o, "none")
<1>. DEFINE r == Is(s, csp, o, "none")
<1>1. r.outcome # "aborted" /\ SecurityHeaders \cup SecurityHeaders = SecurityHeaders
      /\ SecurityHeaders \cup CommonHeaders = SecurityHeaders
    BY DEF Is, SecurityHeaders
<1>2. Handle(r, "securityHeaders", req, e, list) = Is(s, "strict", o, "none")
    BY <1>1 DEF Handle, securityHeaders, Is
<1>3. Handle(r, "swaggerSecurityHeaders", req, e, list) = Is(s, "swagger", o, "none")
    BY <1>1 DEF Handle, swaggerSecurityHeaders, Is
<1>4. Handle(r, "handler", req, e, list) = Is(200, csp, o, "handled")
    BY <1>1 DEF Handle, Is
<1>5. Handle(r, "notFound", req, e, list) = Is(404, csp, o, "none")
    BY <1>1 DEF Handle, Is
<1>. QED BY <1>2, <1>3, <1>4, <1>5

\* What the two handlers in front of every route make of a request.
Origin(req, e, list) == IF Allowed(req.origin, e, list) THEN req.origin ELSE ""

AfterMiddleware(req, e, list) ==
    IF req.method = "OPTIONS"
    THEN Is(IF Allowed(req.origin, e, list) THEN 204 ELSE 403, "strict",
            Origin(req, e, list), "aborted")
    ELSE Is(0, "strict", Origin(req, e, list), "none")

LEMMA MiddlewareIs ==
    ASSUME NEW req, NEW e, NEW list
    PROVE  Handle(Handle(NoReply, "securityHeaders", req, e, list), "corsPolicy", req, e, list)
               = AfterMiddleware(req, e, list)
<1>1. Handle(NoReply, "securityHeaders", req, e, list) = Is(0, "strict", "", "none")
    BY DEF Handle, NoReply, securityHeaders, Is
<1>2. Handle(Is(0, "strict", "", "none"), "corsPolicy", req, e, list)
          = corsPolicy(Is(0, "strict", "", "none"), req, e, list)
    BY DEF Handle, Is
<1>3. CASE req.method = "OPTIONS"
    <2>1. CASE Allowed(req.origin, e, list)
        BY <1>1, <1>2, <1>3, <2>1 DEF corsPolicy, AfterMiddleware, Origin, Is
    <2>2. CASE ~Allowed(req.origin, e, list)
        <3>. DEFINE b == Is(0, "strict", "", "none")
                    c == corsPolicy(b, req, e, list)
        <3>1. c = [b EXCEPT !.allowOrigin = "", !.outcome = "aborted", !.status = 403]
            BY <1>3, <2>2 DEF corsPolicy
        <3>2. c = Is(403, "strict", "", "aborted")
            <4>1. b = Is(0, "strict", "", "none")
                OBVIOUS
            <4>. HIDE DEF b, c
            <4>. QED BY <3>1, <4>1 DEF Is
        <3>3. AfterMiddleware(req, e, list) = Is(403, "strict", "", "aborted")
            BY <1>3, <2>2 DEF AfterMiddleware, Origin
        <3>. QED BY <1>1, <1>2, <3>2, <3>3
    <2>. QED BY <2>1, <2>2
<1>4. CASE req.method # "OPTIONS"
    BY <1>1, <1>2, <1>4 DEF corsPolicy, AfterMiddleware, Origin, Is
<1>. QED BY <1>3, <1>4

LEMMA ChainAlong ==
    ASSUME NEW req, NEW e, NEW list
    PROVE  LET two == AfterMiddleware(req, e, list)
           IN  /\ \A x : Routed(req, e) = <<x>> =>
                      Chained(req, e, list) = Handle(two, x, req, e, list)
               /\ \A x, y : Routed(req, e) = <<x, y>> =>
                      Chained(req, e, list) = Handle(Handle(two, x, req, e, list), y, req, e, list)
<1>. DEFINE chain == Middleware \o Routed(req, e)
            two   == AfterMiddleware(req, e, list)
<1>1. two = Handle(Handle(NoReply, "securityHeaders", req, e, list), "corsPolicy", req, e, list)
    BY MiddlewareIs
<1>. HIDE DEF two
<1>2. ASSUME NEW x, Routed(req, e) = <<x>>
      PROVE  Chained(req, e, list) = Handle(two, x, req, e, list)
    <2>1. /\ Len(chain) = 3
          /\ chain[1] = "securityHeaders" /\ chain[2] = "corsPolicy" /\ chain[3] = x
        BY <1>2 DEF Middleware
    <2>. QED BY <1>1, <2>1, ChainUnfold
<1>3. ASSUME NEW x, NEW y, Routed(req, e) = <<x, y>>
      PROVE  Chained(req, e, list) = Handle(Handle(two, x, req, e, list), y, req, e, list)
    <2>1. /\ Len(chain) = 4
          /\ chain[1] = "securityHeaders" /\ chain[2] = "corsPolicy"
          /\ chain[3] = x /\ chain[4] = y
        BY <1>3 DEF Middleware
    <2>. QED BY <1>1, <2>1, ChainUnfold
<1>. QED BY <1>2, <1>3 DEF two

\* What the chain of handlers gives: to a preflight request what corsPolicy
\* replies, to others what the handler of the route does, or 404.
LEMMA ChainIs ==
    ASSUME NEW req, NEW e, NEW list
    PROVE  Chained(req, e, list) =
              IF req.method = "OPTIONS" THEN AfterMiddleware(req, e, list)
              ELSE IF IsSecure(req) THEN Is(200, "strict", Origin(req, e, list), "handled")
              ELSE IF IsSwagger(req, e) THEN Is(200, "swagger", Origin(req, e, list), "handled")
              ELSE Is(404, "strict", Origin(req, e, list), "none")
<1>. DEFINE two == AfterMiddleware(req, e, list)
            o   == Origin(req, e, list)
<1>1. CASE req.method = "OPTIONS"
    <2>1. Routed(req, e) = <<"notFound">>
        BY <1>1 DEF Routed, IsSecure, IsSwagger
    <2>2. Chained(req, e, list) = Handle(two, "notFound", req, e, list)
        BY <2>1, ChainAlong
    <2>3. two.outcome = "aborted"
        BY <1>1 DEF AfterMiddleware, Is
    <2>. QED BY <1>1, <2>2, <2>3 DEF Handle
<1>2. CASE req.method # "OPTIONS" /\ IsSecure(req)
    <2>1. Routed(req, e) = <<"securityHeaders", "handler">>
        <3>1. ~IsSwagger(req, e)
            BY <1>2, RouterAssumption DEF IsSecure, IsSwagger, Secure
        <3>. QED BY <1>2, <3>1 DEF Routed
    <2>2. Chained(req, e, list) = Handle(Handle(two, "securityHeaders", req, e, list),
                                         "handler", req, e, list)
        BY <2>1, ChainAlong
    <2>3. two = Is(0, "strict", o, "none")
        BY <1>2 DEF AfterMiddleware
    <2>. HIDE DEF two, o
    <2>. QED BY <1>2, <2>2, <2>3, HandleIs DEF o
<1>3. CASE req.method # "OPTIONS" /\ ~IsSecure(req) /\ IsSwagger(req, e)
    <2>1. Routed(req, e) = <<"swaggerSecurityHeaders", "handler">>
        BY <1>3 DEF Routed
    <2>2. Chained(req, e, list) = Handle(Handle(two, "swaggerSecurityHeaders", req, e, list),
                                         "handler", req, e, list)
        BY <2>1, ChainAlong
    <2>3. two = Is(0, "strict", o, "none")
        BY <1>3 DEF AfterMiddleware
    <2>. HIDE DEF two, o
    <2>. QED BY <1>3, <2>2, <2>3, HandleIs DEF o
<1>4. CASE req.method # "OPTIONS" /\ ~IsSecure(req) /\ ~IsSwagger(req, e)
    <2>1. Routed(req, e) = <<"notFound">>
        BY <1>4 DEF Routed
    <2>2. Chained(req, e, list) = Handle(two, "notFound", req, e, list)
        BY <2>1, ChainAlong
    <2>3. two = Is(0, "strict", o, "none")
        BY <1>4 DEF AfterMiddleware
    <2>. HIDE DEF two, o
    <2>. QED BY <1>4, <2>2, <2>3, HandleIs DEF o
<1>. QED BY <1>1, <1>2, <1>3, <1>4

\* The chain guards its reply, and to a route's path it is a handler's.  No
\* variable sets AppEnv, so that the allowlist alone decides on origins.
LEMMA ChainGuards ==
    ASSUME NEW req
    PROVE  LET r == Chained(req, Load.appEnv, Load.origins)
           IN  /\ Guarded(req, r)
               /\ r.outcome # "redirected"
               /\ IsRoute(req, Load.appEnv) => r.outcome = "handled"
<1>. DEFINE e    == Load.appEnv
            list == Load.origins
            r    == Chained(req, e, list)
            o    == IF Listed(req) THEN req.origin ELSE ""
<1>1. Allowed(req.origin, e, list) <=> Listed(req)
    BY DEF Allowed, Load, getEnvStringSlice, Listed
<1>2. Origin(req, e, list) = o
    BY <1>1 DEF Origin
<1>. SUFFICES /\ Guarded(req, r)
              /\ r.outcome # "redirected"
              /\ IsRoute(req, e) => r.outcome = "handled"
    OBVIOUS
<1>. HIDE DEF e, list, o
<1>3. ASSUME NEW s \in Int, NEW csp, NEW q, r = Is(s, csp, o, q)
      PROVE  /\ r.headers = SecurityHeaders /\ r.csp = csp /\ r.allowOrigin = o
             /\ r.status = s /\ r.outcome = q
    <2>. HIDE DEF r
    <2>. QED BY <1>3 DEF Is
<1>4. CASE req.method = "OPTIONS"
    <2>1. r = Is(IF Listed(req) THEN 204 ELSE 403, "strict", o, "aborted")
        BY <1>1, <1>2, <1>4, ChainIs DEF AfterMiddleware
    <2>2. ~IsRoute(req, e)
        BY <1>4 DEF IsRoute, IsSecure, IsSwagger
    <2>3. /\ r.headers = SecurityHeaders /\ r.csp = "strict" /\ r.allowOrigin = o
          /\ r.status = (IF Listed(req) THEN 204 ELSE 403) /\ r.outcome = "aborted"
        BY <1>3, <2>1
    <2>. HIDE DEF r
    <2>. QED BY <1>4, <2>2, <2>3 DEF Guarded, o
<1>5. CASE req.method # "OPTIONS" /\ IsSecure(req)
    <2>1. r = Is(200, "strict", o, "handled")
        BY <1>2, <1>5, ChainIs
    <2>3. /\ r.headers = SecurityHeaders /\ r.csp = "strict" /\ r.allowOrigin = o
          /\ r.status = 200 /\ r.outcome = "handled"
        BY <1>3, <2>1
    <2>. HIDE DEF r
    <2>. QED BY <1>5, <2>3 DEF Guarded, o
<1>6. CASE req.method # "OPTIONS" /\ ~IsSecure(req) /\ IsSwagger(req, e)
    <2>1. r = Is(200, "swagger", o, "handled")
        BY <1>2, <1>6, ChainIs
    <2>2. req.path \notin Secure
        BY <1>6, RouterAssumption DEF IsSwagger, Secure
    <2>3. /\ r.headers = SecurityHeaders /\ r.csp = "swagger" /\ r.allowOrigin = o
          /\ r.status = 200 /\ r.outcome = "handled"
        BY <1>3, <2>1
    <2>. HIDE DEF r
    <2>. QED BY <1>6, <2>2, <2>3 DEF Guarded, o
<1>7. CASE req.method # "OPTIONS" /\ ~IsSecure(req) /\ ~IsSwagger(req, e)
    <2>1. r = Is(404, "strict", o, "none")
        BY <1>2, <1>7, ChainIs
    <2>2. ~IsRoute(req, e)
        BY <1>7 DEF IsRoute
    <2>3. /\ r.headers = SecurityHeaders /\ r.csp = "strict" /\ r.allowOrigin = o
          /\ r.status = 404 /\ r.outcome = "none"
        BY <1>3, <2>1
    <2>. HIDE DEF r
    <2>4. r.status >= 400
        BY <2>3
    <2>. QED BY <1>7, <2>2, <2>3, <2>4 DEF Guarded, o
<1>. QED BY <1>4, <1>5, <1>6, <1>7

\* What is redirected is redirected to a route, which is not redirected again.
LEMMA ServeGuarded ==
    ASSUME NEW req \in Requests, Serve(req)
    PROVE  RepliesAreGuarded'
<1>. DEFINE e    == Load.appEnv
            list == Load.origins
            r    == Reply(req, e, list)
            next == Reply(Toggled(req), e, list)
<1>1. reply'[1] = req /\ reply'[2] = r /\ env' = env
    BY DEF Serve, world
<1>2. Load' = Load
    BY <1>1 DEF Load
<1>3. IF r.outcome = "redirected"
      THEN /\ req.method # "OPTIONS" /\ r.allowOrigin = ""
           /\ next.outcome = "handled" /\ Guarded(Toggled(req), next)
      ELSE Guarded(req, r)
    <2>1. CASE ~Redirected(req, e)
        <3>1. r = Chained(req, e, list)
            BY <2>1 DEF Reply
        <3>. QED BY <3>1, ChainGuards
    <2>2. CASE Redirected(req, e)
        <3>1. IsRoute(Toggled(req), e) /\ ~Redirected(Toggled(req), e)
            BY <2>2 DEF Redirected
        <3>2. req.method = "GET"
            <4>1. Toggled(req).method = "GET"
                BY <3>1 DEF IsRoute, IsSecure, IsSwagger
            <4>. QED BY <4>1 DEF Toggled
        <3>3. r = [NoReply EXCEPT !.status = 301, !.outcome = "redirected"]
            BY <2>2 DEF Reply
        <3>4. r.outcome = "redirected" /\ r.allowOrigin = ""
            BY <3>3 DEF NoReply
        <3>5. next = Chained(Toggled(req), e, list)
            BY <3>1 DEF Reply
        <3>6. next.outcome = "handled" /\ Guarded(Toggled(req), next)
            BY <3>1, <3>5, ChainGuards
        <3>. HIDE DEF r, next
        <3>. QED BY <3>2, <3>4, <3>6
    <2>. QED BY <2>1, <2>2
<1>4. /\ Guarded(req, r)' <=> Guarded(req, r)
      /\ Guarded(Toggled(req), next)' <=> Guarded(Toggled(req), next)
    BY <1>1, <1>2 DEF Guarded, Listed
<1>5. r' = r /\ next' = next
    BY <1>2
<1>. HIDE DEF r, next
<1>. QED BY <1>1, <1>2, <1>3, <1>4, <1>5 DEF RepliesAreGuarded, r, next

\* Every reply that the Reader's handlers give has the security headers, a 404
\* and an aborted request too; a preflight request never reaches a handler;
\* CORS headers are for listed origins only (gin_router.go).  A request that
\* the router redirects, for a slash too many or too few, is led to such a
\* reply by one redirect.  All for every request and environment.
THEOREM EveryReplyIsGuarded == Spec => []RepliesAreGuarded
<1>1. Init => RepliesAreGuarded
    BY DEF Init, RepliesAreGuarded
<1>2. RepliesAreGuarded /\ [Next]_vars => RepliesAreGuarded'
    <2>. SUFFICES ASSUME RepliesAreGuarded, [Next]_vars PROVE RepliesAreGuarded'
        OBVIOUS
    <2>1. ASSUME NEW req \in Requests, Serve(req) PROVE RepliesAreGuarded'
        BY <2>1, ServeGuarded
    <2>2. CASE env' = env /\ reply' = reply
        <3>1. Load' = Load
            BY <2>2 DEF Load
        <3>. QED BY <2>2, <3>1 DEF RepliesAreGuarded, Guarded, Listed
    <2>3. CASE StartStep
        <3>1. env' = env /\ reply' = reply
            BY <2>3 DEF StartStep, Start, LoadConfig, Stat, LoadPair, LoadCA, LoadNamed,
                        InfluxStat, InfluxRead, Database, Connect, Pass, Exit, world
        <3>. QED BY <2>2, <3>1
    <2>4. CASE Emit \/ Refill \/ Idle \/ WaitFails \/ ClientEnds \/ Kill
               \/ (\E f \in Files : Change(f)) \/ UNCHANGED vars
        <3>1. env' = env /\ reply' = reply
            BY <2>4 DEF Emit, Refill, Idle, WaitFails, ClientEnds, Kill, Change, Exit, world, vars
        <3>. QED BY <2>2, <3>1
    <2>. QED BY <2>1, <2>3, <2>4 DEF Next
<1>. QED BY <1>1, <1>2, PTL DEF Spec
=============================================================================
