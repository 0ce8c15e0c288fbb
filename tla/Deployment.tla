----------------------------- MODULE Deployment -----------------------------
(***************************************************************************)
(* One process of one of the four programs, as its environment configures  *)
(* it: config.Load and Validate, the certificates that pkg/security and    *)
(* nats.go check and load, one after the other, while somebody renews the  *)
(* files (scripts/certs.sh), and the restart of a service that gives up    *)
(* (restart: unless-stopped).  Of a process that runs: the rate of the     *)
(* Daemon and the HTTP routes of the Reader, which the configuration       *)
(* decides.                                                                *)
(*                                                                         *)
(* External: nats.ClientCert and nats.RootCAs need the files they name;    *)
(* the servers' certificates are of the private CA; the rate limiter.      *)
(***************************************************************************)
EXTENDS Integers, Router

CONSTANTS
    Environments,   \* environments to deploy with
    Requests,       \* HTTP requests: method, origin, path, slash
    Number,         \* the integers that strconv.Atoi reads, by their texts
    MaxChanges      \* bound on the changes of files and crashes of the process

ASSUME DeploymentAssumption == Number \in [DOMAIN Number -> Int] /\ MaxChanges \in Nat

Services == {"daemon", "writer", "reader"}
Programs == Services \cup {"client"}
Files    == {"cert", "key", "ca"}

VARIABLES
    program,   \* which program it is
    env,       \* its environment, "" for what is not set
    file,      \* file[f]: "good", "bad" or "absent"
    changes,   \* how often a file has changed or the process has crashed
    at,        \* the step of run it is at, 0 for a process that is down
    loaded,    \* certificates it has loaded, for which connection
    tokens,    \* tokens of the Daemon's limiter
    reply      \* the Reader's last reply, and what it was to

world == <<program, env, file, changes>>
vars  == <<world, at, loaded, tokens, reply>>

-----------------------------------------------------------------------------
(* pkg/config.                                                             *)

\* Mutated form: a value that is no integer counts as 0.
getEnvIntZero(v, default) ==
    IF v = "" THEN default ELSE IF v \in DOMAIN Number THEN Number[v] ELSE 0

\* Any integer is taken as it is; Validate does not look at it.
getEnvInt(v, default) == IF v \in DOMAIN Number THEN Number[v] ELSE default

getEnv(v, default) == IF v = "" THEN default ELSE v

\* The value as the set of its parts between commas.
getEnvStringSlice(parts) == parts \ {""}

\* The default burst is 10; two tokens do as well.  No variable sets AppEnv.
Load ==
    [appEnv          |-> "",
     eventsPerSecond |-> getEnvInt(env.DAEMON_EVENTS_PER_SECOND, 2),
     eventsBurst     |-> getEnvInt(env.DAEMON_EVENTS_BURST, 2),
     readerSubject   |-> getEnv(env.READER_QUERY_SUBJECT, "events_subject.query"),
     clientSubject   |-> getEnv(env.CLIENT_QUERY_SUBJECT, "events.query"),
     origins         |-> getEnvStringSlice(env.CORS_ALLOWED_ORIGINS)]

Validate(cfg) == cfg.appEnv = "production" => env.NATS_USER # "" /\ env.NATS_PASSWORD # ""

-----------------------------------------------------------------------------
(* What run does up to the connections, in its order.                      *)

Steps ==
    [daemon |-> <<"load", "pair", "ca", "connect">>,
     writer |-> <<"load", "stat", "pair", "ca", "influxStat", "influxRead", "database",
                  "connect">>,
     reader |-> <<"load", "stat", "influxStat", "influxRead", "pair", "ca", "connect">>,
     client |-> <<"load", "pair", "ca", "connect">>]

At(step) == at \in DOMAIN Steps[program] /\ Steps[program][at] = step
Running  == at > Len(Steps[program])

Init ==
    /\ program \in Programs
    /\ env \in Environments
    /\ file = [f \in Files |-> "good"]
    /\ changes = 0
    /\ at = 0 /\ loaded = {} /\ tokens = 0 /\ reply = <<>>

Pass(certs) ==
    /\ at' = at + 1
    /\ loaded' = loaded \cup certs
    /\ UNCHANGED <<world, tokens, reply>>

Exit == at' = 0 /\ loaded' = {} /\ tokens' = 0 /\ UNCHANGED <<world, reply>>

Start == at = 0 /\ Pass({})

LoadConfig == At("load") /\ IF Validate(Load) THEN Pass({}) ELSE Exit

Name == [cert |-> env.NATS_TLS_CERT, key |-> env.NATS_TLS_KEY, ca |-> env.NATS_CA_CERT]

\* ValidateTLSConfig for NATS: the pair is complete, and what is named exists.
Stat ==
    /\ At("stat")
    /\ IF /\ Name["cert"] = "" <=> Name["key"] = ""
          /\ \A f \in Files : Name[f] # "" => file[f] # "absent"
       THEN Pass({}) ELSE Exit

\* Mutated form: a file that cannot be loaded is passed over.
LoadNamedSkips(files, cert) ==
    IF \A f \in files : Name[f] # "" /\ file[f] = "good" THEN Pass({cert}) ELSE Pass({})

\* The Writer's LoadClientTLSConfig passes over what is not named, with none
\* of the three there is no TLS configuration at all; the other programs use
\* nats.ClientCert and nats.RootCAs, whose files must be there.
LoadNamed(files, cert) ==
    IF \E f \in files : Name[f] = ""
    THEN IF program = "writer" THEN Pass({}) ELSE Exit
    ELSE IF \A f \in files : file[f] = "good" THEN Pass({cert}) ELSE Exit

LoadPair == At("pair") /\ LoadNamed({"cert", "key"}, "natsCert")

LoadCA == At("ca") /\ LoadNamed({"ca"}, "natsCA")

\* INFLUX_CA_CERT: a name without a file is a warning, and no TLS options.
InfluxStat ==
    /\ At("influxStat")
    /\ \/ env.INFLUX_CA_CERT # "" /\ file["ca"] # "absent" /\ Pass({})
       \/ /\ env.INFLUX_CA_CERT = "" \/ file["ca"] = "absent"
          /\ at' = at + 2
          /\ UNCHANGED <<world, loaded, tokens, reply>>

\* NewTLSConfig in NewInfluxRepository and NewInfluxDBQuerier.
InfluxRead ==
    At("influxRead") /\ IF file["ca"] = "good" THEN Pass({"influxCA"}) ELSE Exit

\* Mutated form: ensureDatabase tries again until it gets through.
DatabaseRetried ==
    At("database") /\ IF "influxCA" \in loaded THEN Pass({}) ELSE UNCHANGED vars

\* ensureDatabase, the Writer's first request to InfluxDB; the Reader makes
\* none before its first query.
Database == At("database") /\ IF "influxCA" \in loaded THEN Pass({}) ELSE Exit

\* Connect, with the Writer js.Subscribe.  The Daemon's limiter starts full.
Connect ==
    /\ At("connect")
    /\ IF "natsCA" \in loaded
       THEN /\ at' = at + 1
            /\ tokens' = IF program = "daemon" THEN Load.eventsBurst ELSE 0
            /\ UNCHANGED <<world, loaded, reply>>
       ELSE Exit

-----------------------------------------------------------------------------
(* A process that runs.                                                    *)

\* limiter.Wait returns, and Run publishes an event.
Emit ==
    /\ program = "daemon" /\ Running
    /\ tokens > 0
    /\ tokens' = tokens - 1
    /\ UNCHANGED <<world, at, loaded, reply>>

Refill ==
    /\ program = "daemon" /\ Running
    /\ tokens < Load.eventsBurst /\ Load.eventsPerSecond > 0
    /\ tokens' = tokens + 1
    /\ UNCHANGED <<world, at, loaded, reply>>

\* The Writer's work is in Writer.  At a rate of 0 or below no token ever
\* comes, and Wait waits.
Idle ==
    /\ Running
    /\ \/ program = "writer"
       \/ /\ program = "daemon" /\ tokens = 0
          /\ Load.eventsPerSecond <= 0 /\ Load.eventsBurst > 0
    /\ UNCHANGED vars

\* With a burst of 0 or below Wait returns an error, and so does Run.
WaitFails == program = "daemon" /\ Running /\ Load.eventsBurst <= 0 /\ Exit

\* The Client's one request, and its end.
ClientEnds == program = "client" /\ Running /\ Exit

Serve(req) ==
    /\ program = "reader" /\ Running
    /\ reply' = <<req, Reply(req, Load.appEnv, Load.origins)>>
    /\ UNCHANGED <<world, at, loaded, tokens>>

\* A file is removed, written, or written in part.
Change(f) ==
    /\ changes < MaxChanges
    /\ changes' = changes + 1
    /\ \E state \in {"good", "bad", "absent"} \ {file[f]} : file' = [file EXCEPT ![f] = state]
    /\ UNCHANGED <<program, env, at, loaded, tokens, reply>>

\* The process crashes; it is started again, as one that is stopped is not.
Kill ==
    /\ at # 0
    /\ changes < MaxChanges
    /\ changes' = changes + 1
    /\ at' = 0 /\ loaded' = {} /\ tokens' = 0
    /\ UNCHANGED <<program, env, file, reply>>

StartStep ==
    \/ Start \/ LoadConfig \/ Stat \/ LoadPair \/ LoadCA
    \/ InfluxStat \/ InfluxRead \/ Database \/ Connect

Next ==
    \/ StartStep
    \/ Emit \/ Refill \/ Idle \/ WaitFails \/ ClientEnds \/ Kill
    \/ \E req \in Requests : Serve(req)
    \/ \E f \in Files : Change(f)

\* Processes go on and are started again; tokens come with time.
Fairness ==
    /\ WF_vars(StartStep /\ program \in Services)
    /\ WF_vars(Emit) /\ WF_vars(Refill) /\ WF_vars(WaitFails)

Spec == Init /\ [][Next]_vars /\ Fairness

-----------------------------------------------------------------------------
(* Properties.                                                             *)

Names(vs) == \A v \in vs : env[v] # ""
NatsNames == {"NATS_CA_CERT", "NATS_TLS_CERT", "NATS_TLS_KEY"}

\* A program that runs verifies the NATS server against the private CA and
\* presents its certificate, whatever its environment names and whatever
\* becomes of the files between the check and the read (README, TLS
\* Configuration).  The Writer presents a certificate if it is given one, and
\* verifies InfluxDB's, although a missing CA file is only a warning.
RunsVerified ==
    Running =>
        /\ "natsCA" \in loaded
        /\ (program # "writer" \/ Names(NatsNames)) => "natsCert" \in loaded
        /\ program = "writer" => "influxCA" \in loaded

\* A number that stops the Daemon as its rate or as its burst.
Silencing(text) == text \in DOMAIN Number /\ Number[text] <= 0

\* Once the files are good for good, a service whose environment names them
\* runs in the end, whatever it has found of them before; a Daemon unless it
\* is given a burst that no event gets through.
FilesHeal ==
    <>[](/\ file = [f \in Files |-> "good"] /\ Names(NatsNames \cup {"INFLUX_CA_CERT"})
         /\ program \in Services /\ ~Silencing(env.DAEMON_EVENTS_BURST))
        => <>[]Running

\* The Daemon emits for ever, also when its rate or its burst is no integer,
\* unless one of them is an integer of 0 or below.
DaemonEmits ==
    <>[](/\ program = "daemon" /\ Running
         /\ ~Silencing(env.DAEMON_EVENTS_PER_SECOND)
         /\ ~Silencing(env.DAEMON_EVENTS_BURST))
        => []<><<Emit>>_vars

Listed(req) == req.origin # "" /\ req.origin \in env.CORS_ALLOWED_ORIGINS

\* The reply r to req has come through the global handlers: security headers,
\* with the strict policy unless it is a page of Swagger; CORS headers exactly
\* for origins that are listed; a preflight request reaches no handler, and
\* succeeds exactly for such origins.
Guarded(req, r) ==
    /\ SecurityHeaders \subseteq r.headers
    /\ \/ r.csp = "strict"
       \/ r.csp = "swagger" /\ req.path \notin Secure /\ r.outcome = "handled"
    /\ r.allowOrigin = IF Listed(req) THEN req.origin ELSE ""
    /\ req.method = "OPTIONS" =>
           r.outcome # "handled" /\ r.status = IF Listed(req) THEN 204 ELSE 403
    /\ r.outcome = "handled" \/ r.status >= 400 \/ req.method = "OPTIONS"

\* Every reply that the handlers give is guarded, a 404 and an aborted request
\* too (README, Security Response Headers).  The router's own redirect is not,
\* but it carries nothing, answers no preflight request and leads straight to
\* a reply of a handler that is.
RepliesAreGuarded ==
    reply # <<>> =>
        LET req  == reply[1]
            r    == reply[2]
            next == Reply(Toggled(req), Load.appEnv, Load.origins)
        IN  IF r.outcome = "redirected"
            THEN /\ req.method # "OPTIONS" /\ r.allowOrigin = ""
                 /\ next.outcome = "handled" /\ Guarded(Toggled(req), next)
            ELSE Guarded(req, r)

\* What documents say, and the model refutes.

\* "Mutual TLS (mTLS) is mandatory and cannot be disabled" (README).
AlwaysMutual == Running => "natsCert" \in loaded

\* "Server cert verified against the same private CA" (README, for the Reader
\* and InfluxDB): a Reader that has started without it does not recover.
ReaderReads ==
    <>[](/\ file = [f \in Files |-> "good"] /\ Names(NatsNames \cup {"INFLUX_CA_CERT"})
         /\ program = "reader")
        => <>[]("influxCA" \in loaded)

\* "Swagger UI (development mode only)" (README, HTTP API).
SwaggerInDevelopmentOnly ==
    reply # <<>> /\ reply[2].csp = "swagger" => env.APP_ENV = "development"

\* "In development mode (env="development") all origins are permitted
\* regardless of the allowlist" (NewRouter).
DevelopmentAllowsAll ==
    reply # <<>> /\ env.APP_ENV = "development" /\ reply[1].method = "OPTIONS"
        => reply[2].status = 204

\* "securityHeaders sets HTTP security headers on every response"
\* (gin_router.go, and the test of that name).
EveryReplyHasHeaders == reply # <<>> => SecurityHeaders \subseteq reply[2].headers

\* "Defaults are sane for local development" (README): the Client asks where
\* the Reader listens, if neither is told where.
DefaultsMeet ==
    env.READER_QUERY_SUBJECT = "" /\ env.CLIENT_QUERY_SUBJECT = "" =>
        Load.readerSubject = Load.clientSubject
=============================================================================
