---------------------------- MODULE MCDeployment ----------------------------
(***************************************************************************)
(* Instances of Deployment for TLC.                                        *)
(***************************************************************************)
EXTENDS Deployment

\* What deployments/docker-compose.yaml sets.
Compose ==
    [NATS_CA_CERT |-> "ca.pem", NATS_TLS_CERT |-> "client.pem",
     NATS_TLS_KEY |-> "client-key.pem", INFLUX_CA_CERT |-> "ca.pem",
     NATS_USER |-> "user", NATS_PASSWORD |-> "password", APP_ENV |-> "",
     DAEMON_EVENTS_PER_SECOND |-> "", DAEMON_EVENTS_BURST |-> "",
     READER_QUERY_SUBJECT |-> "events_subject.query",
     CLIENT_QUERY_SUBJECT |-> "events_subject.query",
     CORS_ALLOWED_ORIGINS |-> {}]

\* All of it, or with some of its variables set otherwise.
SomeEnvironments ==
    {Compose}
    \cup {[v \in DOMAIN Compose |-> IF v \in unset THEN "" ELSE Compose[v]] :
             unset \in SUBSET {"NATS_CA_CERT", "NATS_TLS_CERT", "NATS_TLS_KEY", "INFLUX_CA_CERT"}}
    \cup {[Compose EXCEPT !.DAEMON_EVENTS_PER_SECOND = r, !.DAEMON_EVENTS_BURST = b] :
             r, b \in {"two", "-1", "0", "1"}}
    \cup {[Compose EXCEPT !.APP_ENV = e, !.CORS_ALLOWED_ORIGINS = {"", "https://listed"}] :
             e \in {"", "development", "production"}}
    \cup {[Compose EXCEPT !.READER_QUERY_SUBJECT = "", !.CLIENT_QUERY_SUBJECT = ""]}

Numbers ==
    [text \in {"-1", "0", "1", "2"} |->
        CASE text = "-1" -> -1 [] text = "0" -> 0 [] text = "1" -> 1 [] text = "2" -> 2]

Origins == {"", "https://listed", "https://other"}

SomeRequests ==
    [method : {"GET"}, origin : Origins, slash : BOOLEAN,
     path : {"/health", "/api/v1/events", "/swagger", "/swagger/index.html", "/other"}]
    \cup [method : {"OPTIONS"}, origin : Origins, slash : BOOLEAN, path : {"/api/v1/events"}]
    \cup [method : {"POST"}, origin : Origins, slash : {FALSE}, path : {"/api/v1/events"}]
=============================================================================
