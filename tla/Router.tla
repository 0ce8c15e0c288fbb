------------------------------- MODULE Router -------------------------------
(***************************************************************************)
(* The Reader's HTTP routes and the chain of handlers in front of each:    *)
(* NewRouter, securityHeaders, swaggerSecurityHeaders and corsPolicy of    *)
(* gin_router.go.  Recovery and structuredLogger leave a reply alone; what *)
(* GET /api/v1/events answers is in QueryPath.                             *)
(*                                                                         *)
(* External: gin runs a chain in order until a handler aborts it, and the  *)
(* router's own handlers also before its 404.  A request whose path is     *)
(* that of a route but for a slash at its end is redirected by gin itself, *)
(* before any handler: gin.New() has RedirectTrailingSlash on.             *)
(*                                                                         *)
(* A request has a method, an origin, a path without the slash at its end  *)
(* and, in slash, whether there is one.                                    *)
(***************************************************************************)
EXTENDS Integers, Sequences

CONSTANT SwaggerPages   \* paths below /swagger/ that are asked for

Secure == {"/health", "/ready", "/api/v1/events"}

ASSUME RouterAssumption == SwaggerPages \cap (Secure \cup {"/swagger"}) = {}

NoReply == [status |-> 0, headers |-> {}, csp |-> "none", allowOrigin |-> "",
            outcome |-> "none"]

CommonHeaders == {"X-Content-Type-Options", "X-Frame-Options", "Referrer-Policy"}

SecurityHeaders ==
    CommonHeaders \cup {"X-XSS-Protection", "Strict-Transport-Security", "Permissions-Policy"}

\* isAllowedOrigin
Allowed(origin, env, allowlist) == env = "development" \/ (origin # "" /\ origin \in allowlist)

securityHeaders(r) == [r EXCEPT !.headers = @ \cup SecurityHeaders, !.csp = "strict"]

swaggerSecurityHeaders(r) == [r EXCEPT !.headers = @ \cup CommonHeaders, !.csp = "swagger"]

corsPolicy(r, req, env, allowlist) ==
    LET allowed == Allowed(req.origin, env, allowlist)
        preflight == req.method = "OPTIONS"
    IN  [r EXCEPT !.allowOrigin = IF allowed THEN req.origin ELSE "",
                  !.outcome = IF preflight THEN "aborted" ELSE @,
                  !.status = IF preflight THEN IF allowed THEN 204 ELSE 403 ELSE @]

\* Mutated form: corsPolicy comes first.
MiddlewareSwapped == <<"corsPolicy", "securityHeaders">>

Middleware == <<"securityHeaders", "corsPolicy">>

IsSecure(req) == req.method = "GET" /\ req.path \in Secure /\ ~req.slash

\* /swagger/*any: /swagger/ itself, and what is below it, with a slash or not.
IsSwagger(req, env) ==
    /\ req.method = "GET" /\ env # "production"
    /\ req.path \in SwaggerPages \/ (req.path = "/swagger" /\ req.slash)

IsRoute(req, env) == IsSecure(req) \/ IsSwagger(req, env)

Routed(req, env) ==
    CASE IsSecure(req)       -> <<"securityHeaders", "handler">>
      [] IsSwagger(req, env) -> <<"swaggerSecurityHeaders", "handler">>
      [] OTHER               -> <<"notFound">>

\* The same request with a slash more or less.
Toggled(req) ==
    [method |-> req.method, origin |-> req.origin, path |-> req.path, slash |-> ~req.slash]

\* Only GET has routes, so that there is nothing to redirect another method to.
Redirected(req, env) == ~IsRoute(req, env) /\ IsRoute(Toggled(req), env)

Handle(r, name, req, env, allowlist) ==
    IF r.outcome = "aborted" THEN r
    ELSE CASE name = "securityHeaders"        -> securityHeaders(r)
           [] name = "swaggerSecurityHeaders" -> swaggerSecurityHeaders(r)
           [] name = "corsPolicy"             -> corsPolicy(r, req, env, allowlist)
           [] name = "handler"                -> [r EXCEPT !.status = 200, !.outcome = "handled"]
           [] name = "notFound"               -> [r EXCEPT !.status = 404]

\* The reply after the i-th handler of the chain, for the last i.
Chained(req, env, allowlist) ==
    LET chain == Middleware \o Routed(req, env)
        after[i \in 0..Len(chain)] ==
            IF i = 0 THEN NoReply ELSE Handle(after[i - 1], chain[i], req, env, allowlist)
    IN  after[Len(chain)]

\* A handler's 200 stands for whatever it answers.
Reply(req, env, allowlist) ==
    IF Redirected(req, env)
    THEN [NoReply EXCEPT !.status = 301, !.outcome = "redirected"]
    ELSE Chained(req, env, allowlist)
=============================================================================
