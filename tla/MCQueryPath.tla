----------------------------- MODULE MCQueryPath -----------------------------
(***************************************************************************)
(* Instances of QueryPath for TLC.                                         *)
(***************************************************************************)
EXTENDS QueryPath, TLC

CONSTANTS e1, e2, e3, c1, c2, g1, g2

\* Two rows of one time and an older, less critical one.
Times == e1 :> 1 @@ e2 :> 2 @@ e3 :> 2
Crits == e1 :> 4 @@ e2 :> 9 @@ e3 :> 7

\* Two rows, the older one the more critical.
TwoTimes == e1 :> 1 @@ e2 :> 2
TwoCrits == e1 :> 9 @@ e2 :> 4

For(min, limit) == [form |-> "wellformed", min |-> min, limit |-> limit]
Malformed == [form |-> "malformed", min |-> 0, limit |-> 0]
NoReply   == [form |-> "noreply", min |-> 1, limit |-> 1]

\* Over NATS a query for one row and a message without reply subject, over
\* HTTP a query for two rows and one with a limit of zero.
AskAll == c1 :> For(1, 1) @@ c2 :> NoReply @@ g1 :> For(5, 2) @@ g2 :> For(10, 0)

\* Two clients at once, none over HTTP.
AskTwo == c1 :> For(1, 2) @@ c2 :> For(9, 1)
=============================================================================
