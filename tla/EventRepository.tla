--------------------------- MODULE EventRepository ---------------------------
(***************************************************************************)
(* What the outbound port EventRepository promises to the use case that    *)
(* calls it (internal/writer/ports/outbound.go), with no word of how:      *)
(* a call of Save either returns nil, and then the point of its event is   *)
(* stored, or returns an error, and then the caller knows nothing: the     *)
(* point may be stored already, or later, or never.  Every call returns.   *)
(*                                                                         *)
(* Storing a point is an upsert on the point's identity (timestamp, tags   *)
(* severity and event_id), so the table is the set of the points it holds  *)
(* and storing a point twice is storing it once.                           *)
(***************************************************************************)
CONSTANTS
    Calls,      \* invocations of Save, each made at most once
    Points,     \* identities of points
    PointOf     \* the point a call asks to store

VARIABLES
    call,       \* call[c]: what the caller of c can see
    rows        \* the points the database holds

vars == <<call, rows>>

TypeOK ==
    /\ call \in [Calls -> {"idle", "saving", "ok", "error"}]
    /\ rows \subseteq Points

Init ==
    /\ call = [c \in Calls |-> "idle"]
    /\ rows = {}

Start(c) ==
    /\ call[c] = "idle"
    /\ call' = [call EXCEPT ![c] = "saving"]
    /\ UNCHANGED rows

\* Points that some call asked for are stored; the call may have returned.
Store ==
    /\ \E S \in SUBSET {PointOf[c] : c \in {d \in Calls : call[d] # "idle"}} :
          rows' = rows \cup S
    /\ UNCHANGED call

ReturnOk(c) ==
    /\ call[c] = "saving"
    /\ PointOf[c] \in rows
    /\ call' = [call EXCEPT ![c] = "ok"]
    /\ UNCHANGED rows

\* An error may be returned at once (an unusable event) or after any delay.
ReturnError(c) ==
    /\ call[c] \in {"idle", "saving"}
    /\ call' = [call EXCEPT ![c] = "error"]
    /\ UNCHANGED rows

Return(c) == ReturnOk(c) \/ (call[c] = "saving" /\ ReturnError(c))

Next ==
    \/ Store
    \/ \E c \in Calls : Start(c) \/ ReturnOk(c) \/ ReturnError(c)

SafeSpec == Init /\ [][Next]_vars
Spec == SafeSpec /\ \A c \in Calls : WF_vars(Return(c))

-----------------------------------------------------------------------------
\* A call that returned nil has its point in the database, now and for good.
OkIsStored == \A c \in Calls : call[c] = "ok" => PointOf[c] \in rows
=============================================================================
