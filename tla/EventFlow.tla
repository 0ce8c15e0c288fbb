------------------------------- MODULE EventFlow -------------------------------
(***************************************************************************)
(* The life of events from the Daemon to the table, as the whole pipeline  *)
(* shows it: an event is persisted, its Daemon may be told so, it is open  *)
(* until JetStream has done with it, and it may be stored, early or late.  *)
(* Nothing is stored or told that is not persisted, and nothing that was   *)
(* persisted, told or stored is taken back.  Only all events at once can   *)
(* be opened again: by a new consumer, which starts from the beginning.    *)
(***************************************************************************)
CONSTANT Events

VARIABLES
    persisted,  \* the events of the stream
    told,       \* events for which PublishEvent has returned nil
    open,       \* persisted events that JetStream still has to deliver
    stored      \* events that the table holds

vars == <<persisted, told, open, stored>>

Init == persisted = {} /\ told = {} /\ open = {} /\ stored = {}

Persist(e) ==
    /\ e \notin persisted
    /\ persisted' = persisted \cup {e}
    /\ open' = open \cup {e}
    /\ UNCHANGED <<told, stored>>

Tell(e) ==
    /\ e \in persisted
    /\ told' = told \cup {e}
    /\ UNCHANGED <<persisted, open, stored>>

\* One write may store the events of a batch.
Store(S) ==
    /\ S \subseteq persisted
    /\ stored' = stored \cup S
    /\ UNCHANGED <<persisted, told, open>>

Close(e) ==
    /\ e \in open
    /\ open' = open \ {e}
    /\ UNCHANGED <<persisted, told, stored>>

Replay == open' = persisted /\ UNCHANGED <<persisted, told, stored>>

Next ==
    \/ \E e \in Events : Persist(e) \/ Tell(e) \/ Close(e)
    \/ \E S \in SUBSET Events : Store(S)
    \/ Replay

Spec == Init /\ [][Next]_vars
=============================================================================
