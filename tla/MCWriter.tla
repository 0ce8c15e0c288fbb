------------------------------ MODULE MCWriter ------------------------------
(***************************************************************************)
(* Instances of Writer for TLC.                                            *)
(***************************************************************************)
EXTENDS Writer, TLC

CONSTANTS m1, m2, m3

\* One message that is delivered again and again.
OneValid == m1 :> "valid"

\* Two valid events that compete for the semaphore.
TwoValid == m1 :> "valid" @@ m2 :> "valid"

\* One of each kind.
EachKind == m1 :> "valid" @@ m2 :> "invalid" @@ m3 :> "malformed"

\* States after the deletion of the consumer are looked at, but not the life of
\* the next one, which is the matter of Pipeline.
FirstConsumer == made = 1
=============================================================================
