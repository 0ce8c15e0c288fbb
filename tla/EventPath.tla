------------------------------ MODULE EventPath ------------------------------
(***************************************************************************)
(* What becomes of the data of an event on its whole way: the Daemon       *)
(* makes and publishes it, the Writer validates, sanitizes and saves it as *)
(* a point of InfluxDB, the Reader turns its row into JSON and the Client  *)
(* prints a line.  Other publishers may send to the same subjects.         *)
(* JetStream delivers a message at any time, and as often as it likes:     *)
(* Writer and Pipeline have the reasons.                                   *)
(*                                                                         *)
(* A message is a sequence of runs, words and blank space by turns, each   *)
(* with its length in bytes; runs that are equal stand for equal text.  A  *)
(* time is a number of nanoseconds.  A timestamp is a string, of which     *)
(* only what time.Parse(time.RFC3339) makes of it is kept: that layout     *)
(* accepts a fraction of seconds, too.                                     *)
(***************************************************************************)
EXTENDS Integers, SequencesExt

Blank(n) == [blank |-> TRUE, len |-> n]
Word(n)  == [blank |-> FALSE, len |-> n]

Messages   == Seq([blank : BOOLEAN, len : Nat])
Timestamps == [parses : BOOLEAN, time : Int]

\* len(s): the sum of the lengths of the runs up to the i-th, for the last i.
Length(m) ==
    LET sum[i \in 0..Len(m)] == IF i = 0 THEN 0 ELSE sum[i - 1] + m[i].len
    IN  sum[Len(m)]

CONSTANTS
    Ids,         \* what newEventID returns
    Instants,    \* times at which a Daemon makes an event
    Foreign,     \* events that other publishers may send
    Minima,      \* criticalities that the Client may ask for
    MaxSent      \* bound on the messages of the stream, for TLC

ASSUME EventPathAssumption ==
    /\ Instants \subseteq Nat /\ MaxSent \in Nat
    /\ Minima \subseteq 1..10
    /\ \A e \in Foreign : e.id \notin Ids
    /\ Foreign \subseteq [id : {e.id : e \in Foreign}, criticality : Int,
                          timestamp : Timestamps, message : Messages]

VARIABLES
    sent,       \* messages of the stream
    saved,      \* messages for which Save has returned nil
    rejected,   \* messages for which Handle has returned ErrInvalidEvent
    table,      \* points of events_tab
    shown       \* lines of the Client's table

vars == <<sent, saved, rejected, table, shown>>

-----------------------------------------------------------------------------
(* Daemon.                                                                 *)

\* "Failed authentication", "Suspicious connection blocked" and "Unexpected
\* process".
securityMessages ==
    {<<Word(6), Blank(1), Word(14)>>,
     <<Word(10), Blank(1), Word(10), Blank(1), Word(7)>>,
     <<Word(10), Blank(1), Word(7)>>}

\* RFC3339Nano loses nothing, and the layout of the Writer reads it.
Format(t) == [parses |-> TRUE, time |-> t]

NewEvent(id, c, t, m) ==
    [id |-> id, criticality |-> c, timestamp |-> Format(t), message |-> m]

-----------------------------------------------------------------------------
(* Writer: domain.Event, and the point of Save.                            *)

Validate(e) ==
    /\ e.timestamp.parses
    /\ e.message # <<>>
    /\ Length(e.message) <= 1000

\* Mutated form: space is collapsed, but not trimmed.
JoinUntrimmed(m) == [i \in DOMAIN m |-> IF m[i].blank THEN Blank(1) ELSE m[i]]

\* strings.Fields: the words up to the i-th run, for the last i.
Words(m) ==
    LET upTo[i \in 0..Len(m)] ==
            IF i = 0 THEN <<>>
            ELSE IF m[i].blank THEN upTo[i - 1]
            ELSE Append(upTo[i - 1], m[i])
    IN  upTo[Len(m)]

\* TrimSpace, and Join of Fields with single spaces.
Normalized(m) ==
    LET w == Words(m)
    IN  [i \in 1..(2 * Len(w) - (IF w = <<>> THEN 0 ELSE 1)) |->
            IF i % 2 = 1 THEN w[(i + 1) \div 2] ELSE Blank(1)]

\* Mutated form: one bound is forgotten.
ClampLow(c) == IF c < 1 THEN 1 ELSE c

Clamp(c) == IF c < 1 THEN 1 ELSE IF c > 10 THEN 10 ELSE c

Sanitize(e) == [e EXCEPT !.message = Normalized(@), !.criticality = Clamp(@)]

Severity(c) ==
    CASE c >= 9     -> "critical" [] c \in 7..8 -> "high" [] c \in 4..6 -> "medium"
      [] c \in 2..3 -> "low"      [] OTHER      -> "info"

Point(e) ==
    [time |-> e.timestamp.time, severity |-> Severity(e.criticality), id |-> e.id,
     criticality |-> e.criticality, message |-> e.message]

\* Mutated form: the identifier is no tag.
KeyWithoutId(p) == <<p.time, p.severity>>

\* What makes a point one point for InfluxDB: its time and its tags.
Key(p) == <<p.time, p.severity, p.id>>

-----------------------------------------------------------------------------
(* Reader and Client, from a row to a line.                                *)

\* EventResult and EventDTO: the identifier and the severity stay behind.
Result(p) == [timestamp |-> p.time, criticality |-> p.criticality, message |-> p.message]

\* Time.String, whose layout is not that of RFC3339.
TimeString(t) == [parses |-> FALSE, time |-> t]
Now == -1
DisplayTime(s) == IF s.parses THEN s.time ELSE Now

critColor(c) ==
    CASE c >= 9     -> "red"   [] c \in 7..8 -> "orange" [] c \in 5..6 -> "yellow"
      [] c \in 2..4 -> "green" [] OTHER      -> "white"

Truncate(m, n) == [of |-> m, length |-> IF Length(m) <= n THEN Length(m) ELSE n]

Columns(c) == [i \in 1..10 |-> IF i = c THEN critColor(c) ELSE ""]

Line(r) ==
    [time |-> DisplayTime(TimeString(r.timestamp)),
     message |-> Truncate(r.message, 35), columns |-> Columns(r.criticality)]

-----------------------------------------------------------------------------
Init == sent = {} /\ saved = {} /\ rejected = {} /\ table = {} /\ shown = <<>>

Send(e) ==
    /\ Cardinality(sent) < MaxSent
    /\ sent' = sent \cup {e}
    /\ UNCHANGED <<saved, rejected, table, shown>>

\* Replicas of the Daemon have clocks of their own.
Generate ==
    \E id \in Ids \ {e.id : e \in sent}, c \in 1..10, t \in Instants, m \in securityMessages :
        Send(NewEvent(id, c, t, m))

Publish == \E e \in Foreign \ sent : Send(e)

Reject(e) ==
    /\ ~Validate(e)
    /\ rejected' = rejected \cup {e}
    /\ UNCHANGED <<sent, saved, table, shown>>

Save(e) ==
    LET p == Point(Sanitize(e))
    IN  /\ Validate(e)
        /\ table' = {q \in table : Key(q) # Key(p)} \cup {p}
        /\ saved' = saved \cup {e}
        /\ UNCHANGED <<sent, rejected, shown>>

Display(min) ==
    LET rows == SetToSeq({p \in table : p.criticality >= min})
    IN  /\ shown' = [i \in DOMAIN rows |-> Line(Result(rows[i]))]
        /\ UNCHANGED <<sent, saved, rejected, table>>

Next ==
    \/ Generate
    \/ Publish
    \/ \E e \in sent : Reject(e) \/ Save(e)
    \/ \E min \in Minima : Display(min)

Spec == Init /\ [][Next]_vars

-----------------------------------------------------------------------------
(* Properties.                                                             *)

\* An event of a Daemon has a row of its own from its first Save on, with its
\* own time, criticality and message, one however often it is delivered and
\* whatever else is stored meanwhile at the same instant (comments of Save and
\* of NewEvent), and is never rejected.
RowPerEvent ==
    \A e \in sent : e.id \in Ids =>
        /\ e \notin rejected
        /\ e \in saved =>
            \E p \in table :
                /\ {q \in table : q.id = e.id} = {p}
                /\ Result(p) = [timestamp |-> e.timestamp.time,
                                criticality |-> e.criticality, message |-> e.message]

\* d is the criticality in range that is nearest to c.
Nearest(c, d) ==
    d \in 1..10 /\ (d = c \/ (c < 1 /\ d = 1) \/ (c > 10 /\ d = 10))

\* A row of whatever publisher holds the words of a message that was sent, in
\* their order, one space between two and none around them, and the nearest
\* criticality in range to the sender's, with the severity tabled above
\* Severity.
StoredIsNormalized ==
    \A p \in table : \E e \in saved :
        /\ p.id = e.id /\ p.time = e.timestamp.time
        /\ Words(p.message) = Words(e.message)
        /\ \A i \in DOMAIN p.message : (i % 2 = 0) = (p.message[i] = Blank(1))
        /\ p.message = <<>> \/ Len(p.message) % 2 = 1
        /\ Nearest(e.criticality, p.criticality)
        /\ p.criticality \in CASE p.severity = "info"     -> {1}
                               [] p.severity = "low"      -> 2..3
                               [] p.severity = "medium"   -> 4..6
                               [] p.severity = "high"     -> 7..8
                               [] p.severity = "critical" -> 9..10

\* Every line of the Client stands for a message that was sent: exactly one of
\* the columns 1..10 is marked, that of its criticality or the nearest there
\* is, because the Writer has seen to it, and the text fits the column.
LineShowsItsEvent ==
    \A i \in DOMAIN shown : \E e \in saved, c \in 1..10 :
        /\ {k \in 1..10 : shown[i].columns[k] # ""} = {c}
        /\ Nearest(e.criticality, c)
        /\ Words(shown[i].message.of) = Words(e.message)
        /\ shown[i].message.length <= 35

\* What documents say, and the model refutes.

\* "event message is required" (error of Validate), "message non-empty"
\* (README, Domain Validation Pipeline).
StoredHasMessage == \A p \in table : p.message # <<>>

\* "Distinct events never collide" (README, Idempotency).
EveryEventHasARow == \A e \in saved : \E p \in table : p = Point(Sanitize(e))

\* The column TIME is parsed from the event's timestamp, with the current time
\* as a fallback (displayTable).
TimeColumnIsEventTime ==
    \A i \in DOMAIN shown : \E e \in saved : shown[i].time = e.timestamp.time

\* "green (1-3), yellow (4-6), orange (7-8), red (9-10)" (README, Client).
ColorsAsDocumented ==
    \A i \in DOMAIN shown : \A c \in 1..10 :
        shown[i].columns[c] \in
            {"", IF c <= 3 THEN "green" ELSE IF c <= 6 THEN "yellow"
                 ELSE IF c <= 8 THEN "orange" ELSE "red"}
=============================================================================
