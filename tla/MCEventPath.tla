----------------------------- MODULE MCEventPath -----------------------------
(***************************************************************************)
(* Instances of EventPath for TLC.                                         *)
(***************************************************************************)
EXTENDS EventPath

Stamp(t) == [parses |-> TRUE, time |-> t]
NoStamp  == [parses |-> FALSE, time |-> 0]

SomeInstants == {0, 1, 2}

OddMessages ==
    {<<>>, <<Blank(1)>>, <<Word(1)>>, <<Word(1000)>>, <<Word(1001)>>,
     <<Blank(1), Word(1), Blank(2)>>, <<Word(1), Blank(2), Word(1)>>,
     <<Blank(500), Word(499), Blank(1)>>, <<Blank(500), Word(500), Blank(1)>>,
     <<Word(18), Blank(1), Word(16)>>, <<Word(18), Blank(2), Word(17)>>}

\* Publishers with and without identifiers: all messages with one criticality,
\* all criticalities around the bounds with one message.
OddEvents ==
    [id : {""}, criticality : {5}, timestamp : {Stamp(0)}, message : OddMessages]
    \cup [id : {"", "x"}, criticality : -1..12, timestamp : {Stamp(0), Stamp(1), NoStamp},
          message : {<<Word(3)>>}]
=============================================================================
