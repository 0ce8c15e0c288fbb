\* Rows that are stored between a query and its answer, a Reader that stops and
\* starts, clients that time out, invalid and unanswerable messages.
CONSTANTS
    e1 = e1
    e2 = e2
    e3 = e3
    c1 = c1
    c2 = c2
    g1 = g1
    g2 = g2
    Events = {e1, e2}
    TimeOf <- TwoTimes
    CritOf <- TwoCrits
    Readers = {"r1"}
    Queries = {c1, c2}
    Gets = {g1, g2}
    Ask <- AskAll
    MaxStops = 1
SPECIFICATION Spec
INVARIANTS
    AnswersAreRight
    OneReplyEach
PROPERTIES
    InboxIsServed
