\* The comment above writeWorker, refuted: a send that races Close.
CONSTANTS
    c1 = c1
    c2 = c2
    c3 = c3
    c4 = c4
    p1 = p1
    p2 = p2
    p3 = p3
    w1 = w1
    w2 = w2
    Calls <- ThreeCalls
    Points = {p1, p2, p3}
    PointOf <- ThreePointOf
    Unparsable = {}
    Workers = {w1}
    BatchSize = 2
SPECIFICATION SafeSpec
INVARIANTS
    EveryRequestIsAnswered
