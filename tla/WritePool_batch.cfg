\* One worker, a channel of two, four calls: back-pressure and full batches.
CONSTANTS
    c1 = c1
    c2 = c2
    c3 = c3
    c4 = c4
    p1 = p1
    p2 = p2
    p3 = p3
    w1 = w1
    w2 = w2
    Calls <- FourCalls
    Points = {p1, p2, p3}
    PointOf <- FourPointOf
    Unparsable = {}
    Workers = {w1}
    BatchSize = 2
SPECIFICATION SafeSpec
SYMMETRY CallSymmetry
INVARIANTS
    TypeOK
    SaveOkIsStored
    ExactlyOneAnswer
