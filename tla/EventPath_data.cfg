SPECIFICATION Spec
CONSTANTS
    Ids       = {d1, d2}
    Instants  <- SomeInstants
    Foreign   <- OddEvents
    Minima    = {1, 5, 10}
    MaxSent   = 2
INVARIANTS
    RowPerEvent
    StoredIsNormalized
    LineShowsItsEvent
