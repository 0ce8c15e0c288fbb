\* Refuted, each of them: to see one, keep its line only.
SPECIFICATION Spec
CONSTANTS
    Ids       = {d1, d2}
    Instants  <- SomeInstants
    Foreign   <- OddEvents
    Minima    = {1, 5, 10}
    MaxSent   = 2
INVARIANTS
    \* a message of blanks passes Validate, and Sanitize empties it
    StoredHasMessage
    \* events without an identifier overwrite one another
    EveryEventHasARow
    \* the Client prints the current time
    TimeColumnIsEventTime
    \* the colours have other bounds than the README
    ColorsAsDocumented
