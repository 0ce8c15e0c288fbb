\* Lost messages and answers, refusals, a closed connection, a signal, crashes.
CONSTANTS
    Daemons = {"d1"}
    MaxRetries = 3
    MaxEvents = 2
SPECIFICATION Spec
INVARIANTS
    TypeOK
    PersistedOnce
    PersistedInOrder
PROPERTIES
    StopEnds
    ImplementsPublisher
