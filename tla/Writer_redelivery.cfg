\* One event, two deliveries, two slots: handlers of the same event overlap; a crash; an orderly stop; liveness.
CONSTANTS
    m1 = m1
    m2 = m2
    m3 = m3
    Msgs = {m1}
    KindOf <- OneValid
    MaxDeliver = 2
    WorkerCount = 2
    MaxAttempts = 2
    AutoAck = TRUE
    MaxCrashes = 1
    MaxStops = 1
    MaxConsumers = 1
SPECIFICATION Spec
INVARIANTS
    NilMeansStored
    DeadLetterIsEarned
PROPERTIES
    CloseReturns
    EveryMessageEnds
