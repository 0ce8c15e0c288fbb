\* Refuted, each of them: to see one, keep its line only.
CONSTANTS
    m1 = m1
    m2 = m2
    m3 = m3
    Msgs = {m1, m2}
    KindOf <- TwoValid
    MaxDeliver = 2
    WorkerCount = 1
    MaxAttempts = 2
    AutoAck = TRUE
    MaxCrashes = 1
    MaxStops = 1
    MaxConsumers = 1
SPECIFICATION SafeSpec
INVARIANTS
    \* Close leaves a handler at work
    StopLeavesNoHandler
    \* a valid event is given up without a dead letter
    PermanentFailureIsLogged
    \* an event is given up, and all its deliveries found the slots taken
    SaturatedIsRedelivered
PROPERTIES
    \* a retry follows the shutdown signal
    NoRetryAfterShutdown
