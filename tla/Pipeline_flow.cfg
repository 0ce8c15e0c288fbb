\* One event, one delivery per consumer, a crash, an orderly stop that may delete the consumer.
CONSTANTS
    Events = {"e1"}
    MaxDeliver = 1
    WorkerCount = 1
    MaxAttempts = 2
    AutoAck = TRUE
    MaxCrashes = 1
    MaxStops = 1
    MaxConsumers = 2
SPECIFICATION Spec
INVARIANTS
    LossHasCause
PROPERTIES
    StopReplays
    ImplementsEventFlow
