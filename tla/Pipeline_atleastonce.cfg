\* Refuted: an event is through without a row or a dead letter.
CONSTANTS
    Events = {"e1"}
    MaxDeliver = 1
    WorkerCount = 1
    MaxAttempts = 2
    AutoAck = TRUE
    MaxCrashes = 1
    MaxStops = 1
    MaxConsumers = 2
SPECIFICATION SafeSpec
INVARIANTS
    AtLeastOnce
