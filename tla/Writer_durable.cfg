\* Refuted: draining deletes the durable consumer that this process has made.
CONSTANTS
    m1 = m1
    m2 = m2
    m3 = m3
    Msgs = {m1}
    KindOf <- OneValid
    MaxDeliver = 2
    WorkerCount = 2
    MaxAttempts = 2
    AutoAck = TRUE
    MaxCrashes = 1
    MaxStops = 1
    MaxConsumers = 2
SPECIFICATION SafeSpec
INVARIANTS
    DurableSurvives
