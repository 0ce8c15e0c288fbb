\* Refuted: the acknowledgement precedes the save.
CONSTANTS
    m1 = m1
    m2 = m2
    m3 = m3
    Msgs = {m1, m2}
    KindOf <- TwoValid
    MaxDeliver = 2
    WorkerCount = 1
    MaxAttempts = 2
    AutoAck = TRUE
    MaxCrashes = 1
    MaxStops = 1
    MaxConsumers = 1
SPECIFICATION SafeSpec
INVARIANTS
    AckAfterHandle
