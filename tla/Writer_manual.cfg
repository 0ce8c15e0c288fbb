\* The code with nats.ManualAck(): what the contract of the port is worth then
\* (theorem ManualAckIsTrue of WriterProofs).
CONSTANTS
    m1 = m1
    m2 = m2
    m3 = m3
    Msgs = {m1}
    KindOf <- OneValid
    MaxDeliver = 3
    WorkerCount = 2
    MaxAttempts = 2
    AutoAck = FALSE
    MaxCrashes = 1
    MaxStops = 1
    MaxConsumers = 1
SPECIFICATION SafeSpec
INVARIANTS
    AckAfterHandle
    AckMeansStored
