\* One message of each kind and one slot: saturation, Term, Nak; an orderly stop that deletes the consumer.
CONSTANTS
    m1 = m1
    m2 = m2
    m3 = m3
    Msgs = {m1, m2, m3}
    KindOf <- EachKind
    MaxDeliver = 1
    WorkerCount = 1
    MaxAttempts = 2
    AutoAck = TRUE
    MaxCrashes = 0
    MaxStops = 1
    MaxConsumers = 2
SPECIFICATION SafeSpec
CONSTRAINT
    FirstConsumer
INVARIANTS
    TypeOK
    SlotsMatchHandlers
    EndHasCause
