\* Two Writers with one consumer.
CONSTANTS
    Daemons = {"d1"}
    Writers = {"w1", "w2"}
    MaxFailures = 0
    MaxStops = 0
SPECIFICATION Spec
PROPERTY
    EveryReplicaRuns
