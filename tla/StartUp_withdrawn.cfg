\* Two Writers, one of which is stopped for good.
CONSTANTS
    Daemons = {"d1"}
    Writers = {"w1", "w2"}
    MaxFailures = 1
    MaxStops = 1
SPECIFICATION Spec
PROPERTY
    RemainingIsFed
