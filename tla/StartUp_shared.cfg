\* Two Writers that find the consumer unbound.
CONSTANTS
    Daemons = {"d1"}
    Writers = {"w1", "w2"}
    MaxFailures = 1
    MaxStops = 1
SPECIFICATION SafeSpec
INVARIANT
    OneIsFed
