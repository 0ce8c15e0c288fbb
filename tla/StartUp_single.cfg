\* A single Writer, as in docker-compose.yaml: while it runs, it is fed.
CONSTANTS
    Daemons = {"d1"}
    Writers = {"w1"}
    MaxFailures = 2
    MaxStops = 3
SPECIFICATION SafeSpec
INVARIANT
    RunningIsFed
