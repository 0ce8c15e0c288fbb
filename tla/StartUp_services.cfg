\* Two replicas of each service, requests that fail, crashes and orderly stops.
CONSTANTS
    Daemons = {"d1", "d2"}
    Writers = {"w1", "w2"}
    MaxFailures = 2
    MaxStops = 2
SPECIFICATION Spec
INVARIANTS
    TypeOK
    StoresExist
PROPERTIES
    StartFailsForCause
    ServicesComeUp
