\* Violation: ready with a closed connection.
CONSTANTS
    Requests = {"g1"}
SPECIFICATION Spec
INVARIANTS
    ReadyMeansConnected
