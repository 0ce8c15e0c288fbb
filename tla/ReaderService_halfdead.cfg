\* Violation: HTTP goes on when the NATS connection is closed.
CONSTANTS
    Requests = {"g1"}
SPECIFICATION Spec
PROPERTIES
    NoHalfDeadService
