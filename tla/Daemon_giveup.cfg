\* Violation: one lost message uses up the deadline of all tries.
CONSTANTS
    Daemons = {"d1"}
    MaxRetries = 3
    MaxEvents = 2
SPECIFICATION SafeSpec
INVARIANTS
    GivenUpAfterAllTries
