\* Signals, failures and lost connections at any moment, two requests.
CONSTANTS
    Requests = {"g1", "g2"}
SPECIFICATION Spec
INVARIANTS
    CleanExitCutsNothing
    ExitCodeIsTrue
PROPERTIES
    ServiceEnds
