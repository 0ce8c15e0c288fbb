\* All programs and environments, files that change three times.
SPECIFICATION Spec
CONSTANTS
    Environments <- SomeEnvironments
    Requests     <- SomeRequests
    SwaggerPages = {"/swagger/index.html"}
    Number       <- Numbers
    MaxChanges   = 3
INVARIANTS
    RunsVerified
    RepliesAreGuarded
PROPERTIES
    FilesHeal
    DaemonEmits
