\* Refuted, each of them: to see one, keep its line only.
SPECIFICATION Spec
CONSTANTS
    Environments <- SomeEnvironments
    Requests     <- SomeRequests
    SwaggerPages = {"/swagger/index.html"}
    Number       <- Numbers
    MaxChanges   = 3
INVARIANTS
    \* a Writer that is named no certificate runs without
    AlwaysMutual
    \* the two subjects have different defaults
    DefaultsMeet
    \* nothing sets AppEnv
    SwaggerInDevelopmentOnly
    DevelopmentAllowsAll
    \* the router redirects before any handler
    EveryReplyHasHeaders
PROPERTY
    \* a Reader that has found no CA file runs on without it
    ReaderReads
