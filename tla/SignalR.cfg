\* Every browser, with up to three messages and four failures.
SPECIFICATION FairSpec
CONSTANTS
    None = None
    Browsers <- AllBrowsers
    MaxMessages = 3
    MaxTimers = 2
    MaxFailures = 4
\* A page that is disconnected stays so: nothing is left to do.
CHECK_DEADLOCK FALSE
INVARIANTS
    ReconnectingIsLimited
    LossIsWatched
    AlwaysATry
PROPERTIES
    DisconnectedIsFinal
    ImplementsPageStream
    StartSettles
    MessagesArrive
