\* Two activations at once, three start messages, a version for every write.
SPECIFICATION FairSpec
CONSTANTS
    a1 = a1
    a2 = a2
    d1 = d1
    d2 = d2
    None = None
    Activations = {a1, a2}
    Devices = {d1, d2}
    EmptyState <- MCEmptyState
    MaxVersions = 7
    MaxFailures = 2
    MaxStarts = 3
\* Pages may stop sending start messages, and then the grain has nothing to do.
CHECK_DEADLOCK FALSE
INVARIANTS
    MappingsThere
    ListeningIsPersisted
    PersistedWasAnnounced
PROPERTIES
    OnlyBlindWritesForget
    EveryStartListened
