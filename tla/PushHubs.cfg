\* Two workers and two hubs; no symmetry, because two properties are temporal.
SPECIFICATION FairSpec
CONSTANTS
    w1 = w1
    w2 = w2
    h1 = h1
    h2 = h2
    m1 = m1
    Workers = {w1, w2}
    Hubs = {h1, h2}
    LocalHub = h1
    Messages = {m1}
    MaxFailures = 1
    MaxChanges = 1
INVARIANTS
    TableIsLastRefresh
    OncePerDelivery
PROPERTIES
    TablesConverge
    MessagesWakeHubs
