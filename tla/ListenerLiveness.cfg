\* Two silos that may each come back, one message, two failures, and one delivery more
\* than the redeliveries they can lead to.
SPECIFICATION FairSpec
CONSTANTS
    s1 = s1
    s2 = s2
    NoSilo = NoSilo
    Silos = {s1, s2}
    MaxMessages = 1
    MaxDeliveries = 6
    MaxHosts = 4
    MaxFailures = 2
\* Publishers may stop, and then the silos have nothing to do.
CHECK_DEADLOCK FALSE
INVARIANTS
    DuplicatesBounded
    NeverTwiceAtOnce
PROPERTIES
    EveryCallEnds
    EveryMessageSettled
