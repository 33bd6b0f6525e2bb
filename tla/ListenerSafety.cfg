\* Two messages and two failures, with one redelivery of either message or two of one.
SPECIFICATION Spec
CONSTANTS
    s1 = s1
    s2 = s2
    NoSilo = NoSilo
    Silos = {s1, s2}
    MaxMessages = 2
    MaxDeliveries = 3
    MaxHosts = 2
    MaxFailures = 2
SYMMETRY Symmetry
\* Publishers may stop, and then the silos have nothing to do.
CHECK_DEADLOCK FALSE
INVARIANTS
    TypeOK
    SettledAfterHandoff
    ExactlyOnePlace
    FailureFreeExactlyOnce
PROPERTY
    ImplementsHandoff
