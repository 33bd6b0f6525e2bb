\* Two requests, two devices and one failure.
SPECIFICATION Spec
CONSTANTS
    r1 = r1
    r2 = r2
    d1 = d1
    d2 = d2
    Requests = {r1, r2}
    Devices = {d1, d2}
    NoDevice = NoDevice
    Garbled = Garbled
    GuidEmpty = GuidEmpty
    NoAnswer = NoAnswer
    RetryTicks = 2
    MaxFailures = 1
SYMMETRY Symmetry
\* When every request has returned nothing more need happen.
CHECK_DEADLOCK FALSE
INVARIANTS
    TypeOK
    AnswersOwnRequest
PROPERTIES
    KnownDeviceHasQueue
    ImplementsReply
