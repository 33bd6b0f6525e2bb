\* One request, one device and no failure.
SPECIFICATION Spec
CONSTANTS
    r1 = r1
    r2 = r2
    d1 = d1
    d2 = d2
    Requests = {r1}
    Devices = {d1}
    NoDevice = NoDevice
    Garbled = Garbled
    GuidEmpty = GuidEmpty
    NoAnswer = NoAnswer
    RetryTicks = 3
    MaxFailures = 0
\* When every request has returned nothing more need happen.
CHECK_DEADLOCK FALSE
PROPERTY
    NullOnlyWhenNotReady
