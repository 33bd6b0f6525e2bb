\* Two calls, while queues are declared and connections fail.
SPECIFICATION Spec
CONSTANTS
    c1 = c1
    c2 = c2
    Calls = {c1, c2}
    MaxFailures = 3
SYMMETRY Symmetry
\* When every call has ended nothing more need happen.
CHECK_DEADLOCK FALSE
INVARIANTS
    SentIsQueued
    LeaksOnlyOnFailure
