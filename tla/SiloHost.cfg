\* Command lines of up to four words; the program ends.
SPECIFICATION Spec
CONSTANTS
    Plains = {"alpha", "beta"}
    Values = {"id1", "id2"}
    MaxWords = 4
    None = None
CHECK_DEADLOCK FALSE
INVARIANTS
    HostAsDeclared
    RejectedNeverRuns
