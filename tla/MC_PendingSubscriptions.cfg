\* Three signing Execute calls on one Coordinator, each with one of two
\* session ids.
CONSTANTS
    c1 = c1
    c2 = c2
    c3 = c3
    c4 = c4
    s1 = s1
    s2 = s2
    s3 = s3
    NoCall = NoCall
    Calls <- MCCalls
    Sessions <- MCSessions
    Kind <- MCAllSigning
    SidChoices <- MCAnySids
SPECIFICATION Spec
PROPERTIES
    StopRemovesOwnSubscription
\* Every call ends: returned, rejected, or failed to build its process.
CHECK_DEADLOCK FALSE
