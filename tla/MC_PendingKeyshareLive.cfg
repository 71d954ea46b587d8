\* Four Execute calls on one peer, two resharings and two signings, over
\* three session ids, calls of different kinds never sharing one; fair
\* scheduling of the calls' goroutines and of the keyshare mutex.
CONSTANTS
    c1 = c1
    c2 = c2
    c3 = c3
    c4 = c4
    s1 = s1
    s2 = s2
    s3 = s3
    NoCall = NoCall
    Calls <- MCCalls4
    Sessions <- MCSessions3
    Kind <- MCKind4
    SidChoices <- MCSidsByKind
SPECIFICATION FairSpec
INVARIANTS
    KeyshareReleased
PROPERTIES
    EveryCallEnds
\* Every call ends: returned, rejected, or failed to build its process.
CHECK_DEADLOCK FALSE
