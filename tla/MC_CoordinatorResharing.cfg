\* Resharing to a new peer 3 with no process faults, timeouts longer than
\* deliveries, fair scheduling.
CONSTANTS
    Peers <- MCPeers
    KeyHolders <- MCOldKeyHolders
    T = 1
    NoPeer = NoPeer
    Faults = FALSE
    Timing = "bounded"
    Process = "resharing"
    Silent <- MCNoSilent
    FailMsgs = FALSE
SPECIFICATION FairSpec
PROPERTIES
    SubsetCompletes
\* All peers return in the end; the system then stops.
CHECK_DEADLOCK FALSE
