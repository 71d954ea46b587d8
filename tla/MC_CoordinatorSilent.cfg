\* Four peers holding a key share, threshold 1.  The relayer of peer 1,
\* the static coordinator, is down; of the three others the retry's
\* coordinator signs with one of them and leaves the third out.  No process
\* faults, timeouts longer than deliveries, fair scheduling.
CONSTANTS
    Peers <- MCPeers4
    KeyHolders <- MCPeers4
    T = 1
    NoPeer = NoPeer
    Faults = FALSE
    Timing = "bounded"
    Process = "signing"
    Silent <- MCSilent
    FailMsgs = FALSE
SPECIFICATION FairSpec
PROPERTIES
    SubsetCompletes
\* Every peer that runs Execute returns in the end; the system then stops.
CHECK_DEADLOCK FALSE
