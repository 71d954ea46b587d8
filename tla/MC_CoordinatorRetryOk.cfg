\* Four peers holding a key share, threshold 2.  The relayer of peer 1,
\* the static coordinator, is down; the three others retry under peer 4
\* and their signing Run returns nil.  No process faults, timeouts longer
\* than deliveries.
CONSTANTS
    Peers <- MCPeers4
    KeyHolders <- MCPeers4
    T = 2
    NoPeer = NoPeer
    Faults = FALSE
    Timing = "bounded"
    Process = "signing"
    Silent <- MCSilent
    FailMsgs = FALSE
SPECIFICATION SafetySpec
INVARIANTS
    CompletedReturnsNil
CHECK_DEADLOCK FALSE
