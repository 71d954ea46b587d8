\* Signing among key holders 1 and 2, peer 3 without a key share.
\* Process runs may fail with culprits or a communication error and the
\* bully election may fail; timers may fire at any step and are the only
\* fairness assumed.
CONSTANTS
    Peers <- MCPeers
    KeyHolders <- MCOldKeyHolders
    T = 1
    NoPeer = NoPeer
    Faults = TRUE
    Timing = "free"
    Process = "signing"
    Silent <- MCNoSilent
    FailMsgs = FALSE
SPECIFICATION Spec
INVARIANTS
    RetryAvoidsOffender
PROPERTIES
    CeremonySpec
    Termination
\* All peers return in the end; the system then stops.
CHECK_DEADLOCK FALSE
