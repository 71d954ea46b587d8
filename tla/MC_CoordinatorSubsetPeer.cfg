\* Three key holders, threshold 1, no process faults, timeouts longer than
\* deliveries: checked for an error returned by any peer.
CONSTANTS
    Peers <- MCPeers
    KeyHolders <- MCKeyHolders
    T = 1
    NoPeer = NoPeer
    Faults = FALSE
    Timing = "bounded"
    Process = "signing"
    Silent <- MCNoSilent
    FailMsgs = FALSE
SPECIFICATION Spec
INVARIANTS
    NoPeerFails
CHECK_DEADLOCK FALSE
