\* Timers free, processes do not fail, and the relayer of a coordinator may
\* broadcast Fail at any point of its ceremony, in either attempt.
CONSTANTS
    Peers <- MCPeers
    KeyHolders <- MCKeyHolders
    T = 1
    NoPeer = NoPeer
    Faults = FALSE
    Timing = "free"
    Process = "signing"
    Silent <- MCNoSilent
    FailMsgs = TRUE
SPECIFICATION SafetySpec
PROPERTIES
    FailEndsAttempt
\* Every peer calls Execute once and Execute returns: the system stops when
\* all peers are done.
CHECK_DEADLOCK FALSE
