\* Signing between peers 1 and 2, both key holders.  Timers free: every
\* timeout may race every delivery, the one retry of handleError included;
\* processes do not fail; the relayer of a coordinator may broadcast Fail
\* at any point of its ceremony, in either attempt.
CONSTANTS
    Peers <- MCOldKeyHolders
    KeyHolders <- MCOldKeyHolders
    T = 1
    NoPeer = NoPeer
    Faults = FALSE
    Timing = "free"
    Process = "signing"
    Silent <- MCNoSilent
    FailMsgs = TRUE
SPECIFICATION Spec
INVARIANTS
    TypeOK
PROPERTIES
    Termination
    CeremonySpec
\* Every peer calls Execute once and Execute returns: the system stops when
\* all peers are done; Termination checks that nothing stops earlier.
CHECK_DEADLOCK FALSE
