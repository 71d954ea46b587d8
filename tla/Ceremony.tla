------------------------------ MODULE Ceremony ------------------------------
(***************************************************************************)
(* What Coordinator.Execute promises each peer of a session: the state     *)
(* machine of one Execute call, without messages or timers.  A peer elects *)
(* a leader statically, takes the role the election gives it, starts the   *)
(* process as leader or on a Start from the leader it follows, and ends    *)
(* completed or failed.  A failure of the process or of the leader may be  *)
(* retried under a newly elected leader that is none of the peers blamed   *)
(* for it; a peer left out of the working subset waits again for a Start   *)
(* from any leader.                                                        *)
(***************************************************************************)
EXTENDS FiniteSets

CONSTANTS
    Peers,         \* the peers of the session
    Candidates,    \* the peers that may lead (ValidCoordinators)
    StaticLeader,  \* the leader of the static election
    NoPeer,        \* no leader expected
    Retryable      \* whether failures of the process may be retried

ASSUME /\ Candidates \subseteq Peers /\ StaticLeader \in Candidates
       /\ NoPeer \notin Peers /\ Retryable \in BOOLEAN

VARIABLES
    phase,     \* idle, initiating, waiting, running, completed or failed
    leader,    \* the leader the peer follows, NoPeer when any will do
    excluded   \* the peers blamed by the last failure

vars == <<phase, leader, excluded>>

Active == {"initiating", "waiting", "running"}

TypeOK ==
    /\ phase \in [Peers -> {"idle", "completed", "failed"} \cup Active]
    /\ leader \in [Peers -> Peers \cup {NoPeer}]
    /\ excluded \in [Peers -> SUBSET Peers]

Init ==
    /\ phase = [p \in Peers |-> "idle"]
    /\ leader = [p \in Peers |-> NoPeer]
    /\ excluded = [p \in Peers |-> {}]

\* Role split: the leader initiates, every other peer waits for its Start.
TakeRole(p, c, ex) ==
    /\ phase' = [phase EXCEPT ![p] = IF c = p THEN "initiating" ELSE "waiting"]
    /\ leader' = [leader EXCEPT ![p] = c]
    /\ excluded' = [excluded EXCEPT ![p] = ex]

Elect(p) ==
    /\ phase[p] = "idle"
    /\ TakeRole(p, StaticLeader, {})

\* The process starts: on the leader itself, or on a peer that got a Start
\* from the leader it follows (any leader if it follows none) and not from
\* a peer it blamed.
Launch(p, s) ==
    /\ \/ phase[p] = "initiating" /\ s = p
       \/ /\ phase[p] = "waiting" /\ s # p
          /\ leader[p] \in {s, NoPeer} /\ s \notin excluded[p]
    /\ phase' = [phase EXCEPT ![p] = "running"]
    /\ leader' = [leader EXCEPT ![p] = s]
    /\ UNCHANGED excluded

\* Left out of the working subset: wait again, for a Start from anyone.
WaitAgain(p) ==
    /\ phase[p] = "waiting"
    /\ phase' = phase
    /\ leader' = [leader EXCEPT ![p] = NoPeer]
    /\ excluded' = [excluded EXCEPT ![p] = {}]

\* The failures that may be retried and the peers each one blames: a leader
\* that never sent Start, culprits named by the process, or none for a
\* transport failure.
Blamed(p) ==
    CASE phase[p] = "waiting" -> {{leader[p]} \ {NoPeer}}
      [] phase[p] = "running" -> SUBSET (Peers \ {p})
      [] OTHER                -> {}

Retry(p) ==
    /\ Retryable
    /\ \E ex \in Blamed(p), c \in Candidates : c \notin ex /\ TakeRole(p, c, ex)

Finish(p, result) ==
    /\ phase' = [phase EXCEPT ![p] = result]
    /\ leader' = [leader EXCEPT ![p] = NoPeer]
    /\ excluded' = [excluded EXCEPT ![p] = {}]

Complete(p) == phase[p] = "running" /\ Finish(p, "completed")

Fail(p) == phase[p] \in Active /\ Finish(p, "failed")

Next ==
    \E p \in Peers :
        \/ Elect(p) \/ WaitAgain(p) \/ Retry(p) \/ Complete(p) \/ Fail(p)
        \/ \E s \in Peers : Launch(p, s)

Spec == Init /\ [][Next]_vars
=============================================================================
