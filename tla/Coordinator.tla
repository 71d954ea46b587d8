---------------------------- MODULE Coordinator ----------------------------
(***************************************************************************)
(* The session coordinator of src/tss_util/tss/coordinator.go, run by      *)
(* every peer of one TSS session (one session id), with the in-memory bus  *)
(* of src/tss_util/tss/test/communication.go between the peers and the     *)
(* frost Signing process (src/tss_util/tss/frost/signing/signing.go) as    *)
(* the process being coordinated.                                          *)
(*                                                                         *)
(* Each peer calls Coordinator.Execute once.  Execute elects a coordinator *)
(* statically, then runs two goroutines in a cancel-on-error pool: start   *)
(* (initiate on the coordinator, waitForStart on the others) and           *)
(* watchExecution (the TssTimeout watchdog).  The first error of that pool *)
(* goes to handleError, which retries once (bully election, a second pool  *)
(* with its own watchdog) or returns the error.  The goroutines of one     *)
(* pool interact only through cancellation, so a pool is modelled by the   *)
(* control point of its start goroutine (pc) and the watchdog is an        *)
(* action that ends the pool.                                              *)
(*                                                                         *)
(* Time is abstracted: a timer may fire at any step (Timing = "free"), or  *)
(* only when no message or computation step is possible (Timing =          *)
(* "bounded": timeouts of minutes are longer than any delivery) and, for   *)
(* CoordinatorTimeout, only while the coordinator is not re-broadcasting   *)
(* Initiate every InitiatePeriod (15s against 3min).                       *)
(***************************************************************************)
EXTENDS Naturals, FiniteSets, FiniteSetsExt

CONSTANTS
    Peers,       \* the peer ids of the peer store, ordered (static election)
    KeyHolders,  \* key.Peers: the peers with a key share (ValidCoordinators)
    T,           \* key.Threshold
    NoPeer,      \* peer.ID(""): no expected coordinator
    Faults,      \* whether Run may fail (culprit or communication error)
    Timing,      \* "free" or "bounded", see above
    Process,     \* "signing" or "resharing"
    Silent,      \* peers whose relayer is down: they never call Execute
    FailMsgs     \* whether a coordinator's relayer may broadcast Fail

ASSUME /\ KeyHolders \subseteq Peers /\ Peers \subseteq Nat
       /\ NoPeer \notin Peers
       /\ T \in Nat /\ T + 1 <= Cardinality(KeyHolders)
       /\ Faults \in BOOLEAN /\ Timing \in {"free", "bounded"}
       /\ Process \in {"signing", "resharing"}
       /\ Silent \subseteq Peers /\ FailMsgs \in BOOLEAN

VARIABLES
    pending,     \* pending[p]: c.pendingProcesses[sessionID] on peer p
    pc,          \* where peer p's Execute is
    attempt,     \* 1: the pool of Execute; 2: the pool of handleError
    coord,       \* the coordinator argument of start/waitForStart
    excl,        \* excludedPeers of the current attempt
    readyPeers,  \* readyPeers of initiate
    subset,      \* the peer subset (start params) the process runs with
    outcome,     \* what Execute returned: "none", "ok" or "error"
    runOk,       \* whether the peer's process Run returned nil
    msgs         \* messages handed to the bus and not yet consumed

vars == <<pending, pc, attempt, coord, excl, readyPeers, subset, outcome, runOk, msgs>>

PC == {"idle", "initiate", "waitStart", "running", "ran", "done"}
Msg(t, f, d, s) == [type |-> t, from |-> f, to |-> d, params |-> s]
Messages ==
    [type : {"initiate", "ready", "start", "fail"}, from : Peers, to : Peers,
     params : SUBSET Peers]

TypeOK ==
    /\ pending \in [Peers -> BOOLEAN]
    /\ pc \in [Peers -> PC]
    /\ attempt \in [Peers -> 0..2]
    /\ coord \in [Peers -> Peers \cup {NoPeer}]
    /\ excl \in [Peers -> SUBSET Peers]
    /\ readyPeers \in [Peers -> SUBSET Peers]
    /\ subset \in [Peers -> SUBSET Peers]
    /\ outcome \in [Peers -> {"none", "ok", "error"}]
    /\ runOk \in [Peers -> BOOLEAN]
    /\ msgs \subseteq Messages

(***************************************************************************)
(* The process: frost Signing or frost Resharing (Process).  Signing runs  *)
(* the first Threshold+1 ready key holders and is retryable; Resharing     *)
(* runs every peer of the peer store (new ones included), needs all of     *)
(* them ready and is not retryable.                                        *)
(***************************************************************************)
readyParticipants(ready) == ready \cap KeyHolders

SigningReady(ready) == Cardinality(readyParticipants(ready)) = T + 1

\* SortPeersForSession is a fixed order of the peers; the id order stands
\* for it.  StartParams takes the first Threshold+1 ready participants.
SigningStartParams(ready) ==
    LET rp == readyParticipants(ready)
    IN  {x \in rp : Cardinality({y \in rp : y < x}) < T + 1}

\* Variant of Resharing.Ready that counts the peer store without the host.
ResharingReadyShort(ready) == Cardinality(ready) = Cardinality(Peers) - 1

\* len(readyPeers) == len(Peerstore().Peers()); the peer store holds the
\* host itself, readyPeers has no duplicates.
ResharingReady(ready) == Cardinality(ready) = Cardinality(Peers)

\* Resharing.Run refreshes the key among Peerstore().Peers() and the host,
\* whatever its start params say.
ResharingSubset == Peers

Ready(ready) ==
    IF Process = "signing" THEN SigningReady(ready) ELSE ResharingReady(ready)

StartParams(ready) ==
    IF Process = "signing" THEN SigningStartParams(ready) ELSE ResharingSubset

\* Signing.Run returns SubsetError when the host is not in the subset.
InSubset(p, params) == Process = "resharing" \/ p \in params

\* Signing.Retryable, Resharing.Retryable
Retryable == Process = "signing"

\* The subsets a ceremony of the process can run with.
Subsets ==
    IF Process = "signing" THEN kSubset(T + 1, KeyHolders) ELSE {ResharingSubset}

\* ValidCoordinators: key.Peers.  Signing is built only from a loaded key
\* share (NewSigning fails otherwise); NewResharing gives a peer without
\* one an empty key, whose Peers list is empty.
ValidCoordinators(p) ==
    IF Process = "resharing" /\ p \notin KeyHolders THEN {} ELSE KeyHolders

\* The static election of Execute, its error dropped: the lowest candidate,
\* or peer.ID("") when there is none (spec section 4.2).
StaticCoordinator(p) ==
    IF ValidCoordinators(p) = {} THEN NoPeer ELSE Min(ValidCoordinators(p))

(***************************************************************************)
(* The bus.  Broadcast hands one message per target to the bus (the test   *)
(* bus skips the sender itself).  ReceiveMessage pushes into the channel   *)
(* subscribed for (session, type) when the delivery goroutine runs; a      *)
(* message for which no loop is reading blocks that goroutine for ever,    *)
(* i.e. it is lost.                                                        *)
(***************************************************************************)
Broadcast(t, f, s) == {Msg(t, f, d, s) : d \in Peers \ {f}}

Reading(p, t) ==
    \/ t = "ready" /\ pc[p] = "initiate"
    \/ t \in {"initiate", "start"} /\ pc[p] = "waitStart"
    \/ t = "fail" /\ pc[p] \in {"initiate", "waitStart", "running", "ran"}

(***************************************************************************)
(* Coordinator.start with the messages net already sent in this step:      *)
(* initiate (subscribe Ready, broadcastInitiateMsg) or waitForStart.       *)
(***************************************************************************)
start(p, c, ex, att, net) ==
    /\ coord' = [coord EXCEPT ![p] = c]
    /\ excl' = [excl EXCEPT ![p] = ex]
    /\ attempt' = [attempt EXCEPT ![p] = att]
    /\ UNCHANGED <<outcome, runOk>>
    /\ \/ /\ c = p
          /\ pc' = [pc EXCEPT ![p] = "initiate"]
          /\ readyPeers' = [readyPeers EXCEPT ![p] = {p}]
          /\ msgs' = net \cup Broadcast("initiate", p, {})
       \/ /\ c # p
          /\ pc' = [pc EXCEPT ![p] = "waitStart"]
          /\ readyPeers' = [readyPeers EXCEPT ![p] = {}]
          /\ msgs' = net

\* Execute returns: the deferred cleanup clears the pending flag; the locals
\* of the returned calls are gone.
Return(p, res, net) ==
    /\ pc' = [pc EXCEPT ![p] = "done"]
    /\ pending' = [pending EXCEPT ![p] = FALSE]
    /\ outcome' = [outcome EXCEPT ![p] = res]
    /\ runOk' = [runOk EXCEPT ![p] = @ \/ res = "ok"]
    /\ attempt' = [attempt EXCEPT ![p] = 0]
    /\ coord' = [coord EXCEPT ![p] = NoPeer]
    /\ excl' = [excl EXCEPT ![p] = {}]
    /\ readyPeers' = [readyPeers EXCEPT ![p] = {}]
    /\ msgs' = net

\* The bully elector over the candidates (not under src/, spec section 4.2):
\* the highest-priority candidate that answers its pings wins, the silent
\* ones are presumed down, and with none left the election times out.
\* Priority is taken to be the peer id.  With Faults, pings may be lost
\* and the election may time out, so any candidate or an error results.
BullyResults(cands) ==
    IF Faults THEN cands \cup {NoPeer}
    ELSE IF cands \ Silent = {} THEN {NoPeer} ELSE {Max(cands \ Silent)}

\* Variant of retry that elects over all of ValidCoordinators, the
\* excluded peers not taken out of the candidates.
retryKeepsOffender(p, ex, net) ==
    \E c \in BullyResults(ValidCoordinators(p)) :
        IF c = NoPeer THEN Return(p, "error", net)
                      ELSE /\ start(p, c, ex, 2, net)
                           /\ UNCHANGED pending

\* retry: bully election over ValidCoordinators minus the excluded peers.
retry(p, ex, net) ==
    \E c \in BullyResults(ValidCoordinators(p) \ ex) :
        IF c = NoPeer THEN Return(p, "error", net)
                      ELSE /\ start(p, c, ex, 2, net)
                           /\ UNCHANGED pending

(***************************************************************************)
(* The end of a pool with error err (offenders: the peer of a              *)
(* CoordinatorError, the culprits of a tss.Error): Execute's check of      *)
(* Retryable, then handleError's dispatch.  An error of the second pool is *)
(* returned as it is.                                                      *)
(***************************************************************************)
\* Variant of handleError that dispatches the errors of its own pool again
\* (a retry of the retry), counting the attempts.
handleErrorRetriesAgain(p, err, offenders, net) ==
    IF ~Retryable THEN Return(p, "error", net)
    ELSE \E c \in BullyResults(ValidCoordinators(p) \ offenders) :
             IF c = NoPeer THEN Return(p, "error", net)
                           ELSE /\ start(p, c, offenders, attempt[p] + 1, net)
                                /\ UNCHANGED pending

\* Variant of handleError whose dispatch has no CoordinatorError case: an
\* unresponsive coordinator is returned as an error.
handleErrorNoCoordinatorCase(p, err, offenders, net) ==
    IF attempt[p] = 2 \/ ~Retryable THEN Return(p, "error", net)
    ELSE CASE err = "culprit" -> retry(p, offenders, net)
           [] err = "comm"   -> retry(p, {}, net)
           [] err = "subset" -> /\ start(p, NoPeer, {}, 2, net)
                                /\ UNCHANGED pending
           [] OTHER          -> Return(p, "error", net)

\* Variant of handleError that takes the watchdog's Fail error for a
\* transport failure and retries it with no exclusion.
handleErrorRetriesFail(p, err, offenders, net) ==
    IF attempt[p] = 2 \/ ~Retryable THEN Return(p, "error", net)
    ELSE CASE err \in {"coordinator", "culprit"} -> retry(p, offenders, net)
           [] err \in {"comm", "fail"} -> retry(p, {}, net)
           [] err = "subset" -> /\ start(p, NoPeer, {}, 2, net)
                                /\ UNCHANGED pending
           [] OTHER          -> Return(p, "error", net)

handleError(p, err, offenders, net) ==
    IF attempt[p] = 2 \/ ~Retryable THEN Return(p, "error", net)
    ELSE CASE err \in {"coordinator", "culprit"} -> retry(p, offenders, net)
           [] err = "comm"   -> retry(p, {}, net)
           [] err = "subset" -> /\ start(p, NoPeer, {}, 2, net)
                                /\ UNCHANGED pending
           [] OTHER          -> Return(p, "error", net)

(***************************************************************************)
(* Actions of peer p.                                                      *)
(***************************************************************************)
\* Execute: pending check, static election, start both goroutines.
Execute(p) ==
    /\ pc[p] = "idle" /\ p \notin Silent
    /\ ~pending[p]
    /\ pending' = [pending EXCEPT ![p] = TRUE]
    /\ start(p, StaticCoordinator(p), {}, 1, msgs)
    /\ UNCHANGED subset

\* Variant of initiate that counts every Ready sender, excluded or not.
InitiateCountsExcluded(p, m) ==
    /\ pc[p] = "initiate" /\ m.type = "ready" /\ m.to = p
    /\ LET ready == readyPeers[p] \cup {m.from}
           params == StartParams(ready)
       IN  /\ readyPeers' = [readyPeers EXCEPT ![p] = ready]
           /\ IF Ready(ready)
              THEN /\ pc' = [pc EXCEPT ![p] = "running"]
                   /\ subset' = [subset EXCEPT ![p] = params]
                   /\ msgs' = (msgs \ {m}) \cup Broadcast("start", p, params)
              ELSE /\ msgs' = msgs \ {m}
                   /\ UNCHANGED <<pc, subset>>
    /\ UNCHANGED <<pending, attempt, coord, excl, outcome, runOk>>

\* initiate, a Ready message: count its sender unless excluded, and once the
\* process is Ready broadcast Start and Run the process as coordinator.
InitiateOnReady(p, m) ==
    /\ pc[p] = "initiate" /\ m.type = "ready" /\ m.to = p
    /\ LET ready == IF m.from \notin excl[p]
                    THEN readyPeers[p] \cup {m.from} ELSE readyPeers[p]
           params == StartParams(ready)
       IN  /\ readyPeers' = [readyPeers EXCEPT ![p] = ready]
           /\ IF Ready(ready)
              THEN /\ pc' = [pc EXCEPT ![p] = "running"]
                   /\ subset' = [subset EXCEPT ![p] = params]
                   /\ msgs' = (msgs \ {m}) \cup Broadcast("start", p, params)
              ELSE /\ msgs' = msgs \ {m}
                   /\ UNCHANGED <<pc, subset>>
    /\ UNCHANGED <<pending, attempt, coord, excl, outcome, runOk>>

\* initiate, the InitiatePeriod ticker: broadcastInitiateMsg again.
InitiateOnTick(p) ==
    /\ pc[p] = "initiate"
    /\ msgs' = msgs \cup Broadcast("initiate", p, {})
    /\ UNCHANGED <<pending, pc, attempt, coord, excl, readyPeers, subset, outcome, runOk>>

\* waitForStart, an Initiate message: from the expected coordinator (or any
\* peer when none is expected) reset the timer and answer Ready.
WaitOnInitiate(p, m) ==
    /\ pc[p] = "waitStart" /\ m.type = "initiate" /\ m.to = p
    /\ msgs' = IF coord[p] # NoPeer /\ m.from # coord[p]
               THEN msgs \ {m}
               ELSE (msgs \ {m}) \cup {Msg("ready", p, m.from, {})}
    /\ UNCHANGED <<pending, pc, attempt, coord, excl, readyPeers, subset, outcome, runOk>>

\* waitForStart, a Start message: from the expected coordinator (or any peer
\* when none is expected) Run the process; Signing.Run returns SubsetError
\* when this peer is not in the subset.
WaitOnStart(p, m) ==
    /\ pc[p] = "waitStart" /\ m.type = "start" /\ m.to = p
    /\ IF coord[p] # NoPeer /\ m.from # coord[p]
       THEN /\ msgs' = msgs \ {m}
            /\ UNCHANGED <<pending, pc, attempt, coord, excl, readyPeers, subset, outcome, runOk>>
       ELSE /\ subset' = [subset EXCEPT ![p] = m.params]
            /\ IF InSubset(p, m.params)
               THEN /\ pc' = [pc EXCEPT ![p] = "running"]
                    /\ coord' = [coord EXCEPT ![p] = m.from]
                    /\ msgs' = msgs \ {m}
                    /\ UNCHANGED <<pending, attempt, excl, readyPeers, outcome, runOk>>
               ELSE handleError(p, "subset", {}, msgs \ {m})

\* waitForStart, the coordinator timer: CoordinatorError{Peer: coordinator}.
WaitOnTimeout(p) ==
    /\ pc[p] = "waitStart"
    /\ Timing = "bounded" /\ coord[p] # NoPeer => pc[coord[p]] # "initiate"
    /\ handleError(p, "coordinator", {coord[p]}, msgs)
    /\ UNCHANGED subset

\* Run returns nil: every peer of the subset runs (or ran) the same subset.
RunCanSucceed(p) ==
    \A q \in subset[p] :
        /\ subset[q] = subset[p]
        /\ pc[q] = "running" \/ runOk[q]

\* Run returns nil.  Execute cancels its pool on that (the cancel() when
\* start returned nil) and returns nil.  handleError's pool has no such
\* cancel: it ends only when its watchExecution goroutine does, and the
\* peer stays in "ran" until that watchdog's ticker or a Fail ends it.
RunSucceeds(p) ==
    /\ pc[p] = "running"
    /\ RunCanSucceed(p)
    /\ IF attempt[p] = 1
       THEN Return(p, "ok", msgs) /\ UNCHANGED subset
       ELSE /\ pc' = [pc EXCEPT ![p] = "ran"]
            /\ runOk' = [runOk EXCEPT ![p] = TRUE]
            /\ UNCHANGED <<pending, attempt, coord, excl, readyPeers, subset,
                           outcome, msgs>>

\* Run returns a tss.Error naming culprits, or a CommunicationError.
RunFails(p) ==
    /\ Faults /\ pc[p] = "running"
    /\ \/ \E C \in SUBSET (subset[p] \ {p}) :
             C # {} /\ handleError(p, "culprit", C, msgs)
       \/ handleError(p, "comm", {}, msgs)
    /\ UNCHANGED subset

\* Variant in which only Execute's pool runs watchExecution, handleError's
\* pool not.
WatchFirstPoolOnly(p) ==
    /\ attempt[p] = 1
    /\ pc[p] \in {"initiate", "waitStart", "running"}
    /\ handleError(p, "timeout", {}, msgs)
    /\ UNCHANGED subset

\* watchExecution: the TssTimeout ticker fires before the pool ends.
WatchTimeout(p) ==
    /\ pc[p] \in {"initiate", "waitStart", "running", "ran"}
    /\ handleError(p, "timeout", {}, msgs)
    /\ UNCHANGED subset

\* The coordinator whose Fail the watchdog of the current pool heeds:
\* Execute's pool passes the static coordinator, handleError's pool "".
Watched(p) == IF attempt[p] = 1 THEN StaticCoordinator(p) ELSE NoPeer

\* watchExecution, a Fail message: from the watched coordinator it ends the
\* pool with a plain error; from any other peer it is ignored.
WatchOnFail(p, m) ==
    /\ m.type = "fail" /\ m.to = p /\ Reading(p, "fail")
    /\ IF m.from = Watched(p)
       THEN handleError(p, "fail", {}, msgs \ {m}) /\ UNCHANGED subset
       ELSE /\ msgs' = msgs \ {m}
            /\ UNCHANGED <<pending, pc, attempt, coord, excl, readyPeers, subset, outcome, runOk>>

\* The relayer of a coordinator broadcasts Fail for the session (no code
\* under src/ sends it; spec section 4.3).
SendFail(c) ==
    /\ FailMsgs /\ coord[c] = c /\ pc[c] \in {"initiate", "running"}
    /\ msgs' = msgs \cup Broadcast("fail", c, {})
    /\ UNCHANGED <<pending, pc, attempt, coord, excl, readyPeers, subset, outcome, runOk>>

\* ReceiveMessage when no loop reads (session, type): the message is lost.
Undeliverable(m) ==
    /\ ~Reading(m.to, m.type)
    /\ msgs' = msgs \ {m}
    /\ UNCHANGED <<pending, pc, attempt, coord, excl, readyPeers, subset, outcome, runOk>>

(***************************************************************************)
(* Under bounded timing a timer fires only when nothing new can happen     *)
(* before it: every peer has called Execute, no process run can end on its *)
(* own, and no message on the bus, nor the next keep-alive Initiate of a   *)
(* coordinator (every 15s), would change its receiver's state.             *)
(***************************************************************************)
Accepts(p, c) == coord[p] = NoPeer \/ coord[p] = c

Informative(m) ==
    CASE m.type = "initiate" ->
             /\ Reading(m.to, "initiate") /\ Accepts(m.to, m.from)
             /\ pc[m.from] = "initiate"
             /\ m.to \notin readyPeers[m.from] \cup excl[m.from]
      [] m.type = "ready" ->
             Reading(m.to, "ready") /\ m.from \notin readyPeers[m.to] \cup excl[m.to]
      [] m.type = "start" ->
             Reading(m.to, "start") /\ Accepts(m.to, m.from)
      [] OTHER ->
             Reading(m.to, "fail") /\ m.from = Watched(m.to)

Quiescent ==
    /\ \A m \in msgs : ~Informative(m)
    /\ \A c \in Peers : \A q \in Peers \ {c} :
           ~Informative(Msg("initiate", c, q, {}))
    /\ \A p \in Peers \ Silent : pc[p] # "idle"
    /\ \A p \in Peers : pc[p] = "running" => ~RunCanSucceed(p)

TimerMayFire == Timing = "free" \/ Quiescent

\* A participant waits on a coordinator that has not started: nothing has
\* reset its CoordinatorTimeout since its attempt began.
StalledWait(q) ==
    pc[q] = "waitStart" /\ coord[q] # NoPeer /\ pc[coord[q]] = "idle"

\* Under bounded timing no TssTimeout watchdog (15min) of the session fires
\* while such a CoordinatorTimeout (3min, armed when the peers started,
\* within seconds of each other, or at a retry after one) is pending.
WatchdogMayFire == Timing = "free" \/ ~\E q \in Peers : StalledWait(q)

\* Likewise a CoordinatorTimeout armed by a retry, after some first-attempt
\* timer expired, does not fire before a first-attempt one that nothing
\* has reset since the peers started.
RetryTimerMayFire(p) ==
    \/ Timing = "free" \/ attempt[p] = 1
    \/ ~\E q \in Peers : StalledWait(q) /\ attempt[q] = 1

Timer(p) ==
    /\ TimerMayFire
    /\ \/ RetryTimerMayFire(p) /\ WaitOnTimeout(p)
       \/ WatchdogMayFire /\ WatchTimeout(p)

Receive(m) ==
    /\ m \in msgs
    /\ \/ InitiateOnReady(m.to, m) \/ WaitOnInitiate(m.to, m)
       \/ WaitOnStart(m.to, m) \/ WatchOnFail(m.to, m) \/ Undeliverable(m)

Init ==
    /\ pending = [p \in Peers |-> FALSE]
    /\ pc = [p \in Peers |-> "idle"]
    /\ attempt = [p \in Peers |-> 0]
    /\ coord = [p \in Peers |-> NoPeer]
    /\ excl = [p \in Peers |-> {}]
    /\ readyPeers = [p \in Peers |-> {}]
    /\ subset = [p \in Peers |-> {}]
    /\ outcome = [p \in Peers |-> "none"]
    /\ runOk = [p \in Peers |-> FALSE]
    /\ msgs = {}

Next ==
    \/ \E p \in Peers : \/ Execute(p) \/ RunSucceeds(p) \/ RunFails(p)
                      \/ InitiateOnTick(p) \/ Timer(p) \/ SendFail(p)
    \/ \E m \in msgs : Receive(m)

\* Go timers fire: a watchdog or coordinator timer stays armed while its
\* loop waits.  With free timing that is all the fairness Termination needs.
TimerFairness == \A p \in Peers : WF_vars(Timer(p))

Spec == Init /\ [][Next]_vars /\ TimerFairness

\* The safety properties need no fairness.
SafetySpec == Init /\ [][Next]_vars

\* For the ceremony to happen: under bounded timing a timer fires once the
\* system is quiescent infinitely often; the ticker of initiate keeps
\* ticking while the loop runs; every message handed to the bus is
\* eventually pushed by its delivery goroutine; every peer of the session
\* calls Execute (the relayers react to the same event); and a process run
\* whose whole subset runs exchanges its rounds and ends.
Sendable ==
    {Msg(t, f, d, {}) : t \in {"initiate", "ready"}, f \in Peers, d \in Peers}
    \cup {Msg("start", f, d, S) : f \in Peers, d \in Peers,
                                  S \in Subsets}
    \cup (IF FailMsgs THEN {Msg("fail", f, d, {}) : f \in Peers, d \in Peers}
                       ELSE {})

Fairness ==
    /\ \A p \in Peers : /\ SF_vars(Timer(p))
                        /\ WF_vars(InitiateOnTick(p))
                        /\ WF_vars(Execute(p))
                        /\ WF_vars(RunSucceeds(p))
    /\ \A m \in Sendable : WF_vars(Receive(m))

FairSpec == Init /\ [][Next]_vars /\ Fairness


(***************************************************************************)
(* Refinement: each peer's Execute, seen through its control point, the    *)
(* coordinator it follows and the peers it excluded, is a run of the       *)
(* Ceremony state machine.                                                 *)
(***************************************************************************)
PhaseOf(p) ==
    CASE pc[p] = "idle"      -> "idle"
      [] pc[p] = "initiate"  -> "initiating"
      [] pc[p] = "waitStart" -> "waiting"
      [] pc[p] \in {"running", "ran"} -> "running"
      [] OTHER -> IF outcome[p] = "ok" THEN "completed" ELSE "failed"

Ceremony == INSTANCE Ceremony
    WITH Candidates <- KeyHolders, StaticLeader <- Min(KeyHolders),
         phase <- [p \in Peers |-> PhaseOf(p)],
         leader <- coord, excluded <- excl

(***************************************************************************)
(* Properties.                                                             *)
(***************************************************************************)

\* Every Execute call returns (through handleError's one retry and the
\* watchdogs of both pools) and its deferred cleanup clears the pending flag.
\* Each peer calls Execute at most once and "done" is final, so this is
\* stated as: from some point on, every peer that called Execute is done.
Termination ==
    <>[](\A p \in Peers : pc[p] # "idle" => pc[p] = "done" /\ ~pending[p])

\* A peer that retries because coordinator c did not answer, or because the
\* process named c a culprit, never again runs a ceremony started by c nor
\* counts c as ready when it coordinates the retry itself.
RetryAvoidsOffender ==
    \A p \in Peers :
        attempt[p] = 2 =>
            /\ pc[p] = "running" => coord[p] \notin excl[p]
            /\ pc[p] \in {"initiate", "running"} /\ coord[p] = p =>
                   readyPeers[p] \cap excl[p] = {}

\* Without process faults and with timeouts longer than deliveries, the
\* handshake of initiate/waitForStart brings Threshold+1 key holders (or,
\* in Resharing, every peer) to run the same subset, and the Run of every
\* one of them returns nil: the ceremony completes.  With a silent static
\* coordinator (spec section 8) this takes the participants'
\* CoordinatorTimeout, the retry's bully election that excludes it, and the
\* handshake of the new coordinator.
SubsetCompletes ==
    <>(\E S \in Subsets : \A p \in S : runOk[p])

\* Spec section 4.3: Running goes to Completed when "all processes
\* complete" with no watchdog fault, and the watchdog signals a timeout only
\* "on TssTimeout ticking before completion"; section 7: recoverable
\* errors "never surface unless retries are exhausted".  A peer whose
\* process Run returned nil has Execute return nil.
CompletedReturnsNil ==
    \A p \in Peers : runOk[p] /\ pc[p] = "done" => outcome[p] = "ok"

\* Spec section 4.3, the watchdog: "on a Fail message from the *expected*
\* coordinator, signals failure", for the whole Execute attempt.  A peer
\* that takes in a Fail from the coordinator it follows leaves that attempt.
FailEndsAttempt ==
    [][\A m \in msgs :
          /\ m.type = "fail" /\ Receive(m)
          /\ pc[m.to] \in {"initiate", "waitStart", "running", "ran"}
          /\ m.from = coord[m.to]
          => attempt'[m.to] # attempt[m.to]]_vars

\* Spec section 8 (3 peers, all reply Ready, "Execute returns nil on every
\* peer") and section 7 (a peer left out of the subset is "not an error per
\* se", it re-enters waiting): no peer's Execute returns an error when no
\* process fails.
NoPeerFails == \A p \in Peers : outcome[p] # "error"

\* Every step of Execute is a step of the spec's state machine (section
\* 4.3): static election then role split, the process started only by the
\* peer itself as coordinator or by a Start of the coordinator it follows
\* that it never blamed, a retry only after a coordinator timeout or a
\* process error and under a coordinator none of the blamed peers, and the
\* session cleaned up when Execute returns.
CeremonySpec == Ceremony!Spec
=============================================================================
