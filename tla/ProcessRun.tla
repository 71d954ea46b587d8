----------------------------- MODULE ProcessRun -----------------------------
(***************************************************************************)
(* One frost Signing ceremony from the Start broadcast to the end of Run,  *)
(* over the in-memory bus of src/tss_util/tss/test/communication.go.       *)
(*                                                                         *)
(* The coordinator broadcasts Start (Coordinator.initiate) and calls Run;  *)
(* each participant calls Run when its waitForStart loop takes the Start.  *)
(* Run subscribes the session's TssKeySignMsg channel only then            *)
(* (signing.go:119) and starts its message pumps: the outbound pump        *)
(* broadcasts what the protocol handler emits, the inbound pump feeds the  *)
(* handler what the subscription delivers.  Every broadcast message is     *)
(* pushed by a goroutine of its own (communication.go:46); ReceiveMessage  *)
(* looks the channel up when that goroutine runs, and a send on the nil    *)
(* channel of a missing subscription blocks for ever.                      *)
(*                                                                         *)
(* The cryptographic rounds of the handler (an external library) are       *)
(* abstracted to Rounds all-to-all rounds: a party emits its messages of a *)
(* round, and enters the next once it holds the messages of that round    *)
(* from every other party; messages of a later round are kept.            *)
(***************************************************************************)
EXTENDS Naturals

CONSTANTS
    Parties,     \* the signing subset of the Start params
    Coord,       \* the coordinator, one of the subset
    Rounds       \* rounds of the signing protocol

ASSUME /\ Coord \in Parties /\ Rounds \in Nat \ {0}

VARIABLES
    phase,       \* where each party is: initiate, waitStart, starting, running, done
    subscribed,  \* whether the party's TssKeySignMsg subscription exists
    round,       \* the handler's current round
    emitted,     \* whether the party broadcast its messages of that round
    received,    \* <<sender, round>> of the round messages the handler holds
    net,         \* messages whose delivery goroutine has not run
    lost         \* round messages whose delivery goroutine blocks for ever

vars == <<phase, subscribed, round, emitted, received, net, lost>>

Phases == {"initiate", "waitStart", "starting", "running", "done"}
Msg(t, f, d, r) == [type |-> t, from |-> f, to |-> d, rnd |-> r]
Messages == [type : {"start", "round"}, from : Parties, to : Parties,
             rnd : 0..Rounds]

TypeOK ==
    /\ phase \in [Parties -> Phases]
    /\ subscribed \in [Parties -> BOOLEAN]
    /\ round \in [Parties -> 1..Rounds]
    /\ emitted \in [Parties -> BOOLEAN]
    /\ received \in [Parties -> SUBSET (Parties \X (1..Rounds))]
    /\ net \subseteq Messages
    /\ lost \subseteq Messages

\* TestCommunication.Broadcast: one delivery goroutine per target; the
\* sender is not among its own targets (SetupCommunication).
Broadcast(t, f, r) == {Msg(t, f, d, r) : d \in Parties \ {f}}

Init ==
    /\ phase = [p \in Parties |-> IF p = Coord THEN "initiate" ELSE "waitStart"]
    /\ subscribed = [p \in Parties |-> FALSE]
    /\ round = [p \in Parties |-> 1]
    /\ emitted = [p \in Parties |-> FALSE]
    /\ received = [p \in Parties |-> {}]
    /\ net = {}
    /\ lost = {}

\* initiate, once Ready: broadcast Start with the subset, then Run the
\* process as coordinator.
BroadcastStart(c) ==
    /\ phase[c] = "initiate"
    /\ phase' = [phase EXCEPT ![c] = "starting"]
    /\ net' = net \cup Broadcast("start", c, 0)
    /\ UNCHANGED <<subscribed, round, emitted, received, lost>>

\* waitForStart takes the Start of its coordinator and calls Run.
TakeStart(p, m) ==
    /\ m.type = "start" /\ m.to = p /\ phase[p] = "waitStart"
    /\ phase' = [phase EXCEPT ![p] = "starting"]
    /\ net' = net \ {m}
    /\ UNCHANGED <<subscribed, round, emitted, received, lost>>

\* Signing.Run: parse the subset, subscribe TssKeySignMsg, build the
\* handler and start the pumps.
RunSubscribe(p) ==
    /\ phase[p] = "starting"
    /\ phase' = [phase EXCEPT ![p] = "running"]
    /\ subscribed' = [subscribed EXCEPT ![p] = TRUE]
    /\ UNCHANGED <<round, emitted, received, net, lost>>

\* ProcessOutboundMessages: the handler's messages of the current round go
\* to every other party of the subset (BroadcastPeers of a broadcast).
EmitRound(p) ==
    /\ phase[p] = "running" /\ ~emitted[p]
    /\ emitted' = [emitted EXCEPT ![p] = TRUE]
    /\ net' = net \cup Broadcast("round", p, round[p])
    /\ UNCHANGED <<phase, subscribed, round, received, lost>>

\* ProcessInboundMessages: the pump reads the channel and hands the
\* message to the handler.
Inbound(p, m) ==
    received' = [received EXCEPT ![p] = @ \cup {<<m.from, m.rnd>>}]

\* ReceiveMessage of a round message: the channel of (session, topic) is
\* looked up when the delivery goroutine runs; without a subscription the
\* send on the nil channel never completes.
DeliverRound(m) ==
    /\ m.type = "round"
    /\ net' = net \ {m}
    /\ IF subscribed[m.to]
       THEN Inbound(m.to, m) /\ UNCHANGED lost
       ELSE lost' = lost \cup {m} /\ UNCHANGED received
    /\ UNCHANGED <<phase, subscribed, round, emitted>>

\* The handler ends a round once it holds that round's message of every
\* other party (multi-party-sig, not under src/).
RoundComplete(p) ==
    /\ emitted[p]
    /\ \A q \in Parties \ {p} : <<q, round[p]>> \in received[p]

NextRound(p) ==
    /\ phase[p] = "running" /\ RoundComplete(p) /\ round[p] < Rounds
    /\ round' = [round EXCEPT ![p] = @ + 1]
    /\ emitted' = [emitted EXCEPT ![p] = FALSE]
    /\ UNCHANGED <<phase, subscribed, received, net, lost>>

\* processEndMessage: the handler is done, the signature goes out, the
\* pumps are cancelled and Run returns nil; Execute's cleanup then calls
\* Stop, which unsubscribes.
EndRun(p) ==
    /\ phase[p] = "running" /\ RoundComplete(p) /\ round[p] = Rounds
    /\ phase' = [phase EXCEPT ![p] = "done"]
    /\ subscribed' = [subscribed EXCEPT ![p] = FALSE]
    /\ UNCHANGED <<round, emitted, received, net, lost>>

Next ==
    \/ \E p \in Parties :
           \/ BroadcastStart(p) \/ RunSubscribe(p) \/ EmitRound(p)
           \/ NextRound(p) \/ EndRun(p)
    \/ \E m \in net : TakeStart(m.to, m) \/ DeliverRound(m)

Spec == Init /\ [][Next]_vars

(***************************************************************************)
(* Properties.                                                             *)
(***************************************************************************)

=============================================================================
