--------------------------- MODULE PendingSessions ---------------------------
(***************************************************************************)
(* The pending-session guard of Coordinator.Execute                       *)
(* (src/tss_util/tss/coordinator.go): concurrent Execute calls on one      *)
(* Coordinator, each for a session id.  Execute reads                      *)
(* c.pendingProcesses[sessionID] without processLock, then takes the lock  *)
(* to set it; the deferred cleanup takes the lock to clear it.  Everything *)
(* between the set and the cleanup is the session's run, abstracted to one *)
(* control point, except that Signing.Run subscribes its key-sign messages *)
(* on the peer's TestCommunication under the id "<session>-<type>", which  *)
(* every call of one session shares, and the cleanup's Stop unsubscribes   *)
(* that id after the pending flag is cleared.                              *)
(*                                                                         *)
(* Each call first builds its process (frost/signing/signing.go,           *)
(* frost/resharing/resharing.go).  Both constructors take the storer's     *)
(* keyshare lock: NewSigning only while it reads the key share,            *)
(* NewResharing until its Stop, since the share it reads is the one it     *)
(* will replace.  Resharing subscribes TssReshareMsg instead of            *)
(* TssKeySignMsg.                                                          *)
(***************************************************************************)
EXTENDS Naturals, FiniteSets

CONSTANTS
    Calls,       \* concurrent Execute calls
    Sessions,    \* session ids they are made with
    NoCall,      \* no subscription under an id, nobody holding the lock
    Kind,        \* Kind[c]: the process the call executes
    SidChoices   \* the session ids the callers may give the calls

Kinds == {"signing", "resharing"}

ASSUME /\ Kind \in [Calls -> Kinds] /\ SidChoices \subseteq [Calls -> Sessions]

VARIABLES
    pendingProcesses,  \* c.pendingProcesses
    stage,             \* where each call is
    sid,               \* the session id of each call
    subscriptions,     \* Subscriptions["<session>-TssKeySignMsg"]: whose channel
    subscribed,        \* the calls whose Run has subscribed
    keyLock            \* the call whose process holds the keyshare lock

vars == <<pendingProcesses, stage, sid, subscriptions, subscribed, keyLock>>

Stages == {"new", "idle", "checked", "running", "stopping", "returned",
           "rejected", "failed"}
Ended == {"returned", "rejected", "failed"}

\* The subscription id "<session>-<type>" of the call's process.
Topic(c) == IF Kind[c] = "signing" THEN "TssKeySignMsg" ELSE "TssReshareMsg"
SubID(c) == <<sid[c], Topic(c)>>

TypeOK ==
    /\ pendingProcesses \in [Sessions -> BOOLEAN]
    /\ stage \in [Calls -> Stages]
    /\ sid \in [Calls -> Sessions]
    /\ subscriptions \in [Sessions \X {"TssKeySignMsg", "TssReshareMsg"}
                          -> Calls \cup {NoCall}]
    /\ subscribed \subseteq Calls
    /\ keyLock \in Calls \cup {NoCall}

Init ==
    /\ pendingProcesses = [s \in Sessions |-> FALSE]
    /\ stage = [c \in Calls |-> "new"]
    /\ sid \in SidChoices
    /\ subscriptions = [k \in Sessions \X {"TssKeySignMsg", "TssReshareMsg"}
                         |-> NoCall]
    /\ subscribed = {}
    /\ keyLock = NoCall

\* Variant of NewSigning without the deferred UnlockKeyshare.
NewSigningKeepsLock(c) ==
    /\ stage[c] = "new" /\ Kind[c] = "signing" /\ keyLock = NoCall
    /\ keyLock' = c
    /\ \E r \in {"idle", "failed"} : stage' = [stage EXCEPT ![c] = r]
    /\ UNCHANGED <<pendingProcesses, sid, subscriptions, subscribed>>

\* NewSigning: LockKeyshare, GetKeyshare, the deferred UnlockKeyshare.  A
\* missing key share or a bad tweak returns an error and the caller never
\* calls Execute.
NewSigning(c) ==
    /\ stage[c] = "new" /\ Kind[c] = "signing" /\ keyLock = NoCall
    /\ \E r \in {"idle", "failed"} : stage' = [stage EXCEPT ![c] = r]
    /\ UNCHANGED <<pendingProcesses, sid, subscriptions, subscribed, keyLock>>

\* NewResharing: LockKeyshare and keep it (a missing share becomes an empty
\* key, so it cannot fail).
NewResharing(c) ==
    /\ stage[c] = "new" /\ Kind[c] = "resharing" /\ keyLock = NoCall
    /\ keyLock' = c
    /\ stage' = [stage EXCEPT ![c] = "idle"]
    /\ UNCHANGED <<pendingProcesses, sid, subscriptions, subscribed>>

\* value, ok := c.pendingProcesses[sessionID]; ok && value: "process already
\* pending" is returned, else the call goes on (the read holds no lock).
\* The return comes before the deferred cleanup is set up: no Stop.
CheckPending(c) ==
    /\ stage[c] = "idle"
    /\ stage' = [stage EXCEPT ![c] = IF pendingProcesses[sid[c]]
                                     THEN "rejected" ELSE "checked"]
    /\ UNCHANGED <<pendingProcesses, sid, subscriptions, subscribed, keyLock>>

\* processLock.Lock(); pendingProcesses[sessionID] = true; Unlock()
MarkPending(c) ==
    /\ stage[c] = "checked"
    /\ pendingProcesses' = [pendingProcesses EXCEPT ![sid[c]] = TRUE]
    /\ stage' = [stage EXCEPT ![c] = "running"]
    /\ UNCHANGED <<sid, subscriptions, subscribed, keyLock>>

\* Signing.Run / Resharing.Run: Subscribe(sessionID, type) replaces whatever
\* channel the id "<session>-<type>" held.
Subscribe(c) ==
    /\ stage[c] = "running" /\ c \notin subscribed
    /\ subscriptions' = [subscriptions EXCEPT ![SubID(c)] = c]
    /\ subscribed' = subscribed \cup {c}
    /\ UNCHANGED <<pendingProcesses, stage, sid, keyLock>>

\* The deferred cleanup up to the flag: cancel, CloseSession (a no-op on the
\* test bus), pendingProcesses[sessionID] = false under the lock.
ClearPending(c) ==
    /\ stage[c] = "running"
    /\ pendingProcesses' = [pendingProcesses EXCEPT ![sid[c]] = FALSE]
    /\ stage' = [stage EXCEPT ![c] = "stopping"]
    /\ UNCHANGED <<sid, subscriptions, subscribed, keyLock>>

\* Variant of Resharing.Stop without storer.UnlockKeyshare().
KeepKeyshare(c) == UNCHANGED keyLock

\* Resharing.Stop ends with storer.UnlockKeyshare(); Signing.Stop holds none.
UnlockKeyshare(c) ==
    keyLock' = IF Kind[c] = "resharing" THEN NoCall ELSE keyLock

\* The deferred cleanup ends with process.Stop(): UnSubscribe deletes the id
\* whoever subscribed it last; a Run that never subscribed unsubscribes the
\* empty id, which deletes nothing.
Stop(c) ==
    /\ stage[c] = "stopping"
    /\ subscriptions' = IF c \in subscribed
                        THEN [subscriptions EXCEPT ![SubID(c)] = NoCall]
                        ELSE subscriptions
    /\ UnlockKeyshare(c)
    /\ stage' = [stage EXCEPT ![c] = "returned"]
    /\ UNCHANGED <<pendingProcesses, sid, subscribed>>

NewProcess(c) == NewSigning(c) \/ NewResharing(c)

Execute(c) ==
    \/ CheckPending(c) \/ MarkPending(c) \/ Subscribe(c)
    \/ ClearPending(c) \/ Stop(c)

Next == \E c \in Calls : NewProcess(c) \/ Execute(c)

Spec == Init /\ [][Next]_vars

\* Each call runs on its own goroutine and its Run ends (the watchdog of
\* Execute bounds it); a goroutine blocked in LockKeyshare gets the mutex
\* once it is free often enough: sync.Mutex hands it to a waiter that has
\* waited over 1ms (starvation mode).
FairSpec ==
    Spec /\ \A c \in Calls : WF_vars(Execute(c)) /\ SF_vars(NewProcess(c))

\* The entry guard of Execute (spec section 3 and 4.3): at most one Execute
\* per session id runs at any time.
AtMostOneExecute ==
    \A s \in Sessions :
        Cardinality({c \in Calls : stage[c] = "running" /\ sid[c] = s}) <= 1

\* The cleanup of an Execute call (spec section 4.3: Stop "releases locks/
\* subscriptions the process itself created") never removes the
\* subscription of another call of the same session and type.
StopRemovesOwnSubscription ==
    [][\A c \in Calls :
          Stop(c) /\ c \in subscribed => subscriptions[SubID(c)] \in {c, NoCall}]_vars

\* Spec section 7: "every exit path ... runs the same cleanup ... so no
\* leaks occur on any branch": once a call has returned, its process no
\* longer holds the keyshare lock that NewResharing took.
KeyshareReleased ==
    \A c \in Calls : stage[c] \in Ended => keyLock # c

\* No call waits for ever: every process gets built (the keyshare lock is
\* released by whoever holds it) and every Execute returns.
EveryCallEnds == \A c \in Calls : <>(stage[c] \in Ended)
=============================================================================
