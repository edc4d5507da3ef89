------------------------------- MODULE PubSub -------------------------------
(***************************************************************************)
(* The pub/sub bus of the leader (src/redis-go/app/replication/            *)
(* pubsub_manager.go) and the PSYNC forwarders that subscribe to it        *)
(* (cmd/psync.go).  Goroutines:                                            *)
(*   - publishers: SET/INCR handlers at their send on EventsChannel;       *)
(*   - the subscription loop (Start, first goroutine): receive a           *)
(*     SubscriberEvent, mu.Lock, add or delete, mu.Unlock;                 *)
(*   - the fan-out loop (Start, second goroutine): receive an event,       *)
(*     mu.RLock, send it to every subscriber channel in map order,         *)
(*     mu.RUnlock;                                                         *)
(*   - one forwarder per replica (HandlePSync): send Subscribe, then       *)
(*     receive and write events until a write fails, then send             *)
(*     Unsubscribe and close its channel (the deferred function).          *)
(* Every channel is unbuffered, so a send and its receive are one step     *)
(* that both parties must be ready for.  The section of the subscription   *)
(* loop under mu.Lock is one step: nobody can observe its inside.  Go's    *)
(* RWMutex lets no new reader in while a writer waits in Lock.             *)
(*                                                                         *)
(* An event is the publisher that sent it (each sends one).  A Go panic    *)
(* ends the process: crashed disables every step.                          *)
(***************************************************************************)
EXTENDS Integers, Sequences, FiniteSets, SequencesExt

CONSTANTS
    Publishers,   \* handlers that publish one event each
    Replicas,     \* replica connections that send PSYNC
    Nil

VARIABLES
    pubPc,        \* [Publishers -> "send" | "done"]
    sPc,          \* subscription loop: "recv" | "lock" | "waitlock"
    sEvent,       \* the SubscriberEvent it holds
    fPc,          \* fan-out loop: "recv" | "rlock" | "send"
    fEvent,       \* the event it holds
    todo,         \* subscribers it has still to send fEvent to, in map order
    rlocked,      \* the fan-out holds mu.RLock
    subscribers,  \* mgr.subscribers (ids whose channel is in the map)
    rPc,          \* [Replicas -> step of HandlePSync]
    alive,        \* [Replicas -> the replica's connection still accepts writes]
    closed,       \* [Replicas -> replicationChannel has been closed]
    crashed,      \* a goroutine panicked
    fanned,       \* history: events in the order the fan-out took mu.RLock for them
    got,          \* history: [Replicas -> events received from the channel]
    start         \* history: [Replicas -> Len(fanned) when Subscribe took effect]

busVars == <<sPc, sEvent, fPc, fEvent, todo, rlocked, subscribers>>
vars == <<pubPc, busVars, rPc, alive, closed, crashed, fanned, got, start>>

NoEvent == [action |-> "none", id |-> Nil]

-----------------------------------------------------------------------------
(* A handler's EventsChannel <- event meets the fan-out's receive.         *)
PublisherSend(p) ==
    /\ pubPc[p] = "send"
    /\ fPc = "recv"
    /\ pubPc' = [pubPc EXCEPT ![p] = "done"]
    /\ fEvent' = p
    /\ fPc' = "rlock"
    /\ UNCHANGED <<sPc, sEvent, todo, rlocked, subscribers, rPc, alive, closed,
                   crashed, fanned, got, start>>

(* mu.RLock, granted when no writer waits in mu.Lock; range over the map *)
(* in an order the runtime picks.                                          *)
FanoutRLock ==
    /\ fPc = "rlock"
    /\ sPc # "waitlock"
    /\ rlocked' = TRUE
    /\ \E order \in SetToSeqs(subscribers) : todo' = order
    /\ fanned' = Append(fanned, fEvent)
    /\ fPc' = "send"
    /\ UNCHANGED <<pubPc, sPc, sEvent, fEvent, subscribers, rPc, alive, closed,
                   crashed, got, start>>

(* Fault: a non-blocking send (select with default) that skips a          *)
(* subscriber not ready to receive.                                        *)
FanoutSendNonBlocking ==
    LET r == Head(todo) IN
    /\ fPc = "send"
    /\ todo # <<>>
    /\ IF closed[r]
       THEN /\ crashed' = TRUE
            /\ UNCHANGED <<todo, rPc, got>>
       ELSE IF rPc[r] = "recv"
       THEN /\ got' = [got EXCEPT ![r] = Append(@, fEvent)]
            /\ rPc' = [rPc EXCEPT ![r] = "write"]
            /\ todo' = Tail(todo)
            /\ UNCHANGED crashed
       ELSE /\ todo' = Tail(todo)
            /\ UNCHANGED <<rPc, got, crashed>>
    /\ UNCHANGED <<pubPc, sPc, sEvent, fPc, fEvent, rlocked, subscribers,
                   alive, closed, fanned, start>>

(* Fault: the loop does not advance past a subscriber.                     *)
FanoutSendRepeats ==
    LET r == Head(todo) IN
    /\ fPc = "send"
    /\ todo # <<>>
    /\ IF closed[r]
       THEN /\ crashed' = TRUE
            /\ UNCHANGED <<rPc, got>>
       ELSE /\ rPc[r] = "recv"
            /\ got' = [got EXCEPT ![r] = Append(@, fEvent)]
            /\ rPc' = [rPc EXCEPT ![r] = "write"]
            /\ UNCHANGED crashed
    /\ UNCHANGED <<pubPc, sPc, sEvent, fPc, fEvent, todo, rlocked, subscribers,
                   alive, closed, fanned, start>>

(* channel <- event to the next subscriber: it meets the forwarder's       *)
(* receive; on a closed channel it panics.                                 *)
FanoutSend ==
    LET r == Head(todo) IN
    /\ fPc = "send"
    /\ todo # <<>>
    /\ IF closed[r]
       THEN /\ crashed' = TRUE
            /\ UNCHANGED <<todo, rPc, got>>
       ELSE /\ rPc[r] = "recv"
            /\ got' = [got EXCEPT ![r] = Append(@, fEvent)]
            /\ rPc' = [rPc EXCEPT ![r] = "write"]
            /\ todo' = Tail(todo)
            /\ UNCHANGED crashed
    /\ UNCHANGED <<pubPc, sPc, sEvent, fPc, fEvent, rlocked, subscribers,
                   alive, closed, fanned, start>>

(* Fault: the read lock is never released (a missing mu.RUnlock).         *)
FanoutRUnlockKeepsLock ==
    /\ fPc = "send"
    /\ todo = <<>>
    /\ rlocked' = TRUE
    /\ fPc' = "recv"
    /\ fEvent' = Nil
    /\ UNCHANGED <<pubPc, sPc, sEvent, todo, subscribers, rPc, alive, closed,
                   crashed, fanned, got, start>>

(* mu.RUnlock after the last subscriber; back to the receive.             *)
FanoutRUnlock ==
    /\ fPc = "send"
    /\ todo = <<>>
    /\ rlocked' = FALSE
    /\ fPc' = "recv"
    /\ fEvent' = Nil
    /\ UNCHANGED <<pubPc, sPc, sEvent, todo, subscribers, rPc, alive, closed,
                   crashed, fanned, got, start>>

(* A forwarder's Subscribe or Unsubscribe send meets the subscription      *)
(* loop's receive.  After Unsubscribe the forwarder runs close().          *)
SubRecv(r) ==
    /\ sPc = "recv"
    /\ rPc[r] \in {"subscribe", "unsubscribe"}
    /\ sEvent' = [action |-> rPc[r], id |-> r]
    /\ sPc' = "lock"
    /\ rPc' = [rPc EXCEPT ![r] = IF @ = "subscribe" THEN "recv" ELSE "close"]
    /\ UNCHANGED <<pubPc, fPc, fEvent, todo, rlocked, subscribers, alive, closed,
                   crashed, fanned, got, start>>

(* Fault: the map is changed without taking mu.Lock.                       *)
SubApplyUnlocked ==
    /\ sPc = "lock"
    /\ subscribers' = IF sEvent.action = "subscribe"
                      THEN subscribers \cup {sEvent.id}
                      ELSE subscribers \ {sEvent.id}
    /\ start' = IF sEvent.action = "subscribe"
                THEN [start EXCEPT ![sEvent.id] = Len(fanned)]
                ELSE start
    /\ sPc' = "recv"
    /\ sEvent' = NoEvent
    /\ UNCHANGED <<pubPc, fPc, fEvent, todo, rlocked, rPc, alive, closed,
                   crashed, fanned, got>>

(* The loop calls mu.Lock: from here on a writer is pending and a new     *)
(* RLock waits behind it.                                                  *)
SubLockCall ==
    /\ sPc = "lock"
    /\ sPc' = "waitlock"
    /\ UNCHANGED <<pubPc, sEvent, fPc, fEvent, todo, rlocked, subscribers, rPc,
                   alive, closed, crashed, fanned, got, start>>

(* mu.Lock returns once the fan-out has released its read lock; add or    *)
(* delete the subscriber, mu.Unlock.                                       *)
SubApply ==
    /\ sPc = "waitlock"
    /\ ~rlocked
    /\ subscribers' = IF sEvent.action = "subscribe"
                      THEN subscribers \cup {sEvent.id}
                      ELSE subscribers \ {sEvent.id}
    /\ start' = IF sEvent.action = "subscribe"
                THEN [start EXCEPT ![sEvent.id] = Len(fanned)]
                ELSE start
    /\ sPc' = "recv"
    /\ sEvent' = NoEvent
    /\ UNCHANGED <<pubPc, fPc, fEvent, todo, rlocked, rPc, alive, closed,
                   crashed, fanned, got>>

(* HandlePSync starts: FULLRESYNC and the RDB are written, a fresh         *)
(* subscriber id and channel are made, and the Subscribe send begins.      *)
PSync(r) ==
    /\ rPc[r] = "idle"
    /\ rPc' = [rPc EXCEPT ![r] = "subscribe"]
    /\ UNCHANGED <<pubPc, busVars, alive, closed, crashed, fanned, got, start>>

(* conn.Write of a received event: it fails once the replica has gone;    *)
(* then the loop breaks and the deferred Unsubscribe send begins.          *)
ForwarderWrite(r) ==
    /\ rPc[r] = "write"
    /\ rPc' = [rPc EXCEPT ![r] = IF alive[r] THEN "recv" ELSE "unsubscribe"]
    /\ UNCHANGED <<pubPc, busVars, alive, closed, crashed, fanned, got, start>>

(* The deferred close(replicationChannel), after Unsubscribe was received. *)
ForwarderClose(r) ==
    /\ rPc[r] = "close"
    /\ closed' = [closed EXCEPT ![r] = TRUE]
    /\ rPc' = [rPc EXCEPT ![r] = "done"]
    /\ UNCHANGED <<pubPc, busVars, alive, crashed, fanned, got, start>>

(* The replica's TCP connection goes away.                                 *)
ReplicaDrop(r) ==
    /\ alive[r]
    /\ alive' = [alive EXCEPT ![r] = FALSE]
    /\ UNCHANGED <<pubPc, busVars, rPc, closed, crashed, fanned, got, start>>

-----------------------------------------------------------------------------
(* NewPubSubManager and Start: empty map, both loops at their receive.     *)
Init ==
    /\ pubPc = [p \in Publishers |-> "send"]
    /\ sPc = "recv"
    /\ sEvent = NoEvent
    /\ fPc = "recv"
    /\ fEvent = Nil
    /\ todo = <<>>
    /\ rlocked = FALSE
    /\ subscribers = {}
    /\ rPc = [r \in Replicas |-> "idle"]
    /\ alive = [r \in Replicas |-> TRUE]
    /\ closed = [r \in Replicas |-> FALSE]
    /\ crashed = FALSE
    /\ fanned = <<>>
    /\ got = [r \in Replicas |-> <<>>]
    /\ start = [r \in Replicas |-> 0]

(* The steps of the goroutines; a panic ends them all.                     *)
Goroutines ==
    \/ \E p \in Publishers : PublisherSend(p)
    \/ FanoutRLock
    \/ FanoutSend
    \/ FanoutRUnlock
    \/ \E r \in Replicas : SubRecv(r)
    \/ SubLockCall
    \/ SubApply
    \/ \E r \in Replicas : ForwarderWrite(r) \/ ForwarderClose(r)

Next ==
    /\ ~crashed
    /\ \/ Goroutines
       \/ \E r \in Replicas : PSync(r) \/ ReplicaDrop(r)

(* Go's scheduler runs every runnable goroutine eventually; a replica      *)
(* connecting or going away is up to the environment.                      *)
Fairness ==
    /\ \A p \in Publishers : WF_vars(~crashed /\ PublisherSend(p))
    /\ WF_vars(~crashed /\ (FanoutRLock \/ FanoutSend \/ FanoutRUnlock))
    /\ WF_vars(~crashed /\ ((\E r \in Replicas : SubRecv(r)) \/ SubLockCall \/ SubApply))
    /\ \A r \in Replicas : WF_vars(~crashed /\ (ForwarderWrite(r) \/ ForwarderClose(r)))

Spec == Init /\ [][Next]_vars

FairSpec == Spec /\ Fairness

-----------------------------------------------------------------------------
States == {"idle", "subscribe", "recv", "write", "unsubscribe", "close", "done"}

(* A forwarder receives each event at most once, so at most one per       *)
(* publisher.                                                              *)
TypeOK ==
    /\ pubPc \in [Publishers -> {"send", "done"}]
    /\ sPc \in {"recv", "lock", "waitlock"}
    /\ sEvent \in [action : {"subscribe", "unsubscribe"}, id : Replicas] \cup {NoEvent}
    /\ fPc \in {"recv", "rlock", "send"}
    /\ fEvent \in Publishers \cup {Nil}
    /\ todo \in Seq(Replicas)
    /\ rlocked \in BOOLEAN
    /\ subscribers \subseteq Replicas
    /\ rPc \in [Replicas -> States]
    /\ alive \in [Replicas -> BOOLEAN]
    /\ closed \in [Replicas -> BOOLEAN]
    /\ crashed \in BOOLEAN
    /\ fanned \in Seq(Publishers)
    /\ got \in [Replicas -> Seq(Publishers)]
    /\ \A r \in Replicas : Len(got[r]) <= Cardinality(Publishers)
    /\ start \in [Replicas -> 0..Cardinality(Publishers)]

(* The fan-out sends only on channels that are in the subscribers map:     *)
(* mu.RLock keeps the subscription loop from deleting one while the        *)
(* fan-out ranges over the map.                                            *)
FanoutTargetsSubscribed ==
    \A i \in 1..Len(todo) : todo[i] \in subscribers

(* No goroutine sends on a closed channel.  The forwarder closes its       *)
(* channel right after the subscription loop has received its Unsubscribe, *)
(* which is before the loop has taken mu.Lock and removed the channel      *)
(* from the map, while the fan-out may be blocked sending on it.           *)
NoSendOnClosedChannel == ~crashed

(* Every handler's send on EventsChannel eventually completes (unless the  *)
(* process has panicked): SET and INCR never hang on replication.          *)
PublishCompletes ==
    \A p \in Publishers : pubPc[p] = "send" ~> (pubPc[p] = "done" \/ crashed)

(* As long as every replica's connection keeps accepting writes, every    *)
(* handler's send on EventsChannel completes: the fan-out's read lock, the *)
(* subscription loop's write lock and the unbuffered channels never block  *)
(* one another for good while each forwarder keeps returning to its       *)
(* receive.  The stall of PublishCompletes needs a failed write.           *)
PublishCompletesWhileReplicasLive ==
    (\A r \in Replicas : []alive[r]) => PublishCompletes

(* The bus implements Broadcast: fanned is the total order, a replica's    *)
(* subscription takes effect when the subscription loop applies it, and    *)
(* what its forwarder receives is the gap-free continuation of fanned from *)
(* there.                                                                  *)
Bus == INSTANCE Broadcast WITH
    Subscribers <- Replicas, Events <- Publishers,
    log <- fanned, subscribed <- subscribers, from <- start, got <- got

BusSpec == Bus!Spec
=============================================================================
