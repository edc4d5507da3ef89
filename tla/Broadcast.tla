----------------------------- MODULE Broadcast ------------------------------
(***************************************************************************)
(* What the pub/sub bus of spec.md section 4.5 promises, with no goroutine *)
(* or lock in it.  Published events form one total order, log.  A          *)
(* subscriber's subscription takes effect at some point of that order,     *)
(* from[s]; from then until it is removed it receives the events of log    *)
(* after that point, in order and without gaps ("all subscribers observe   *)
(* published events in the same total order", "per-subscriber FIFO").      *)
(* Delivery is not promised here: a subscriber may lag behind log.         *)
(***************************************************************************)
EXTENDS Integers, Sequences

CONSTANTS
    Subscribers,   \* subscriber identities
    Events         \* events that may be published

VARIABLES
    log,         \* the total order of published events
    subscribed,  \* subscribers whose subscription is in effect
    from,        \* [Subscribers -> Len(log) when the subscription took effect]
    got          \* [Subscribers -> events received, in order]

busVars == <<log, subscribed, from, got>>

Init ==
    /\ log = <<>>
    /\ subscribed = {}
    /\ from = [s \in Subscribers |-> 0]
    /\ got = [s \in Subscribers |-> <<>>]

Publish(e) ==
    /\ log' = Append(log, e)
    /\ UNCHANGED <<subscribed, from, got>>

Subscribe(s) ==
    /\ s \notin subscribed
    /\ subscribed' = subscribed \cup {s}
    /\ from' = [from EXCEPT ![s] = Len(log)]
    /\ UNCHANGED <<log, got>>

(* The next event after the ones s already has.                            *)
Deliver(s) ==
    /\ s \in subscribed
    /\ from[s] + Len(got[s]) < Len(log)
    /\ got' = [got EXCEPT ![s] = Append(@, log[from[s] + Len(got[s]) + 1])]
    /\ UNCHANGED <<log, subscribed, from>>

Unsubscribe(s) ==
    /\ s \in subscribed
    /\ subscribed' = subscribed \ {s}
    /\ UNCHANGED <<log, from, got>>

Next ==
    \/ \E e \in Events : Publish(e)
    \/ \E s \in Subscribers : Subscribe(s) \/ Deliver(s) \/ Unsubscribe(s)

Spec == Init /\ [][Next]_busVars
=============================================================================
