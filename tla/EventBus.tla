------------------------------ MODULE EventBus ------------------------------
(***************************************************************************)
(* What the event system promises its callers: subscriptions change and    *)
(* events are dispatched in one indivisible step each.  An event that is   *)
(* emitted reaches exactly the listeners subscribed to it at one moment    *)
(* of the call, never a mixture of the list before and after a change, and *)
(* one that names recipients reaches, before that, exactly those of them   *)
(* that are known at one moment.                                           *)
(***************************************************************************)
CONSTANTS
    Listeners,  \* plugin IDs
    Events,     \* event names
    Threads     \* goroutines that emit

VARIABLES
    subscriptions,  \* who listens to each event
    subscribers,    \* the listeners that are known
    topic,          \* topic[t]: the event t is emitting, {} if it emits none
    recipients,     \* recipients[t]: those it names that are still to be told
    delivered       \* whom the last dispatch of each goroutine notified

busMaps == <<subscriptions, subscribers>>
busVars == <<busMaps, topic, recipients, delivered>>

BusInit ==
    /\ subscriptions = [e \in Events |-> {}]
    /\ subscribers = {}
    /\ topic = [t \in Threads |-> {}]
    /\ recipients = [t \in Threads |-> {}]
    /\ delivered = [t \in Threads |-> {}]

Subscribe(l, e) ==
    /\ subscriptions' = [subscriptions EXCEPT ![e] = @ \cup {l}]
    /\ subscribers' = subscribers \cup {l}
    /\ UNCHANGED <<topic, recipients, delivered>>

Unsubscribe(l) ==
    /\ subscriptions' = [e \in Events |-> subscriptions[e] \ {l}]
    /\ subscribers' = subscribers \ {l}
    /\ UNCHANGED <<topic, recipients, delivered>>

\* t calls Emit (nobody is named), or EmitToSubscribersAnd.
Ask(t, ids, e) ==
    /\ topic[t] = {} /\ topic' = [topic EXCEPT ![t] = {e}]
    /\ recipients' = [recipients EXCEPT ![t] = ids]
    /\ UNCHANGED <<busMaps, delivered>>

\* To those it names: all that are known, and only they.
DeliverNamed(t) ==
    /\ recipients[t] # {}
    /\ delivered' = [delivered EXCEPT ![t] = recipients[t] \cap subscribers]
    /\ recipients' = [recipients EXCEPT ![t] = {}]
    /\ UNCHANGED <<busMaps, topic>>

\* Then to the subscribers of the event: all of them, and only they.
DeliverAll(t) ==
    /\ recipients[t] = {}
    /\ \E e \in topic[t] : delivered' = [delivered EXCEPT ![t] = subscriptions[e]]
    /\ topic' = [topic EXCEPT ![t] = {}]
    /\ UNCHANGED <<busMaps, recipients>>

BusNext ==
    \/ \E l \in Listeners : Unsubscribe(l) \/ \E e \in Events : Subscribe(l, e)
    \/ \E t \in Threads, ids \in SUBSET Listeners, e \in Events : Ask(t, ids, e)
    \/ \E t \in Threads : DeliverNamed(t) \/ DeliverAll(t)

BusSpec == BusInit /\ [][BusNext]_busVars

==============================================================================
