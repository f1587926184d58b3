----------------------------- MODULE EventSystem -----------------------------
(***************************************************************************)
(* The event system (mod/eventsystem): plugins register for events, and    *)
(* whoever serves a request emits them.  One RWMutex guards both maps.     *)
(* Emit takes the read lock and, still holding it, calls emitTo, which     *)
(* takes it again.  Listeners that emitTo does not find are unregistered   *)
(* by a goroutine of its own, after emitTo has returned.                   *)
(*                                                                         *)
(* Grain: one action per lock operation and per listener notified.  What a *)
(* notified plugin does is not modelled: Notify changes nothing here.      *)
(***************************************************************************)
EXTENDS RWMutex, FiniteSets

CONSTANTS
    Listeners,  \* plugin IDs
    Events,     \* valid event names
    Threads,    \* goroutines that call the event system
    CleanupOf,  \* CleanupOf[t]: the goroutine emitTo starts in t's name
    NoOne       \* no listener

ASSUME ThreadsAssumption ==
    /\ Threads \subseteq Procs
    /\ CleanupOf \in [Threads -> Procs \ Threads]
    /\ \A t, u \in Threads : CleanupOf[t] = CleanupOf[u] => t = u
    /\ NoOne \notin Listeners

VARIABLES
    subscriptions,  \* event name -> the listeners on its list
    subscribers,    \* the keys of the map of listeners
    at,             \* where each goroutine is
    who,            \* the listener a register or unregister is about
    event,          \* the event a register or an emission is about
    todo,           \* listeners emitTo has still to look up
    notified,       \* listeners emitTo has started a Notify for
    missing,        \* listeners a cleanup goroutine has to unregister
    delivered       \* history: the listeners the last dispatch notified

eventMaps == <<subscriptions, subscribers>>
emission == <<event, todo, notified, missing, delivered>>
eventVars == <<lockVars, eventMaps, at, who, emission>>

At == {"idle", "register", "unregister", "register_lock", "unregister_lock",
       "emit", "read", "emit_to", "inner_to", "dispatch", "inner"}

EventTypeOK ==
    /\ LockTypeOK
    /\ subscriptions \in [Events -> SUBSET Listeners] /\ subscribers \subseteq Listeners
    /\ at \in [Procs -> At] /\ who \in [Procs -> Listeners \cup {NoOne}]
    /\ event \in [Procs -> Events]
    /\ todo \in [Threads -> SUBSET Listeners] /\ notified \in [Threads -> SUBSET Listeners]
    /\ missing \in [Threads -> SUBSET Listeners]
    /\ delivered \in [Threads -> SUBSET Listeners]

EventInit ==
    /\ LockInit
    /\ subscriptions = [e \in Events |-> {}] /\ subscribers = {}
    /\ at = [p \in Procs |-> "idle"] /\ who = [p \in Procs |-> NoOne]
    /\ event \in {[p \in Procs |-> e] : e \in Events}
    /\ todo = [t \in Threads |-> {}] /\ notified = [t \in Threads |-> {}]
    /\ missing = [t \in Threads |-> {}] /\ delivered = [t \in Threads |-> {}]

Step(p, from, to) == at[p] = from /\ at' = [at EXCEPT ![p] = to]

-----------------------------------------------------------------------------
(* RegisterSubscriberToEvent and UnregisterSubscriber *)

CallRegister(p, l, e) ==
    /\ Step(p, "idle", "register")
    /\ who' = [who EXCEPT ![p] = l] /\ event' = [event EXCEPT ![p] = e]
    /\ UNCHANGED <<lockVars, eventMaps, todo, notified, missing, delivered>>

CallUnregister(p, l) ==
    /\ Step(p, "idle", "unregister")
    /\ who' = [who EXCEPT ![p] = l]
    /\ UNCHANGED <<lockVars, eventMaps, emission>>

WriteLock(p) ==
    /\ \/ Step(p, "register", "register_lock")
       \/ Step(p, "unregister", "unregister_lock")
    /\ Announce(p)
    /\ UNCHANGED <<eventMaps, who, emission>>

Register(p) ==
    /\ Holds(p) /\ Step(p, "register_lock", "idle")
    /\ subscribers' = subscribers \cup {who[p]}
    /\ subscriptions' = [subscriptions EXCEPT ![event[p]] = @ \cup {who[p]}]
    /\ who' = [who EXCEPT ![p] = NoOne]
    /\ Unlock(p)
    /\ UNCHANGED emission

\* mutant: the listener is taken from the map of listeners only.
Unregister_KeepsLists(p) ==
    /\ Holds(p) /\ Step(p, "unregister_lock", "idle")
    /\ subscribers' = subscribers \ {who[p]}
    /\ who' = [who EXCEPT ![p] = NoOne]
    /\ Unlock(p)
    /\ UNCHANGED <<subscriptions, emission>>

Unregister(p) ==
    /\ Holds(p) /\ Step(p, "unregister_lock", "idle")
    /\ subscriptions' = [e \in Events |-> subscriptions[e] \ {who[p]}]
    /\ subscribers' = subscribers \ {who[p]}
    /\ who' = [who EXCEPT ![p] = NoOne]
    /\ Unlock(p)
    /\ UNCHANGED emission

-----------------------------------------------------------------------------
(* Emit, EmitToSubscribersAnd and emitTo *)

CallEmit(t, e) ==
    /\ Step(t, "idle", "emit")
    /\ event' = [event EXCEPT ![t] = e]
    /\ UNCHANGED <<lockVars, eventMaps, who, todo, notified, missing, delivered>>

\* EmitToSubscribersAnd calls emitTo with its recipients, without a lock.
\* bound: t has one cleanup goroutine at a time.
CallEmitTo(t, ids, e) ==
    /\ at[CleanupOf[t]] = "idle" /\ missing[t] = {}
    /\ ids # {} /\ Step(t, "idle", "emit_to")
    /\ event' = [event EXCEPT ![t] = e] /\ todo' = [todo EXCEPT ![t] = ids]
    /\ UNCHANGED <<lockVars, eventMaps, who, notified, missing, delivered>>

OuterRLock(t) ==
    /\ Step(t, "emit", "read") /\ RLock(t)
    /\ UNCHANGED <<eventMaps, who, emission>>

\* No subscribers: the deferred RUnlock, and that is all.
ReadNone(t) ==
    /\ t \notin blocked /\ Step(t, "read", "idle")
    /\ subscriptions[event[t]] = {}
    /\ RUnlock(t, 1)
    /\ delivered' = [delivered EXCEPT ![t] = {}]
    /\ UNCHANGED <<eventMaps, who, event, todo, notified, missing>>

\* mutant: the lock is let go between reading the list and dispatching to it.
ReadSubscribers_LetsGo(t) ==
    /\ t \notin blocked /\ Step(t, "read", "inner_to")
    /\ subscriptions[event[t]] # {}
    /\ todo' = [todo EXCEPT ![t] = subscriptions[event[t]]]
    /\ RUnlock(t, 1)
    /\ UNCHANGED <<eventMaps, who, event, notified, missing, delivered>>

ReadSubscribers(t) ==
    /\ t \notin blocked /\ Step(t, "read", "inner_to")
    /\ subscriptions[event[t]] # {}
    /\ todo' = [todo EXCEPT ![t] = subscriptions[event[t]]]
    /\ UNCHANGED <<lockVars, eventMaps, who, event, notified, missing, delivered>>

\* emitTo takes the read lock itself: "inner" when its caller has it already.
EmitToRLock(t) ==
    /\ Step(t, "emit_to", "dispatch") \/ Step(t, "inner_to", "inner")
    /\ RLock(t)
    /\ notified' = [notified EXCEPT ![t] = {}]
    /\ UNCHANGED <<eventMaps, who, event, todo, missing, delivered>>

Dispatching(t) == t \notin blocked /\ at[t] \in {"dispatch", "inner"}

\* A goroutine runs Notify.
Dispatch(t) ==
    /\ Dispatching(t)
    /\ \E l \in todo[t] \cap subscribers :
          /\ todo' = [todo EXCEPT ![t] = @ \ {l}]
          /\ notified' = [notified EXCEPT ![t] = @ \cup {l}]
    /\ UNCHANGED <<lockVars, eventMaps, at, who, event, missing, delivered>>

DispatchMissing(t) ==
    /\ Dispatching(t)
    /\ \E l \in todo[t] \ subscribers :
          /\ todo' = [todo EXCEPT ![t] = @ \ {l}]
          /\ missing' = [missing EXCEPT ![t] = @ \cup {l}]
    /\ UNCHANGED <<lockVars, eventMaps, at, who, event, notified, delivered>>

\* mutant: the read lock is given back twice whoever called.
EmitToReturns_UnlocksTwice(t) ==
    /\ Dispatching(t) /\ todo[t] = {}
    /\ Step(t, "dispatch", "emit") \/ Step(t, "inner", "idle")
    /\ RUnlock(t, 2)
    /\ delivered' = [delivered EXCEPT ![t] = notified[t]]
    /\ UNCHANGED <<eventMaps, who, event, todo, notified, missing>>

\* emitTo returns: to EmitToSubscribersAnd, which goes on as Emit does, or to
\* the caller of Emit, which gives both read locks back.
EmitToReturns(t) ==
    /\ Dispatching(t) /\ todo[t] = {}
    /\ \/ Step(t, "dispatch", "emit") /\ RUnlock(t, 1)
       \/ Step(t, "inner", "idle") /\ RUnlock(t, 2)
    /\ delivered' = [delivered EXCEPT ![t] = notified[t]]
    /\ UNCHANGED <<eventMaps, who, event, todo, notified, missing>>

\* The goroutine emitTo started, once emitTo no longer adds to its list.
Cleanup(t) ==
    /\ at[t] \notin {"dispatch", "inner"}
    /\ \E l \in missing[t] :
          /\ Step(CleanupOf[t], "idle", "unregister")
          /\ who' = [who EXCEPT ![CleanupOf[t]] = l]
          /\ missing' = [missing EXCEPT ![t] = @ \ {l}]
    /\ UNCHANGED <<lockVars, eventMaps, event, todo, notified, delivered>>

-----------------------------------------------------------------------------
EventStep(p) ==
    \/ WriteLock(p) \/ Register(p) \/ Unregister(p)
EmitStep(t) ==
    \/ OuterRLock(t) \/ ReadNone(t) \/ ReadSubscribers(t) \/ EmitToRLock(t)
    \/ Dispatch(t) \/ DispatchMissing(t) \/ EmitToReturns(t)

\* Any goroutine makes any call.
EventCall(t) ==
    \/ \E l \in Listeners : CallUnregister(t, l) \/ \E e \in Events : CallRegister(t, l, e)
    \/ \E e \in Events : CallEmit(t, e) \/ \E ids \in SUBSET Listeners : CallEmitTo(t, ids, e)

EventNext ==
    \/ \E p \in Procs : EventStep(p)
    \/ \E t \in Threads : EmitStep(t) \/ Cleanup(t) \/ EventCall(t)

EventSpec == EventInit /\ [][EventNext]_eventVars
\* The Go scheduler runs every goroutine that can run.
FairEventSpec ==
    /\ EventSpec
    /\ \A p \in Procs : WF_eventVars(EventStep(p))
    /\ \A t \in Threads : WF_eventVars(EmitStep(t)) /\ WF_eventVars(Cleanup(t))

-----------------------------------------------------------------------------
(* Properties *)

\* The two maps agree: a listener on a list is known (emitTo reports the ones
\* it does not find as lost), so only a recipient named by a plugin can be missing.
ListedAreKnown == \A e \in Events : subscriptions[e] \subseteq subscribers

\* Emit and EmitToSubscribersAnd, with their locks, their loop and the cleanup
\* goroutine, come to what EventBus says: an event reaches the recipients it
\* names and then all its subscribers, each as of one moment.
Emitting == {"emit", "read", "emit_to", "inner_to", "dispatch", "inner"}
Named(t) == CASE at[t] = "emit_to" -> todo[t]
              [] at[t] = "dispatch" -> todo[t] \cup notified[t] \cup missing[t]
              [] OTHER -> {}
Bus == INSTANCE EventBus WITH
    topic <- [t \in Threads |-> IF at[t] \in Emitting THEN {event[t]} ELSE {}],
    recipients <- [t \in Threads |-> Named(t)]
BusSpec == Bus!BusSpec

\* A call returns: "Dispatch to all subscribers asynchronously" does not make
\* the request that emits an event wait for the management of plugins.
EmitReturns == \A t \in Threads : at[t] = "emit" ~> at[t] = "idle"

==============================================================================
