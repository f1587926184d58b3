-------------------------- MODULE EventSystemProofs --------------------------
(***************************************************************************)
(* For any number of goroutines, listeners and events: the maps of the     *)
(* event system stay consistent and, locks and goroutines and all, it      *)
(* implements EventBus.  That a call returns is false, and TLC shows it.   *)
(***************************************************************************)
EXTENDS EventSystem, TLAPS

-----------------------------------------------------------------------------
(* Types.  A register or unregister that is under way has its listener. *)

HasListener == \A p \in Procs :
    at[p] \in {"register", "register_lock", "unregister", "unregister_lock"} =>
        who[p] \in Listeners
TypeInv == EventTypeOK /\ HasListener

LEMMA TypeInit == EventInit => TypeInv
BY ThreadsAssumption
   DEF EventInit, LockInit, TypeInv, EventTypeOK, LockTypeOK, HasListener, At

LEMMA StepType ==
  ASSUME TypeInv, NEW p \in Procs, NEW from, NEW to \in At, Step(p, from, to)
  PROVE  at' \in [Procs -> At]
BY DEF Step, TypeInv, EventTypeOK

LEMMA TypeCalls ==
  ASSUME TypeInv, NEW t \in Threads, EventCall(t)
  PROVE  TypeInv'
<1> t \in Procs
  BY ThreadsAssumption
<1>1. ASSUME NEW l \in Listeners, CallUnregister(t, l) PROVE TypeInv'
  BY <1>1 DEF CallUnregister, Step, eventMaps, emission, lockVars, TypeInv, EventTypeOK,
              LockTypeOK, HasListener, At
<1>2. ASSUME NEW l \in Listeners, NEW e \in Events, CallRegister(t, l, e) PROVE TypeInv'
  BY <1>2 DEF CallRegister, Step, eventMaps, lockVars, TypeInv, EventTypeOK,
              LockTypeOK, HasListener, At
<1>3. ASSUME NEW e \in Events, CallEmit(t, e) PROVE TypeInv'
  BY <1>3 DEF CallEmit, Step, eventMaps, lockVars, TypeInv, EventTypeOK,
              LockTypeOK, HasListener, At
<1>4. ASSUME NEW e \in Events, NEW ids \in SUBSET Listeners, CallEmitTo(t, ids, e)
      PROVE TypeInv'
  BY <1>4 DEF CallEmitTo, Step, eventMaps, lockVars, TypeInv, EventTypeOK,
              LockTypeOK, HasListener, At
<1> QED
  BY <1>1, <1>2, <1>3, <1>4 DEF EventCall

LEMMA TypeSteps ==
  ASSUME TypeInv, NEW p \in Procs, EventStep(p)
  PROVE  TypeInv'
<1>1. CASE WriteLock(p)
  BY <1>1 DEF WriteLock, Announce, Step, eventMaps, emission, TypeInv, EventTypeOK,
              LockTypeOK, HasListener, At
<1>2. CASE Register(p)
  <2>1. who[p] \in Listeners
    BY <1>2 DEF Register, Step, TypeInv, HasListener
  <2>2. LockTypeOK'
    BY <1>2 DEF Register, Unlock, TypeInv, EventTypeOK, LockTypeOK
  <2> QED
    BY <1>2, <2>1, <2>2 DEF Register, Step, emission, TypeInv, EventTypeOK, HasListener, At
<1>3. CASE Unregister(p)
  <2>2. LockTypeOK'
    BY <1>3 DEF Unregister, Unlock, TypeInv, EventTypeOK, LockTypeOK
  <2> QED
    BY <1>3, <2>2 DEF Unregister, Step, emission, TypeInv, EventTypeOK, HasListener, At
<1> QED
  BY <1>1, <1>2, <1>3 DEF EventStep

-----------------------------------------------------------------------------
(* The lock: who holds it, told from where each goroutine is. *)

Waits(p) == p \in blocked
Held(p) ==
    IF at[p] = "inner" THEN (IF Waits(p) THEN 1 ELSE 2)
    ELSE IF at[p] \in {"read", "dispatch"} THEN (IF Waits(p) THEN 0 ELSE 1)
    ELSE IF at[p] = "inner_to" THEN 1 ELSE 0

LockInv ==
    /\ \A p \in Procs : readers[p] = Held(p)
    /\ \A p \in Procs : Waits(p) => at[p] \in {"read", "dispatch", "inner"}
    /\ \A p \in Procs : at[p] \in {"register_lock", "unregister_lock"} => writer = p
    /\ \A p \in Procs : at[p] \in Emitting => p \in Threads

\* What an emission has found, has missed and has still to look up.
LoopInv == \A t \in Threads :
    /\ at[t] = "emit_to" => todo[t] # {} /\ missing[t] = {}
    /\ at[t] = "dispatch" => Named(t) # {} /\ missing[t] \cap subscribers = {}
    /\ at[t] = "dispatch" /\ Waits(t) => missing[t] = {}
    /\ at[t] = "inner_to" => todo[t] = subscriptions[event[t]]
    /\ at[t] = "inner" => todo[t] \cup notified[t] = subscriptions[event[t]]
    /\ at[t] \in {"dispatch", "inner"} => notified[t] \subseteq subscribers
    /\ Waits(t) /\ at[t] # "read" => notified[t] = {}

EventInv == TypeInv /\ ListedAreKnown /\ LockInv /\ LoopInv

LEMMA InvInit == EventInit => EventInv
<1> SUFFICES ASSUME EventInit PROVE EventInv
  OBVIOUS
<1>1. TypeInv
  BY TypeInit
<1>2. LockInv
  BY DEF EventInit, LockInit, LockInv, Held, Waits, Emitting
<1>3. ListedAreKnown
  BY DEF EventInit, ListedAreKnown
<1>4. LoopInv
  BY ThreadsAssumption DEF EventInit, LockInit, LoopInv, Waits
<1> QED
  BY <1>1, <1>2, <1>3, <1>4 DEF EventInv

-----------------------------------------------------------------------------
(* Calls, and the goroutine that emitTo starts *)

LEMMA InvCalls ==
  ASSUME EventInv, NEW t \in Threads, EventCall(t)
  PROVE  EventInv'
<1> t \in Procs
  BY ThreadsAssumption
<1> USE DEF EventInv
<1>0. TypeInv'
  BY TypeCalls
<1>1. UNCHANGED <<readers, blocked, writer, subscriptions, subscribers, notified, missing>>
  BY DEF EventCall, CallUnregister, CallRegister, CallEmit, CallEmitTo, eventMaps,
         emission, lockVars
<1>2. /\ at[t] = "idle"
      /\ \E to \in {"unregister", "register", "emit", "emit_to"} : at' = [at EXCEPT ![t] = to]
      /\ \A u \in Threads \ {t} : event'[u] = event[u] /\ todo'[u] = todo[u]
      /\ at'[t] = "emit_to" => todo'[t] # {} /\ missing[t] = {}
  <2> DEFINE Goal(to) == /\ at[t] = "idle" /\ at' = [at EXCEPT ![t] = to]
                         /\ \A u \in Threads \ {t} : event'[u] = event[u] /\ todo'[u] = todo[u]
                         /\ to = "emit_to" => todo'[t] # {} /\ missing[t] = {}
  <2> event \in [Procs -> Events] /\ todo \in [Threads -> SUBSET Listeners]
    BY DEF TypeInv, EventTypeOK
  <2>1. ASSUME NEW l \in Listeners, CallUnregister(t, l) PROVE Goal("unregister")
    BY <2>1 DEF CallUnregister, Step, emission
  <2>2. ASSUME NEW l \in Listeners, NEW e \in Events, CallRegister(t, l, e) PROVE Goal("register")
    BY <2>2, ThreadsAssumption DEF CallRegister, Step
  <2>3. ASSUME NEW e \in Events, CallEmit(t, e) PROVE Goal("emit")
    BY <2>3, ThreadsAssumption DEF CallEmit, Step
  <2>4. ASSUME NEW e \in Events, NEW ids \in SUBSET Listeners, CallEmitTo(t, ids, e)
        PROVE Goal("emit_to")
    BY <2>4, ThreadsAssumption DEF CallEmitTo, Step
  <2> QED
    BY <2>1, <2>2, <2>3, <2>4 DEF EventCall, TypeInv, EventTypeOK
<1>3. at' \in [Procs -> At] /\ at'[t] \in {"unregister", "register", "emit", "emit_to"}
      /\ \A p \in Procs \ {t} : at'[p] = at[p]
  BY <1>0, <1>2 DEF TypeInv, EventTypeOK
<1>4. LockInv'
  BY <1>1, <1>2, <1>3 DEF LockInv, Held, Waits, Emitting
<1>5. LoopInv' /\ ListedAreKnown'
  BY <1>1, <1>2, <1>3, ThreadsAssumption DEF LoopInv, LockInv, Named, Waits, ListedAreKnown
<1> QED
  BY <1>0, <1>4, <1>5

LEMMA InvCleanup ==
  ASSUME EventInv, NEW t \in Threads, Cleanup(t)
  PROVE  EventInv'
<1> USE DEF EventInv
<1> DEFINE c == CleanupOf[t]
<1>1. c \in Procs \ Threads /\ at[c] = "idle" /\ at' = [at EXCEPT ![c] = "unregister"]
  BY ThreadsAssumption DEF Cleanup, Step
<1>2. UNCHANGED <<readers, blocked, writer, subscriptions, subscribers, todo, notified, event>>
  BY DEF Cleanup, eventMaps, lockVars
<1>3. TypeInv'
  BY <1>1, <1>2 DEF Cleanup, TypeInv, EventTypeOK, LockTypeOK, HasListener, At
<1>4. LockInv'
  BY <1>1, <1>2 DEF LockInv, Held, Waits, Emitting, TypeInv, EventTypeOK
<1>5. /\ at[t] \notin {"dispatch", "inner"}
      /\ missing'[t] \subseteq missing[t]
      /\ \A u \in Threads \ {t} : missing'[u] = missing[u]
  BY DEF Cleanup, TypeInv, EventTypeOK
<1>6. LoopInv'
  BY <1>1, <1>2, <1>5, ThreadsAssumption DEF LoopInv, Named, Waits, TypeInv, EventTypeOK
<1>7. ListedAreKnown'
  BY <1>2 DEF ListedAreKnown
<1> QED
  BY <1>3, <1>4, <1>6, <1>7

-----------------------------------------------------------------------------
(* Writers: they change the maps when no emission is under way *)

\* A goroutine that holds the lock is alone: no emission has read anything.
LEMMA Alone ==
  ASSUME EventInv, NEW p \in Procs, Holds(p), NEW t \in Threads
  PROVE  /\ at[t] \notin {"inner_to", "inner"}
         /\ at[t] \in {"read", "dispatch"} => Waits(t)
<1>1. t \in Procs /\ readers[t] = 0
  BY ThreadsAssumption DEF Holds
<1> QED
  BY <1>1 DEF EventInv, LockInv, Held

\* Unlock lets in those who wait.
LEMMA Unlocked ==
  ASSUME EventInv, NEW p \in Procs, Holds(p), Unlock(p),
         at[p] \in {"register_lock", "unregister_lock"}, at' = [at EXCEPT ![p] = "idle"]
  PROVE  LockInv'
<1>1. at \in [Procs -> At] /\ readers \in [Procs -> Nat]
  BY DEF EventInv, TypeInv, EventTypeOK, LockTypeOK
<1>2. blocked' = {} /\ readers' = [q \in Procs |-> IF q \in blocked THEN readers[q] + 1
                                                    ELSE readers[q]]
  BY DEF Unlock
<1>3. ASSUME NEW q \in Procs PROVE readers'[q] = Held(q)'
  BY <1>1, <1>2 DEF EventInv, LockInv, Held, Waits
<1>4. ASSUME NEW q \in Procs PROVE at'[q] \notin {"register_lock", "unregister_lock"}
  BY <1>1 DEF EventInv, LockInv, Holds
<1> QED
  BY <1>1, <1>2, <1>3, <1>4 DEF LockInv, EventInv, Waits, Emitting

LEMMA InvWriters ==
  ASSUME EventInv, NEW p \in Procs, EventStep(p)
  PROVE  EventInv'
<1> USE DEF EventInv
<1>0. TypeInv'
  BY TypeSteps
<1>1. CASE WriteLock(p)
  <2>1. UNCHANGED <<readers, blocked, subscriptions, subscribers, todo, notified, missing,
                    event>>
        /\ writer = NoProc /\ writer' = p
    BY <1>1 DEF WriteLock, Announce, eventMaps, emission
  <2>2. /\ at[p] \in {"register", "unregister"}
        /\ \E to \in {"register_lock", "unregister_lock"} : at' = [at EXCEPT ![p] = to]
    BY <1>1 DEF WriteLock, Step
  <2>3. \A q \in Procs : at[q] \notin {"register_lock", "unregister_lock"}
    BY <2>1, NoProcAssumption DEF LockInv
  <2>4. LockInv'
    BY <2>1, <2>2, <2>3 DEF LockInv, Held, Waits, Emitting, TypeInv, EventTypeOK
  <2>5. LoopInv' /\ ListedAreKnown'
    BY <2>1, <2>2, ThreadsAssumption
       DEF LoopInv, Named, Waits, ListedAreKnown, TypeInv, EventTypeOK
  <2> QED
    BY <1>0, <2>4, <2>5
<1>2. CASE Register(p) \/ Unregister(p)
  <2>1. /\ Holds(p) /\ Unlock(p) /\ at[p] \in {"register_lock", "unregister_lock"}
        /\ at' = [at EXCEPT ![p] = "idle"] /\ UNCHANGED <<event, todo, notified, missing>>
    BY <1>2 DEF Register, Unregister, Step, emission
  <2>2. LockInv'
    BY <2>1, Unlocked
  <2>3. LoopInv'
    <3> SUFFICES ASSUME NEW t \in Threads PROVE
            /\ at'[t] \notin {"inner_to", "inner"}
            /\ at'[t] = "dispatch" =>
                  notified'[t] = {} /\ missing'[t] = {} /\ Named(t)' # {}
            /\ at'[t] = "emit_to" => todo'[t] # {} /\ missing'[t] = {}
            /\ t \notin blocked'
      BY DEF LoopInv, Waits
    <3>1. at'[t] = at[t] \/ at'[t] = "idle"
      BY <2>1, ThreadsAssumption DEF TypeInv, EventTypeOK
    <3> QED
      BY <2>1, <3>1, Alone DEF LoopInv, Named, Waits, Unlock
  <2>4. ListedAreKnown'
    BY <1>2, <1>0 DEF Register, Unregister, ListedAreKnown, TypeInv, EventTypeOK
  <2> QED
    BY <1>0, <2>2, <2>3, <2>4
<1> QED
  BY <1>1, <1>2 DEF EventStep

-----------------------------------------------------------------------------
(* Emissions *)

\* What every step of an emission leaves alone.
LEMMA EmitFrame ==
  ASSUME EventInv, NEW t \in Threads, EmitStep(t)
  PROVE  /\ UNCHANGED <<subscriptions, subscribers, who, event, writer>>
         /\ at[t] \in Emitting /\ at'[t] \in Emitting \cup {"idle"}
         /\ at' \in [Procs -> At] /\ \A q \in Procs \ {t} : at'[q] = at[q]
         /\ \A q \in Procs \ {t} : (q \in blocked' <=> q \in blocked) /\ readers'[q] = readers[q]
         /\ \A u \in Threads \ {t} : /\ todo'[u] = todo[u] /\ notified'[u] = notified[u]
                                   /\ missing'[u] = missing[u]
<1> t \in Procs
  BY ThreadsAssumption
<1> USE DEF EventInv, TypeInv, EventTypeOK, LockTypeOK
<1>1. CASE OuterRLock(t)
  BY <1>1 DEF OuterRLock, RLock, Step, eventMaps, emission, Emitting, At
<1>2. CASE ReadNone(t)
  BY <1>2 DEF ReadNone, RUnlock, Step, eventMaps, emission, Emitting, At
<1>3. CASE ReadSubscribers(t)
  BY <1>3 DEF ReadSubscribers, Step, eventMaps, lockVars, Emitting, At
<1>4. CASE EmitToRLock(t)
  BY <1>4 DEF EmitToRLock, RLock, Step, eventMaps, Emitting, At
<1>5. CASE Dispatch(t)
  BY <1>5 DEF Dispatch, Dispatching, eventMaps, lockVars, Emitting, At
<1>6. CASE DispatchMissing(t)
  BY <1>6 DEF DispatchMissing, Dispatching, eventMaps, lockVars, Emitting, At
<1>7. CASE EmitToReturns(t)
  BY <1>7 DEF EmitToReturns, RUnlock, Step, eventMaps, Emitting, At
<1> QED
  BY <1>1, <1>2, <1>3, <1>4, <1>5, <1>6, <1>7 DEF EmitStep

\* What the step means for its own goroutine.
EmitPost(t) ==
    /\ readers'[t] = Held(t)' /\ readers' \in [Procs -> Nat] /\ blocked' \subseteq Procs
    /\ Waits(t)' => at'[t] \in {"read", "dispatch", "inner"}
    /\ todo' \in [Threads -> SUBSET Listeners] /\ notified' \in [Threads -> SUBSET Listeners]
    /\ missing' \in [Threads -> SUBSET Listeners]
    /\ delivered' \in [Threads -> SUBSET Listeners]
    /\ at'[t] = "inner_to" => todo'[t] = subscriptions[event[t]]
    /\ at'[t] = "inner" => todo'[t] \cup notified'[t] = subscriptions[event[t]]
    /\ at'[t] \in {"dispatch", "inner"} => notified'[t] \subseteq subscribers
    /\ Waits(t)' /\ at'[t] # "read" => notified'[t] = {}
    /\ at'[t] # "emit_to"
    /\ at'[t] = "dispatch" => Named(t)' # {} /\ missing'[t] \cap subscribers = {}
    /\ at'[t] = "dispatch" /\ Waits(t)' => missing'[t] = {}

LEMMA EmitStepPost ==
  ASSUME EventInv, NEW t \in Threads, EmitStep(t)
  PROVE  EmitPost(t)
<1>0. /\ t \in Procs /\ at \in [Procs -> At] /\ readers \in [Procs -> Nat]
      /\ blocked \subseteq Procs /\ readers[t] = Held(t) /\ event[t] \in Events
      /\ (Waits(t) => at[t] \in {"read", "dispatch", "inner"})
      /\ subscriptions \in [Events -> SUBSET Listeners] /\ subscribers \subseteq Listeners
  BY ThreadsAssumption DEF EventInv, TypeInv, EventTypeOK, LockTypeOK, LockInv
<1>1. /\ todo \in [Threads -> SUBSET Listeners] /\ notified \in [Threads -> SUBSET Listeners]
      /\ missing \in [Threads -> SUBSET Listeners]
      /\ delivered \in [Threads -> SUBSET Listeners]
  BY DEF EventInv, TypeInv, EventTypeOK
<1>2. /\ at[t] = "inner_to" => todo[t] = subscriptions[event[t]]
      /\ at[t] = "inner" => todo[t] \cup notified[t] = subscriptions[event[t]]
      /\ at[t] \in {"dispatch", "inner"} => notified[t] \subseteq subscribers
      /\ Waits(t) /\ at[t] # "read" => notified[t] = {}
      /\ at[t] = "emit_to" => todo[t] # {} /\ missing[t] = {}
      /\ at[t] = "dispatch" => Named(t) # {} /\ missing[t] \cap subscribers = {}
      /\ at[t] = "dispatch" /\ Waits(t) => missing[t] = {}
      /\ subscriptions[event[t]] \subseteq subscribers
  BY <1>0 DEF EventInv, LoopInv, ListedAreKnown
<1> USE <1>0, <1>1, <1>2
<1>3. CASE OuterRLock(t)
  BY <1>3 DEF OuterRLock, RLock, Step, emission, EmitPost, Held, Named, Waits
<1>4. CASE ReadNone(t)
  BY <1>4 DEF ReadNone, RUnlock, Step, emission, EmitPost, Held, Named, Waits
<1>5. CASE ReadSubscribers(t)
  BY <1>5 DEF ReadSubscribers, Step, lockVars, EmitPost, Held, Named, Waits
<1>6. CASE EmitToRLock(t)
  BY <1>6 DEF EmitToRLock, RLock, Step, EmitPost, Held, Named, Waits
<1>7. CASE Dispatch(t)
  BY <1>7 DEF Dispatch, Dispatching, lockVars, EmitPost, Held, Named, Waits
<1>8. CASE DispatchMissing(t)
  BY <1>8 DEF DispatchMissing, Dispatching, lockVars, EmitPost, Held, Named, Waits
<1>9. CASE EmitToReturns(t)
  BY <1>9 DEF EmitToReturns, Dispatching, RUnlock, Step, EmitPost, Held, Named, Waits
<1> QED
  BY <1>3, <1>4, <1>5, <1>6, <1>7, <1>8, <1>9 DEF EmitStep

LEMMA InvEmit ==
  ASSUME EventInv, NEW t \in Threads, EmitStep(t)
  PROVE  EventInv'
<1> t \in Procs
  BY ThreadsAssumption
<1>0. EmitPost(t)
  BY EmitStepPost
<1>1. TypeInv'
  BY <1>0, EmitFrame DEF EmitPost, EventInv, TypeInv, EventTypeOK, LockTypeOK, HasListener, Emitting
<1>2. LockInv'
  <2>1. ASSUME NEW q \in Procs \ {t} PROVE readers'[q] = Held(q)' /\ (Waits(q)' <=> Waits(q))
    BY EmitFrame DEF EventInv, LockInv, Held, Waits
  <2> QED
    BY <2>1, <1>0, EmitFrame DEF EmitPost, EventInv, LockInv, Emitting
<1>3. LoopInv'
  <2> SUFFICES ASSUME NEW u \in Threads PROVE
        /\ at'[u] = "inner_to" => todo'[u] = subscriptions[event[u]]
        /\ at'[u] = "inner" => todo'[u] \cup notified'[u] = subscriptions[event[u]]
        /\ at'[u] \in {"dispatch", "inner"} => notified'[u] \subseteq subscribers
        /\ Waits(u)' /\ at'[u] # "read" => notified'[u] = {}
        /\ at'[u] = "emit_to" => todo'[u] # {} /\ missing'[u] = {}
        /\ at'[u] = "dispatch" => Named(u)' # {} /\ missing'[u] \cap subscribers = {}
        /\ at'[u] = "dispatch" /\ Waits(u)' => missing'[u] = {}
    BY EmitFrame DEF LoopInv
  <2>1. CASE u = t
    BY <2>1, <1>0 DEF EmitPost
  <2>2. CASE u # t
    <3> u \in Procs \ {t}
      BY <2>2, ThreadsAssumption
    <3> QED
      BY <2>2, EmitFrame DEF EventInv, LoopInv, Named, Waits
  <2> QED
    BY <2>1, <2>2
<1>4. ListedAreKnown'
  BY EmitFrame DEF EventInv, ListedAreKnown
<1> QED
  BY <1>1, <1>2, <1>3, <1>4 DEF EventInv

LEMMA InvNext == EventInv /\ [EventNext]_eventVars => EventInv'
<1> SUFFICES ASSUME EventInv, [EventNext]_eventVars PROVE EventInv'
  OBVIOUS
<1>1. CASE UNCHANGED eventVars
  BY <1>1 DEF eventVars, lockVars, eventMaps, emission, EventInv, TypeInv, EventTypeOK,
      LockTypeOK, HasListener, ListedAreKnown, LockInv, LoopInv, Held, Named, Waits
<1>2. CASE EventNext
  BY <1>2, InvWriters, InvCalls, InvCleanup, InvEmit DEF EventNext
<1> QED
  BY <1>1, <1>2

-----------------------------------------------------------------------------
(* The theorems *)

\* Registering and unregistering, at the same time as any emissions and their
\* cleanup goroutines, never leaves a listener on a list that is not known.
THEOREM EventMapsAgree == EventSpec => [](EventTypeOK /\ ListedAreKnown)
<1>1. EventInv => EventTypeOK /\ ListedAreKnown
  BY DEF EventInv, TypeInv
<1> QED
  BY <1>1, InvInit, InvNext, PTL DEF EventSpec

\* The emission of a goroutine, as EventBus has it.
Topic(t) == IF at[t] \in Emitting THEN {event[t]} ELSE {}

\* A step that changes one goroutine's emission changes one entry there.
LEMMA OneEmission ==
  ASSUME EventInv, NEW t \in Threads,
         \A u \in Threads \ {t} : Topic(u)' = Topic(u) /\ Named(u)' = Named(u)
  PROVE  /\ [u \in Threads |-> Topic(u)]'
               = [[u \in Threads |-> Topic(u)] EXCEPT ![t] = Topic(t)']
         /\ [u \in Threads |-> Named(u)]'
               = [[u \in Threads |-> Named(u)] EXCEPT ![t] = Named(t)']
OBVIOUS

\* The steps of one emission.
LEMMA BusEmission ==
  ASSUME EventInv, NEW t \in Threads, EmitStep(t)
  PROVE  [Bus!BusNext]_(Bus!busVars)
<1> USE DEF Bus!busVars, Bus!busMaps, Topic
<1> DEFINE topics == [u \in Threads |-> Topic(u)]
           named == [u \in Threads |-> Named(u)]
<1>0. /\ t \in Procs /\ event[t] \in Events /\ at[t] \in Emitting
      /\ UNCHANGED <<subscriptions, subscribers, event>>
      /\ at \in [Procs -> At] /\ todo \in [Threads -> SUBSET Listeners]
      /\ notified \in [Threads -> SUBSET Listeners] /\ missing \in [Threads -> SUBSET Listeners]
  BY EmitFrame, ThreadsAssumption DEF EventInv, TypeInv, EventTypeOK
<1>1. \A u \in Threads \ {t} : Topic(u)' = Topic(u) /\ Named(u)' = Named(u)
  BY EmitFrame, ThreadsAssumption DEF Named
<1>2. /\ topics' = [topics EXCEPT ![t] = Topic(t)'] /\ named' = [named EXCEPT ![t] = Named(t)']
  BY <1>1, OneEmission
<1>3. ASSUME Topic(t)' = Topic(t), Named(t)' = Named(t), UNCHANGED delivered
      PROVE  UNCHANGED Bus!busVars
  BY <1>0, <1>2, <1>3
<1>4. CASE OuterRLock(t) \/ ReadSubscribers(t)
  BY <1>0, <1>3, <1>4 DEF OuterRLock, ReadSubscribers, Step, emission, Emitting, Named
<1>5. CASE EmitToRLock(t)
  <2>1. Named(t)' = Named(t)
    BY <1>0, <1>5 DEF EmitToRLock, Step, Named, EventInv, LoopInv
  <2> QED
    BY <1>0, <1>3, <1>5, <2>1 DEF EmitToRLock, Step, Emitting
<1>6. CASE Dispatch(t) \/ DispatchMissing(t)
  <2>1. Named(t)' = Named(t) /\ UNCHANGED <<at, delivered>>
    BY <1>0, <1>6 DEF Dispatch, DispatchMissing, Dispatching, Named
  <2> QED
    BY <1>0, <1>3, <2>1
<1>7. ASSUME at[t] \in {"read", "inner"}, at'[t] = "idle",
             delivered' = [delivered EXCEPT ![t] = subscriptions[event[t]]]
      PROVE  Bus!DeliverAll(t)
  <2>1. topics[t] = {event[t]} /\ named[t] = {} /\ Topic(t)' = {} /\ Named(t)' = {}
    BY <1>7 DEF Emitting, Named
  <2>2. named' = named
    BY <1>2, <2>1
  <2> QED
    BY <1>0, <1>2, <1>7, <2>1, <2>2 DEF Bus!DeliverAll
<1>8. CASE ReadNone(t)
  BY <1>0, <1>7, <1>8 DEF ReadNone, Step, Bus!BusNext
<1>9. CASE EmitToReturns(t) /\ at[t] = "inner"
  <2>0. todo[t] \cup notified[t] = subscriptions[event[t]]
    BY <1>9 DEF EventInv, LoopInv
  <2>1. notified[t] = subscriptions[event[t]]
    BY <1>9, <2>0 DEF EmitToReturns
  <2> QED
    BY <1>0, <1>7, <1>9, <2>1 DEF EmitToReturns, Step, Bus!BusNext
<1>10. CASE EmitToReturns(t) /\ at[t] = "dispatch"
  <2>1. /\ todo[t] = {} /\ at'[t] = "emit"
        /\ delivered' = [delivered EXCEPT ![t] = notified[t]]
    BY <1>0, <1>10 DEF EmitToReturns, Step
  <2>2. named[t] # {} /\ notified[t] = named[t] \cap subscribers /\ Named(t)' = {}
    BY <1>10, <2>1 DEF EventInv, LoopInv, Named
  <2>3. topics' = topics
    BY <1>0, <1>2, <1>10, <2>1 DEF Emitting
  <2>4. Bus!DeliverNamed(t)
    BY <1>0, <1>2, <2>1, <2>2, <2>3 DEF Bus!DeliverNamed
  <2> QED
    BY <2>4 DEF Bus!BusNext
<1> QED
  BY <1>4, <1>5, <1>6, <1>8, <1>9, <1>10 DEF EmitStep, EmitToReturns, Dispatching

\* A call that emits is the request for it; the others ask nothing yet.
LEMMA BusCall ==
  ASSUME EventInv, NEW t \in Threads, EventCall(t)
  PROVE  [Bus!BusNext]_(Bus!busVars)
<1> USE DEF Bus!busVars, Bus!busMaps, Topic
<1> DEFINE topics == [u \in Threads |-> Topic(u)]
           named == [u \in Threads |-> Named(u)]
<1>0. /\ t \in Procs /\ at[t] = "idle" /\ at \in [Procs -> At] /\ event \in [Procs -> Events]
      /\ todo \in [Threads -> SUBSET Listeners]
      /\ UNCHANGED <<subscriptions, subscribers, notified, missing, delivered>>
  BY ThreadsAssumption
     DEF EventCall, CallUnregister, CallRegister, CallEmit, CallEmitTo, Step, eventMaps,
         emission, EventInv, TypeInv, EventTypeOK
<1>1. topics[t] = {} /\ named[t] = {}
  BY <1>0 DEF Emitting, Named
<1>2. ASSUME \A u \in Threads \ {t} : at'[u] = at[u] /\ event'[u] = event[u] /\ todo'[u] = todo[u]
      PROVE  /\ topics' = [topics EXCEPT ![t] = Topic(t)']
             /\ named' = [named EXCEPT ![t] = Named(t)']
  <2>1. \A u \in Threads \ {t} : Topic(u)' = Topic(u) /\ Named(u)' = Named(u)
    BY <1>0, <1>2 DEF Named
  <2> QED
    BY <2>1, OneEmission
<1>3. ASSUME NEW l \in Listeners, CallUnregister(t, l) \/ \E e \in Events : CallRegister(t, l, e)
      PROVE  UNCHANGED Bus!busVars
  <2>1. \A u \in Threads \ {t} : at'[u] = at[u] /\ event'[u] = event[u] /\ todo'[u] = todo[u]
    BY <1>0, <1>3, ThreadsAssumption DEF CallUnregister, CallRegister, Step, emission
  <2>2. at'[t] \in {"register", "unregister"}
    BY <1>0, <1>3 DEF CallUnregister, CallRegister, Step
  <2> QED
    BY <1>0, <1>1, <1>2, <2>1, <2>2 DEF Emitting, Named
<1>4. ASSUME NEW e \in Events, CallEmit(t, e) PROVE Bus!Ask(t, {}, e)
  <2>1. \A u \in Threads \ {t} : at'[u] = at[u] /\ event'[u] = event[u] /\ todo'[u] = todo[u]
    BY <1>0, <1>4, ThreadsAssumption DEF CallEmit, Step
  <2>2. at'[t] = "emit" /\ event'[t] = e
    BY <1>0, <1>4 DEF CallEmit, Step
  <2> QED
    BY <1>0, <1>1, <1>2, <2>1, <2>2 DEF Emitting, Named, Bus!Ask
<1>5. ASSUME NEW e \in Events, NEW ids \in SUBSET Listeners, CallEmitTo(t, ids, e)
      PROVE  Bus!Ask(t, ids, e)
  <2>1. \A u \in Threads \ {t} : at'[u] = at[u] /\ event'[u] = event[u] /\ todo'[u] = todo[u]
    BY <1>0, <1>5, ThreadsAssumption DEF CallEmitTo, Step
  <2>2. at'[t] = "emit_to" /\ event'[t] = e /\ todo'[t] = ids
    BY <1>0, <1>5 DEF CallEmitTo, Step
  <2> QED
    BY <1>0, <1>1, <1>2, <2>1, <2>2 DEF Emitting, Named, Bus!Ask
<1> QED
  BY <1>3, <1>4, <1>5 DEF EventCall, Bus!BusNext

\* Each step is one of EventBus or changes nothing there.
LEMMA BusStep ==
  ASSUME EventInv, [EventNext]_eventVars
  PROVE  [Bus!BusNext]_(Bus!busVars)
<1> USE DEF Bus!busVars, Bus!busMaps
<1>1. CASE UNCHANGED eventVars
  BY <1>1 DEF eventVars, eventMaps, emission, Named
<1>2. ASSUME NEW p \in Procs, EventStep(p) PROVE [Bus!BusNext]_(Bus!busVars)
  <2> DEFINE topics == [t \in Threads |-> Topic(t)]
             named == [t \in Threads |-> Named(t)]
  <2>1. UNCHANGED emission /\ at \in [Procs -> At]
    BY <1>2 DEF EventStep, WriteLock, Register, Unregister, emission, EventInv, TypeInv,
                EventTypeOK
  <2>2. /\ at[p] \in {"register", "unregister", "register_lock", "unregister_lock"}
        /\ \E to \in {"register_lock", "unregister_lock", "idle"} : at' = [at EXCEPT ![p] = to]
    BY <1>2 DEF EventStep, WriteLock, Register, Unregister, Step
  <2>3. UNCHANGED <<topics, named>>
    <3> SUFFICES ASSUME NEW t \in Threads PROVE Topic(t)' = Topic(t) /\ Named(t)' = Named(t)
      OBVIOUS
    <3> t \in Procs
      BY ThreadsAssumption
    <3> QED
      BY <2>1, <2>2 DEF emission, Topic, Emitting, Named
  <2>4. CASE WriteLock(p)
    BY <2>3, <2>4 DEF WriteLock, eventMaps, emission, Topic
  <2>5. CASE Register(p)
    <3>1. who[p] \in Listeners /\ event[p] \in Events
      BY <2>5 DEF Register, Step, EventInv, TypeInv, HasListener, EventTypeOK
    <3> QED
      BY <2>3, <2>5, <3>1 DEF Register, emission, Topic, Bus!BusNext, Bus!Subscribe
  <2>6. CASE Unregister(p)
    <3>1. who[p] \in Listeners
      BY <2>6 DEF Unregister, Step, EventInv, TypeInv, HasListener
    <3> QED
      BY <2>3, <2>6, <3>1 DEF Unregister, emission, Topic, Bus!BusNext, Bus!Unsubscribe
  <2> QED
    BY <1>2, <2>4, <2>5, <2>6 DEF EventStep
<1>3. ASSUME NEW t \in Threads, Cleanup(t) PROVE UNCHANGED Bus!busVars
  <2>0. /\ at[t] \notin {"dispatch", "inner"}
        /\ at' = [at EXCEPT ![CleanupOf[t]] = "unregister"]
        /\ \E l \in missing[t] : missing' = [missing EXCEPT ![t] = @ \ {l}]
        /\ UNCHANGED <<eventMaps, event, todo, notified, delivered>>
    BY <1>3 DEF Cleanup, Step
  <2>1. /\ \A u \in Threads : at'[u] = at[u]
        /\ \A u \in Threads \ {t} : missing'[u] = missing[u]
    <3>1. at \in [Procs -> At] /\ missing \in [Threads -> SUBSET Listeners]
      BY DEF EventInv, TypeInv, EventTypeOK
    <3>2. CleanupOf[t] \notin Threads /\ Threads \subseteq Procs
      BY ThreadsAssumption
    <3> QED
      BY <2>0, <3>1, <3>2
  <2>2. \A u \in Threads : Topic(u)' = Topic(u) /\ Named(u)' = Named(u)
    BY <2>0, <2>1 DEF Topic, Named
  <2>3. UNCHANGED <<[u \in Threads |-> Topic(u)], [u \in Threads |-> Named(u)]>>
    BY <2>2
  <2> QED
    BY <2>0, <2>3 DEF eventMaps, Topic
<1> QED
  BY <1>1, <1>2, <1>3, BusCall, BusEmission DEF EventNext

\* Locks, loops and goroutines come to atomic changes and atomic dispatches.
THEOREM ImplementsBus == EventSpec => BusSpec
<1>1. EventInit => Bus!BusInit
  BY ThreadsAssumption DEF EventInit, Bus!BusInit, Emitting, Named
<1>2. EventInv /\ [EventNext]_eventVars => [Bus!BusNext]_(Bus!busVars)
  BY BusStep
<1> QED
  BY <1>1, <1>2, InvInit, InvNext, PTL DEF EventSpec, BusSpec, Bus!BusSpec

==============================================================================
