------------------------ MODULE PluginLifecycleProofs ------------------------
(***************************************************************************)
(* For any plugins, processes and events:                                  *)
(* - a plugin that was disabled is enabled by nothing but the request to   *)
(*   enable it;                                                            *)
(* - the manager uses the event system as any caller of it, so that what   *)
(*   EventSystemProofs shows of all callers is true here;                  *)
(* - a rebuild, a reload or a boot loses no process that runs, and a       *)
(*   stopped plugin leaves nothing behind that the manager has.            *)
(***************************************************************************)
EXTENDS PluginLifecycle, EventSystemProofs

Starting == {"key", "spawn", "ui", "set"}
Stopping == {"term", "signal", "kill", "unset", "revoke", "unsubscribe", "unsubscribed"}
Off == {"revoke", "unsubscribe", "unsubscribed", "db_off"}

StateTypes ==
    /\ db \in [Listeners -> BOOLEAN] /\ enabled \in [Listeners -> BOOLEAN]
    /\ pc \in PC /\ op \in Ops /\ cur \in Listeners \cup {NoOne} /\ left \subseteq Listeners
    /\ evs \subseteq Events

\* Which request a step belongs to.
OfRequest ==
    /\ pc \in Starting \cup Stopping \cup {"subscribe", "routers", "db_off", "build", "drop"} =>
          cur \in Listeners
    /\ pc \in Stopping => op \in {"disable", "rebuild", "reload", "close"}
    /\ pc = "db_off" => op = "disable"
    /\ pc = "build" => op = "rebuild"
    /\ pc \in Starting => op \in {"boot", "enable", "rebuild"}

\* What is started is on, and so is what is still to be started.
OnlyStored ==
    /\ pc \in Starting => db[cur]
    /\ op = "boot" => \A l \in left : db[l]
    /\ op = "rebuild" => \A l \in left : l = cur /\ db[l]

\* The database is told that a plugin is off when it is not enabled any more.
OffBeforeStored == pc \in Off => ~enabled[cur]

IInv == StateTypes /\ OfRequest /\ OnlyStored /\ OffBeforeStored /\ DisabledStaysOff

-----------------------------------------------------------------------------
(* Disabled stays off.  The event system and the processes can be left out of  *)
(* the argument: no step of theirs enables a plugin or writes the database.    *)

USE DEF StateTypes, Ops, PC, Starting, Stopping, Off

LEMMA RequestInit == Init => IInv
<1> SUFFICES ASSUME Init PROVE IInv
  OBVIOUS
<1>1. StateTypes /\ DisabledStaysOff
  BY DEF Init, DisabledStaysOff
<1>2. OfRequest /\ OnlyStored /\ OffBeforeStored
  BY DEF Init, OfRequest, OnlyStored, OffBeforeStored
<1> QED
  BY <1>1, <1>2 DEF IInv

\* A step that enables nothing and leaves the database and the request alone.
LEMMA Untouched ==
    ASSUME IInv, UNCHANGED <<db, locals>>, enabled' \in [Listeners -> BOOLEAN],
           \A l \in Listeners : enabled'[l] => enabled[l]
    PROVE  IInv'
BY DEF IInv, locals, OfRequest, OnlyStored, OffBeforeStored, DisabledStaysOff

\* A step of a start or a stop that stays within it.
LEMMA WithinStart ==
    ASSUME IInv, NEW from, NEW to \in Starting \cup {"idle", "next"}, from \in Starting,
           Goto(from, to), UNCHANGED <<db, enabled, op, cur, left, evs>>
    PROVE  IInv'
BY DEF IInv, Goto, OfRequest, OnlyStored, OffBeforeStored, DisabledStaysOff

LEMMA WithinStop ==
    ASSUME IInv, NEW from, NEW to \in Stopping \cup {"idle"}, from \in Stopping,
           to \in Off => from \in Off,
           Goto(from, to), UNCHANGED <<db, enabled, op, cur, left, evs>>
    PROVE  IInv'
BY DEF IInv, Goto, OfRequest, OnlyStored, OffBeforeStored, DisabledStaysOff

\* A step to where nothing is known of the plugin.
LEMMA Elsewhere ==
    ASSUME IInv, NEW from,
           NEW to \in {"idle", "subscribe", "routers", "tags", "store", "next", "closed"},
           to \in {"subscribe", "routers"} => cur \in Listeners,
           Goto(from, to), UNCHANGED <<op, cur, left>>,
           db' = db, evs' \subseteq Events, enabled' \in [Listeners -> BOOLEAN],
           \A l \in Listeners : enabled'[l] => db[l]
    PROVE  IInv'
BY DEF IInv, Goto, OfRequest, OnlyStored, OffBeforeStored, DisabledStaysOff

-----------------------------------------------------------------------------
LEMMA StartInv == ASSUME IInv, Start PROVE IInv'
<1>1. CASE GenerateAPIKey
  BY <1>1, WithinStart DEF GenerateAPIKey, object
<1>2. CASE Spawn
  BY <1>2, WithinStart DEF Spawn, object
<1>3. CASE StartUIHandler
  BY <1>3, WithinStart DEF StartUIHandler, world
<1>4. CASE SetEnabled
  <2>1. cur \in Listeners /\ db[cur]
    BY <1>4 DEF SetEnabled, Goto, IInv, OfRequest, OnlyStored
  <2>2. /\ enabled' \in [Listeners -> BOOLEAN]
        /\ \A l \in Listeners : enabled'[l] => db[l]
        /\ evs' \subseteq Events
    BY <1>4, <2>1, PluginAssumption DEF SetEnabled, IInv, DisabledStaysOff
  <2> QED
    BY <1>4, <2>1, <2>2, Elsewhere DEF SetEnabled, world
<1>5. CASE SubscribeNext
  BY <1>5 DEF SubscribeNext, object, world, IInv, OfRequest, OnlyStored, OffBeforeStored,
              DisabledStaysOff
<1>6. CASE Subscribed
  BY <1>6, Elsewhere DEF Subscribed, Goto, object, world, IInv, OfRequest, DisabledStaysOff
<1>7. CASE StartRouters
  BY <1>7, Elsewhere DEF StartRouters, world, IInv, DisabledStaysOff
<1> QED
  BY <1>1, <1>2, <1>3, <1>4, <1>5, <1>6, <1>7 DEF Start

LEMMA StopInv == ASSUME IInv, Stop PROVE IInv'
<1>1. CASE RequestTerm
  BY <1>1, WithinStop DEF RequestTerm, object
<1>2. CASE Signal
  BY <1>2, WithinStop DEF Signal, object
<1>3. CASE Kill
  BY <1>3, WithinStop DEF Kill, object
<1>4. CASE UnsetEnabled
  BY <1>4 DEF UnsetEnabled, Goto, world, IInv, OfRequest, OnlyStored, OffBeforeStored,
              DisabledStaysOff
<1>5. CASE RevokeAPIKeys
  BY <1>5, WithinStop DEF RevokeAPIKeys, object
<1>6. CASE Unsubscribe
  BY <1>6, WithinStop DEF Unsubscribe, object, world
<1>7. CASE Stopped
  <2> USE <1>7 DEF Stopped, Goto, object, IInv, OfRequest, OnlyStored, OffBeforeStored,
                   DisabledStaysOff
  <2>1. CASE op = "disable"
    BY <2>1
  <2>2. CASE op = "rebuild"
    BY <2>2
  <2>3. CASE op = "reload"
    BY <2>3
  <2>4. CASE op = "close"
    BY <2>4
  <2> QED
    BY <2>1, <2>2, <2>3, <2>4
<1> QED
  BY <1>1, <1>2, <1>3, <1>4, <1>5, <1>6, <1>7 DEF Stop

LEMMA BeginInv ==
    ASSUME IInv, NEW o \in Ops \ {"boot", "close"}, NEW l \in Listeners, Begin(o, l)
    PROVE  IInv'
<1> USE DEF Begin, Goto, object, IInv
<1>1. StateTypes' /\ DisabledStaysOff' /\ cur' = l /\ op' = o
  BY DEF DisabledStaysOff
<1>2. OfRequest' /\ OffBeforeStored'
  BY DEF OfRequest, OffBeforeStored
<1>3. OnlyStored'
  BY DEF OnlyStored, DisabledStaysOff
<1> QED
  BY <1>1, <1>2, <1>3

LEMMA RequestInv == ASSUME IInv, Request PROVE IInv'
<1>1. CASE DisableInDatabase
  BY <1>1 DEF DisableInDatabase, Goto, object, IInv, OfRequest, OnlyStored, OffBeforeStored,
              DisabledStaysOff
<1>2. CASE Build
  BY <1>2 DEF Build, Goto, object, world, IInv, OfRequest, OnlyStored, OffBeforeStored,
              DisabledStaysOff
<1>3. CASE Drop
  BY <1>3, Elsewhere DEF Drop, Goto, IInv, DisabledStaysOff
<1>4. CASE NextPlugin
  BY <1>4 DEF NextPlugin, Goto, object, world, IInv, OfRequest, OnlyStored, OffBeforeStored,
              DisabledStaysOff
<1>5. CASE NoneLeft
  BY <1>5, Elsewhere DEF NoneLeft, object, world, IInv, DisabledStaysOff
<1>6. CASE AdminReads
  BY <1>6, Elsewhere DEF AdminReads, object, IInv, DisabledStaysOff
<1>7. CASE AdminStores
  BY <1>7, Elsewhere DEF AdminStores, object, IInv, DisabledStaysOff
<1> QED
  BY <1>1, <1>2, <1>3, <1>4, <1>5, <1>6, <1>7 DEF Request

\* A process that fails can only disable a plugin.
LEMMA ExitInv == ASSUME IInv, NEW x \in Process, ProcessStep(x) PROVE IInv'
<1>1. CASE WaitError(x)
  BY <1>1, Untouched DEF WaitError, IInv
<1>2. CASE ProcessEnds(x) \/ WaitClean(x) \/ ExitReads(x) \/ ExitStores(x)
  BY <1>2, Untouched DEF ProcessEnds, WaitClean, ExitReads, ExitStores, object, IInv
<1> QED
  BY <1>1, <1>2 DEF ProcessStep

LEMMA NextInv == IInv /\ [Next]_vars => IInv'
<1> SUFFICES ASSUME IInv, [Next]_vars PROVE IInv'
  OBVIOUS
<1>1. CASE BeginClose
  BY <1>1 DEF BeginClose, Goto, object, world, IInv, OfRequest, OnlyStored, OffBeforeStored,
              DisabledStaysOff
<1>2. CASE EventsMove
  BY <1>2, Untouched DEF EventsMove, object, world, IInv
<1>3. CASE UNCHANGED vars
  BY <1>3, Untouched DEF vars, object, world, IInv
<1> QED
  BY <1>1, <1>2, <1>3, StartInv, StopInv, RequestInv, BeginInv, ExitInv DEF Next

(* What was disabled stays off: for any plugins and processes, however they    *)
(* fail, and however the builds and reloads of lifecycle.go's callers end.     *)
THEOREM DisabledIsOff == Spec => []DisabledStaysOff
<1>1. IInv => DisabledStaysOff
  BY DEF IInv
<1> QED
  BY <1>1, RequestInit, NextInv, PTL DEF Spec

-----------------------------------------------------------------------------
(* The manager and the event system.  The manager makes calls of the event     *)
(* system and does nothing else to it, so that what is true of every user of   *)
(* the event system is true here.                                              *)

LEMMA WhatCalls ==
    ASSUME [Next]_vars
    PROVE  SubscribeNext \/ Unsubscribe \/ EventsMove \/ UNCHANGED eventVars
<1>1. CASE \/ GenerateAPIKey \/ Spawn \/ StartUIHandler \/ SetEnabled \/ Subscribed \/ StartRouters
           \/ RequestTerm \/ Signal \/ Kill \/ UnsetEnabled \/ RevokeAPIKeys \/ Stopped
  BY <1>1 DEF GenerateAPIKey, Spawn, StartUIHandler, SetEnabled, Subscribed, StartRouters,
              RequestTerm, Signal, Kill, UnsetEnabled, RevokeAPIKeys, Stopped
<1>2. CASE Request \/ BeginClose
  BY <1>2 DEF Request, BeginClose, DisableInDatabase, Build, Drop, NextPlugin, NoneLeft,
              AdminReads, AdminStores
<1>3. ASSUME NEW o \in Ops \ {"boot", "close"}, NEW l \in Listeners, Begin(o, l)
      PROVE  UNCHANGED eventVars
  BY <1>3 DEF Begin
<1>4. ASSUME NEW x \in Process, ProcessStep(x) PROVE UNCHANGED eventVars
  BY <1>4 DEF ProcessStep, ProcessEnds, WaitClean, WaitError, ExitReads, ExitStores
<1>5. CASE UNCHANGED vars
  BY <1>5 DEF vars
<1> QED
  BY <1>1, <1>2, <1>3, <1>4, <1>5 DEF Next, Start, Stop

LEMMA CallsOnly == IInv /\ [Next]_vars => [EventNext]_eventVars
<1> SUFFICES ASSUME IInv, [Next]_vars PROVE [EventNext]_eventVars
  OBVIOUS
<1>0. Admin \in Threads /\ Emitters \subseteq Threads
  BY PluginAssumption
<1>1. CASE SubscribeNext
  <2>1. PICK e \in evs : CallRegister(Admin, cur, e)
    BY <1>1 DEF SubscribeNext
  <2>2. cur \in Listeners /\ e \in Events
    BY <1>1, <2>1 DEF SubscribeNext, IInv, OfRequest
  <2> QED
    BY <1>0, <2>1, <2>2 DEF EventNext, EventCall
<1>2. CASE Unsubscribe
  <2>1. CallUnregister(Admin, cur) /\ cur \in Listeners
    BY <1>2 DEF Unsubscribe, Goto, IInv, OfRequest
  <2> QED
    BY <1>0, <2>1 DEF EventNext, EventCall
<1>3. CASE EventsMove
  BY <1>0, <1>3 DEF EventsMove, EventNext, EventCall
<1> QED
  BY <1>1, <1>2, <1>3, WhatCalls

(* The plugin manager uses the event system as its callers may: every behaviour *)
(* of plugins (mod/plugins) and requests is one of mod/eventsystem.             *)
THEOREM UsesEventSystem == Spec => EventSpec
<1>1. Init => EventInit
  BY DEF Init
<1> QED
  BY <1>1, RequestInit, NextInv, CallsOnly, PTL DEF Spec, EventSpec

(* So its maps agree, and it implements the bus, under plugins that start, stop *)
(* and die as they like.                                                        *)
THEOREM ComposedBus == Spec => BusSpec /\ []ListedAreKnown
<1>1. EventTypeOK /\ ListedAreKnown => ListedAreKnown
  OBVIOUS
<1> QED
  BY <1>1, UsesEventSystem, EventMapsAgree, ImplementsBus, PTL

-----------------------------------------------------------------------------
(* Types.  The event system's variables keep theirs because the manager is one *)
(* of its callers; the manager's own depend on nothing but the request.        *)

ManagerTypes ==
    /\ process \in [Listeners -> 0..MaxRuns] /\ port \in [Listeners -> 0..MaxRuns]
    /\ ui \in [Listeners -> BOOLEAN] /\ routes \in [Listeners -> SUBSET (0..MaxRuns)]
    /\ used \in [Listeners -> 0..MaxRuns] /\ old \in [Listeners -> 0..MaxRuns]
    /\ run \in 0..MaxRuns /\ clean \in [Listeners -> BOOLEAN] /\ keys \subseteq Process

WaiterTypes ==
    /\ os \in [Process -> OS] /\ exit \in [Process -> {"none", "wait", "tags", "store", "done"}]
    /\ seen \in [Builders -> SUBSET Listeners] /\ tree \subseteq Listeners

LEMMA ManagerTypesNext == IInv /\ ManagerTypes /\ [Next]_vars => ManagerTypes'
<1> SUFFICES ASSUME IInv, ManagerTypes, [Next]_vars PROVE ManagerTypes'
  OBVIOUS
<1> USE PluginAssumption DEF ManagerTypes
<1>1. CASE GenerateAPIKey
  <2>1. cur \in Listeners /\ used[cur] + 1 \in 0..MaxRuns /\ used[cur] + 1 \in Runs
    BY <1>1 DEF GenerateAPIKey, Goto, IInv, OfRequest, Runs
  <2>2. keys' \subseteq Process
    BY <1>1, <2>1 DEF GenerateAPIKey, Process
  <2> QED
    BY <1>1, <2>1, <2>2 DEF GenerateAPIKey, object
<1>2. CASE StartUIHandler \/ SetEnabled \/ StartRouters
  <2>1. routes' \in [Listeners -> SUBSET (0..MaxRuns)]
    <3>1. CASE StartRouters
      <4>1. cur \in Listeners /\ {port[cur]} \in SUBSET (0..MaxRuns)
        BY <3>1 DEF StartRouters, Goto, IInv, OfRequest
      <4> QED
        BY <3>1, <4>1 DEF StartRouters
    <3>2. CASE StartUIHandler \/ SetEnabled
      BY <3>2 DEF StartUIHandler, SetEnabled
    <3> QED
      BY <1>2, <3>1, <3>2
  <2>2. ui' \in [Listeners -> BOOLEAN]
    <3>1. CASE StartUIHandler
      <4>1. (ui[cur] \/ cur \in UI) \in BOOLEAN
        OBVIOUS
      <4> QED
        BY <3>1, <4>1 DEF StartUIHandler
    <3>2. CASE SetEnabled \/ StartRouters
      BY <3>2 DEF SetEnabled, StartRouters
    <3> QED
      BY <1>2, <3>1, <3>2
  <2>3. process' \in [Listeners -> 0..MaxRuns] /\ port' \in [Listeners -> 0..MaxRuns]
    BY <1>2 DEF StartUIHandler, SetEnabled, StartRouters
  <2> QED
    BY <1>2, <2>1, <2>2, <2>3 DEF StartUIHandler, SetEnabled, StartRouters, world
<1>3. CASE Spawn \/ SubscribeNext \/ Subscribed
  BY <1>3 DEF Spawn, SubscribeNext, Subscribed, object, world
<1>4. CASE UnsetEnabled \/ RevokeAPIKeys \/ Drop \/ Stopped
  <2>1. CASE UnsetEnabled
    BY <2>1 DEF UnsetEnabled, world
  <2>2. CASE RevokeAPIKeys \/ Stopped
    BY <2>2 DEF RevokeAPIKeys, Stopped, object
  <2>3. CASE Drop
    BY <2>3 DEF Drop, Goto, IInv, OfRequest
  <2> QED
    BY <1>4, <2>1, <2>2, <2>3
<1>5. CASE RequestTerm \/ Signal \/ Kill \/ Unsubscribe
  BY <1>5 DEF RequestTerm, Signal, Kill, Unsubscribe, object, world
<1>6. CASE DisableInDatabase \/ Build \/ NextPlugin \/ NoneLeft \/ AdminReads \/ AdminStores
  BY <1>6 DEF DisableInDatabase, Build, NextPlugin, NoneLeft, AdminReads, AdminStores, object, world
<1>7. CASE BeginClose \/ \E o \in Ops \ {"boot", "close"}, l \in Listeners : Begin(o, l)
  BY <1>7 DEF BeginClose, Begin, object, world
<1>8. ASSUME NEW x \in Process, ProcessStep(x) PROVE ManagerTypes'
  BY <1>8 DEF ProcessStep, ProcessEnds, WaitClean, WaitError, ExitReads, ExitStores, object, locals
<1>9. CASE EventsMove \/ UNCHANGED vars
  BY <1>9 DEF EventsMove, vars, object, locals, world
<1> QED
  BY <1>1, <1>2, <1>3, <1>4, <1>5, <1>6, <1>7, <1>8, <1>9 DEF Next, Start, Stop, Request

LEMMA WaiterTypesNext == IInv /\ WaiterTypes /\ [Next]_vars => WaiterTypes'
<1> SUFFICES ASSUME IInv, WaiterTypes, [Next]_vars PROVE WaiterTypes'
  OBVIOUS
<1> USE DEF WaiterTypes, OS, Builders
<1>1. CASE Start
  BY <1>1 DEF Start, GenerateAPIKey, Spawn, StartUIHandler, SetEnabled, SubscribeNext, Subscribed,
              StartRouters, Current, object, world
<1>2. CASE RequestTerm \/ Signal \/ Kill
  BY <1>2 DEF RequestTerm, Signal, Kill, Mine
<1>3. CASE UnsetEnabled \/ RevokeAPIKeys \/ Unsubscribe \/ Stopped
  BY <1>3 DEF UnsetEnabled, RevokeAPIKeys, Unsubscribe, Stopped, object, world
<1>4. CASE AdminReads \/ AdminStores
  BY <1>4 DEF AdminReads, AdminStores, ReadEnabled, StoreTree
<1>5. CASE DisableInDatabase \/ Build \/ Drop \/ NextPlugin \/ NoneLeft
  BY <1>5 DEF DisableInDatabase, Build, Drop, NextPlugin, NoneLeft, object, world
<1>6. CASE BeginClose \/ \E o \in Ops \ {"boot", "close"}, l \in Listeners : Begin(o, l)
  BY <1>6 DEF BeginClose, Begin, object, world
<1>7. ASSUME NEW x \in Process, ProcessStep(x) PROVE WaiterTypes'
  <2>1. CASE ProcessEnds(x) \/ WaitClean(x) \/ WaitError(x)
    BY <2>1 DEF ProcessEnds, WaitClean, WaitError, ExitTo, object, locals
  <2>2. CASE ExitReads(x) \/ ExitStores(x)
    BY <1>7, <2>2 DEF ExitReads, ExitStores, ExitTo, ReadEnabled, StoreTree, object, locals
  <2> QED
    BY <1>7, <2>1, <2>2 DEF ProcessStep
<1>8. CASE EventsMove \/ UNCHANGED vars
  BY <1>8 DEF EventsMove, vars, object, locals, world
<1> QED
  BY <1>1, <1>2, <1>3, <1>4, <1>5, <1>6, <1>7, <1>8 DEF Next, Stop, Request

\* What the specifications of the plugins say does not change.
LEMMA SameURLs == [Next]_vars => UNCHANGED badURL
<1> SUFFICES ASSUME [Next]_vars PROVE UNCHANGED badURL
  OBVIOUS
<1>1. CASE Start
  BY <1>1 DEF Start, GenerateAPIKey, Spawn, StartUIHandler, SetEnabled, SubscribeNext, Subscribed,
              StartRouters
<1>2. CASE Stop
  BY <1>2 DEF Stop, RequestTerm, Signal, Kill, UnsetEnabled, RevokeAPIKeys, Unsubscribe, Stopped
<1>3. CASE Request \/ BeginClose
  BY <1>3 DEF Request, BeginClose, DisableInDatabase, Build, Drop, NextPlugin, NoneLeft,
              AdminReads, AdminStores
<1>4. ASSUME NEW o \in Ops \ {"boot", "close"}, NEW l \in Listeners, Begin(o, l)
      PROVE  UNCHANGED badURL
  BY <1>4 DEF Begin
<1>5. ASSUME NEW x \in Process, ProcessStep(x) PROVE UNCHANGED badURL
  BY <1>5 DEF ProcessStep, ProcessEnds, WaitClean, WaitError, ExitReads, ExitStores
<1>6. CASE EventsMove \/ UNCHANGED vars
  BY <1>6 DEF EventsMove, vars
<1> QED
  BY <1>1, <1>2, <1>3, <1>4, <1>5, <1>6 DEF Next

(* Every variable of the manager, its processes and the event system keeps its *)
(* type, with no assumption on when plugins are started and processes exit.    *)
THEOREM TypesKept == Spec => []TypeOK
<1>1. Init => ManagerTypes /\ WaiterTypes /\ badURL \subseteq UI
  BY PluginAssumption DEF Init, ManagerTypes, WaiterTypes, OS, Builders
<1>2. IInv /\ (ManagerTypes /\ WaiterTypes /\ badURL \subseteq UI) /\ [Next]_vars =>
          (ManagerTypes /\ WaiterTypes /\ badURL \subseteq UI)'
  BY ManagerTypesNext, WaiterTypesNext, SameURLs
<1>3. IInv /\ (ManagerTypes /\ WaiterTypes /\ badURL \subseteq UI) /\ EventTypeOK
      => TypeOK
  BY DEF IInv, ManagerTypes, WaiterTypes, TypeOK
<1> QED
  BY <1>1, <1>2, <1>3, RequestInit, NextInv, UsesEventSystem, EventMapsAgree, PTL DEF Spec

-----------------------------------------------------------------------------
(* Processes.  Whatever was enabled twice and whenever exits are reported: the *)
(* process a stop has dealt with is the one the manager has, and it has ended. *)

Types == ManagerTypes /\ WaiterTypes

\* The process the manager has for a plugin does not run.
Ended(l) == process[l] # 0 => os[<<l, process[l]>>] \notin Live

\* A new process gets a new number.
Numbered ==
    /\ \A l \in Listeners : process[l] <= used[l]
    /\ pc \in {"spawn", "ui", "set"} => run = used[cur] /\ run \in Runs
    /\ pc = "spawn" => process[cur] # run

\* A stop has ended the process, and a rebuild starts another only after that.
AtRest == {"unset", "drop"} \cup Off
AfterStop ==
    /\ pc = "kill" => process[cur] # 0
    /\ pc \in AtRest => Ended(cur)
    /\ pc = "build" /\ left # {} => Ended(cur)
    /\ pc \in Starting /\ op = "rebuild" => Ended(cur)

\* What is started at boot has no process yet.
AtBoot == op = "boot" =>
    /\ \A l \in left : process[l] = 0
    /\ pc \in Starting => process[cur] = 0 /\ cur \notin left

ProcessInv == Numbered /\ AfterStop /\ AtBoot

LEMMA Processes ==
    /\ \A l \in Listeners, i \in Runs : <<l, i>> \in Process
    /\ \A x \in Process : x[1] \in Listeners /\ x[2] \in Runs /\ x = <<x[1], x[2]>>
    /\ Runs \subseteq Nat /\ 0 \notin Runs /\ MaxRuns \in Nat
    /\ \A i \in 0..MaxRuns : i # 0 => i \in Runs
BY PluginAssumption DEF Process, Runs

LEMMA ProcessInit == Init => ProcessInv
BY Processes DEF Init, ProcessInv, Numbered, AfterStop, AtBoot, AtRest

\* A step that starts no process.
StartsNothing ==
    /\ \A x \in Process : os'[x] \in Live => os[x] \in Live
    /\ UNCHANGED <<process, used>>

LEMMA StaysEnded ==
    ASSUME Types, StartsNothing, NEW l \in Listeners, Ended(l)
    PROVE  Ended(l)'
BY Processes DEF Types, ManagerTypes, StartsNothing, Ended

LEMMA StayInv ==
    ASSUME IInv, Types, ProcessInv, StartsNothing, UNCHANGED <<pc, op, cur, run, left>>
    PROVE  ProcessInv'
<1>1. pc \in AtRest \cup {"build"} \cup Starting => cur \in Listeners
  BY DEF IInv, OfRequest, AtRest
<1>2. AfterStop'
  BY <1>1, StaysEnded DEF ProcessInv, AfterStop, StartsNothing
<1> QED
  BY <1>2 DEF ProcessInv, Numbered, AtBoot, StartsNothing

\* A step that does not go on within a start.
LEMMA GoOnInv ==
    ASSUME IInv, Types, ProcessInv, StartsNothing, NEW from, NEW to,
           Goto(from, to), to \notin {"spawn", "ui", "set"},
           (to \in AtRest \/ (to = "build" /\ left' # {}) \/ (to = "key" /\ op' = "rebuild"))
              => \E l \in Listeners : cur' = l /\ Ended(l),
           to = "kill" => process[cur'] # 0,
           op' = "boot" => op = "boot" /\ left' \subseteq left,
           op' = "boot" /\ to = "key" => process[cur'] = 0 /\ cur' \notin left'
    PROVE  ProcessInv'
<1>1. Numbered'
  BY DEF ProcessInv, Numbered, StartsNothing, Goto
<1>2. AfterStop'
  BY StaysEnded DEF AfterStop, StartsNothing, Goto
<1>3. AtBoot'
  BY DEF ProcessInv, AtBoot, StartsNothing, Goto
<1> QED
  BY <1>1, <1>2, <1>3 DEF ProcessInv

\* A step that does not touch the processes.
LEMMA Still == ASSUME UNCHANGED <<process, used, os>> PROVE StartsNothing
BY DEF StartsNothing

\* A step of a start that sets no process.
LEMMA StartGoesOn ==
    ASSUME IInv, Types, ProcessInv, UNCHANGED <<process, used, op, cur, run, left>>,
           NEW from \in {"spawn", "ui"}, NEW to \in {"ui", "set"}, Goto(from, to),
           \A x \in Process : os'[x] \in Live => os[x] \in Live \/ x = Current,
           from = "ui" => UNCHANGED os
    PROVE  ProcessInv'
<1>1. cur \in Listeners
  BY DEF Goto, IInv, OfRequest
<1>2. Numbered'
  BY DEF ProcessInv, Numbered, Goto
<1>3. AtBoot'
  BY DEF ProcessInv, AtBoot, Goto
<1>4. op = "rebuild" => Ended(cur)'
  <2> SUFFICES ASSUME op = "rebuild", process[cur] # 0
               PROVE  os'[<<cur, process[cur]>>] \notin Live
    BY DEF Ended
  <2>1. Ended(cur)
    BY DEF ProcessInv, AfterStop, Goto
  <2>2. <<cur, process[cur]>> \in Process
    BY <1>1, Processes DEF Types, ManagerTypes
  <2>3. from = "spawn" => <<cur, process[cur]>> # Current
    BY DEF ProcessInv, Numbered, Goto, Current
  <2> QED
    BY <2>1, <2>2, <2>3 DEF Ended
<1>5. AfterStop'
  BY <1>4 DEF AfterStop, AtRest, Goto
<1> QED
  BY <1>2, <1>3, <1>5 DEF ProcessInv

LEMMA StartProcesses ==
    ASSUME IInv, Types, ProcessInv, Start
    PROVE  ProcessInv'
<1>1. CASE GenerateAPIKey
  <2>1. cur \in Listeners /\ used[cur] \in Nat /\ used[cur] + 1 \in Runs /\ process[cur] \in Nat
    BY <1>1, Processes DEF GenerateAPIKey, Goto, IInv, OfRequest, Types, ManagerTypes, Runs
  <2>2. /\ UNCHANGED <<process, os, op, cur, left>> /\ pc = "key" /\ pc' = "spawn"
        /\ run' = used[cur] + 1 /\ used' = [used EXCEPT ![cur] = @ + 1]
    BY <1>1 DEF GenerateAPIKey, Goto, object
  <2>3. Numbered'
    <3>1. ASSUME NEW l \in Listeners PROVE process[l] <= used'[l]
      BY <2>1, <2>2, Processes DEF ProcessInv, Numbered, Types, ManagerTypes
    <3>2. process[cur] # run' /\ used'[cur] = run'
      BY <2>1, <2>2, Processes DEF ProcessInv, Numbered, Types, ManagerTypes
    <3> QED
      BY <2>1, <2>2, <3>1, <3>2 DEF Numbered
  <2>4. AfterStop' /\ AtBoot'
    BY <2>2 DEF ProcessInv, AfterStop, AtBoot, AtRest, Ended
  <2> QED
    BY <2>3, <2>4 DEF ProcessInv
<1>2. CASE Spawn
  <2>1. /\ UNCHANGED <<process, used, op, cur, run, left>> /\ pc = "spawn"
        /\ \/ Goto("spawn", "ui") /\ os' = [os EXCEPT ![Current] = "up"]
           \/ UNCHANGED os /\ Goto("spawn", IF op = "boot" THEN "next" ELSE "idle")
    BY <1>2 DEF Spawn, Goto, object
  <2>2. CASE Goto("spawn", "ui") /\ os' = [os EXCEPT ![Current] = "up"]
    <3>1. \A x \in Process : os'[x] \in Live => os[x] \in Live \/ x = Current
      BY <2>2 DEF Types, WaiterTypes
    <3> QED
      BY <2>1, <2>2, <3>1, StartGoesOn
  <2>3. CASE UNCHANGED os /\ Goto("spawn", IF op = "boot" THEN "next" ELSE "idle")
    BY <2>1, <2>3, Still, GoOnInv DEF AtRest
  <2> QED
    BY <2>1, <2>2, <2>3
<1>3. CASE StartUIHandler
  <2>1. /\ UNCHANGED <<process, used, os, op, cur, run, left>>
        /\ \/ Goto("ui", "set")
           \/ Goto("ui", IF op = "boot" THEN "next" ELSE "idle")
    BY <1>3 DEF StartUIHandler, world
  <2> QED
    BY <2>1, Still, GoOnInv, StartGoesOn DEF AtRest
<1>4. CASE SetEnabled
  <2>1. cur \in Listeners /\ run = used[cur] /\ run \in Runs
    BY <1>4 DEF SetEnabled, Goto, IInv, OfRequest, ProcessInv, Numbered
  <2>2. /\ process' = [process EXCEPT ![cur] = run] /\ UNCHANGED <<used, os, op, cur, run, left>>
        /\ pc = "set" /\ pc' = "subscribe"
    BY <1>4 DEF SetEnabled, Goto, world
  <2>3. Numbered'
    BY <2>1, <2>2, Processes DEF ProcessInv, Numbered, Types, ManagerTypes
  <2>4. AtBoot'
    BY <2>1, <2>2 DEF ProcessInv, AtBoot, Types, ManagerTypes, IInv
  <2> QED
    BY <2>2, <2>3, <2>4 DEF ProcessInv, AfterStop, AtRest
<1>5. CASE SubscribeNext
  BY <1>5, Still, StayInv DEF SubscribeNext, object, world
<1>6. CASE Subscribed
  BY <1>6, Still, GoOnInv DEF Subscribed, object, world, AtRest
<1>7. CASE StartRouters
  BY <1>7, Still, GoOnInv DEF StartRouters, world, AtRest
<1> QED
  BY <1>1, <1>2, <1>3, <1>4, <1>5, <1>6, <1>7 DEF Start

LEMMA StopProcesses ==
    ASSUME IInv, Types, ProcessInv, Stop
    PROVE  ProcessInv'
<1>0. pc \in AtRest => Ended(cur)
  BY DEF ProcessInv, AfterStop
<1>1. CASE RequestTerm
  <2>1. UNCHANGED <<process, used, op, cur, run, left>> /\ Goto("term", "signal")
    BY <1>1 DEF RequestTerm, object
  <2>2. StartsNothing
    BY <1>1, <2>1 DEF RequestTerm, StartsNothing, Types, WaiterTypes, OS, Live
  <2> QED
    BY <2>1, <2>2, GoOnInv DEF AtRest
<1>2. CASE Signal
  <2>1. UNCHANGED <<process, used, op, cur, run, left>>
    BY <1>2 DEF Signal, object
  <2>2. StartsNothing
    BY <1>2, <2>1 DEF Signal, StartsNothing, Types, WaiterTypes, OS, Live
  <2>3. \/ Goto("signal", "idle")
        \/ Goto("signal", "kill") /\ process[cur] # 0
    BY <1>2 DEF Signal
  <2>4. op # "boot"
    BY <2>3 DEF Goto, IInv, OfRequest
  <2> QED
    BY <2>1, <2>2, <2>3, <2>4, GoOnInv DEF AtRest
<1>3. CASE Kill
  <2>1. UNCHANGED <<process, used, op, cur, run, left>> /\ pc = "kill" /\ pc' = "unset"
        /\ op # "boot"
    BY <1>3 DEF Kill, Goto, object, IInv, OfRequest
  <2>2. cur \in Listeners /\ process[cur] \in Runs /\ Mine \in Process
    BY <2>1, Processes DEF IInv, OfRequest, ProcessInv, AfterStop, Types, ManagerTypes, Mine
  <2>3. Ended(cur)'
    BY <1>3, <2>1, <2>2 DEF Kill, Mine, Ended, Live, Types, WaiterTypes
  <2>4. Numbered'
    BY <2>1 DEF ProcessInv, Numbered
  <2> QED
    BY <2>1, <2>3, <2>4 DEF ProcessInv, AfterStop, AtBoot
<1>4. CASE UnsetEnabled \/ RevokeAPIKeys \/ Unsubscribe \/ Stopped
  <2>1. /\ UNCHANGED <<process, used, os, op, cur, run, left>>
        /\ cur \in Listeners /\ Ended(cur) /\ op # "boot"
        /\ \E to \in {"revoke", "unsubscribe", "unsubscribed", "db_off", "build", "drop", "next"} :
              Goto(pc, to)
    BY <1>0, <1>4 DEF UnsetEnabled, RevokeAPIKeys, Unsubscribe, Stopped, object, world, Goto, AtRest,
                      IInv, OfRequest
  <2> QED
    BY <2>1, Still, GoOnInv
<1> QED
  BY <1>1, <1>2, <1>3, <1>4 DEF Stop

LEMMA BeginProcesses ==
    ASSUME IInv, Types, ProcessInv, NEW o \in Ops \ {"boot", "close"}, NEW l \in Listeners,
           Begin(o, l)
    PROVE  ProcessInv'
<1>1. /\ UNCHANGED <<process, used, os, run>> /\ pc = "idle"
      /\ op' = o /\ cur' = l /\ pc' \in {"key", "term", "build", "drop"}
      /\ pc' = "build" => left' = {}
      /\ pc' = "key" => o = "enable"
      /\ pc' = "drop" => process[l] = 0
  BY DEF Begin, Goto, object
<1>2. process[l] = 0 => Ended(l)
  BY DEF Ended
<1> QED
  BY <1>1, <1>2, Still, GoOnInv DEF Goto, AtRest

LEMMA RequestProcesses ==
    ASSUME IInv, Types, ProcessInv, Request
    PROVE  ProcessInv'
<1>1. CASE DisableInDatabase \/ NoneLeft \/ AdminReads \/ AdminStores
  <2>1. UNCHANGED <<process, used, os, op, cur, run, left>>
        /\ \E from \in {"db_off", "tags", "store", "next"}, to \in {"tags", "store", "idle", "closed"} :
              Goto(from, to)
    BY <1>1 DEF DisableInDatabase, NoneLeft, AdminReads, AdminStores, object, world
  <2> QED
    BY <2>1, Still, GoOnInv DEF AtRest
<1>2. CASE Build
  <2>1. UNCHANGED <<process, used, os, op, cur, run, left>> /\ cur \in Listeners /\ op = "rebuild"
        /\ \E to \in {"key", "idle"} : Goto("build", to) /\ (to = "key" => left # {})
    BY <1>2 DEF Build, object, world, Goto, IInv, OfRequest
  <2>2. left # {} => Ended(cur)
    BY <2>1 DEF ProcessInv, AfterStop, Goto
  <2> QED
    BY <2>1, <2>2, Still, GoOnInv DEF AtRest
<1>3. CASE Drop
  <2>1. UNCHANGED <<used, os, op, cur, run, left>> /\ cur \in Listeners
        /\ pc = "drop" /\ pc' = "idle" /\ process' = [process EXCEPT ![cur] = 0]
    BY <1>3 DEF Drop, Goto, IInv, OfRequest
  <2>2. Numbered'
    BY <2>1, Processes DEF ProcessInv, Numbered, Types, ManagerTypes
  <2> QED
    BY <2>1, <2>2 DEF ProcessInv, AfterStop, AtBoot, AtRest, Types, ManagerTypes, IInv
<1>4. CASE NextPlugin
  <2>1. PICK l \in left : /\ Goto("next", IF op = "boot" THEN "key" ELSE "term")
                          /\ cur' = l /\ left' = left \ {l}
    BY <1>4 DEF NextPlugin
  <2>2. UNCHANGED <<process, used, os, op, run>> /\ l \in Listeners /\ op \in {"boot", "close"}
    BY <1>4 DEF NextPlugin, object, world, IInv
  <2>3. op = "boot" => process[l] = 0
    BY DEF ProcessInv, AtBoot
  <2> QED
    BY <2>1, <2>2, <2>3, Still, GoOnInv DEF AtRest
<1> QED
  BY <1>1, <1>2, <1>3, <1>4 DEF Request

LEMMA ExitProcesses ==
    ASSUME IInv, Types, ProcessInv, NEW x \in Process, ProcessStep(x)
    PROVE  ProcessInv'
<1>1. UNCHANGED <<process, used, locals>>
  BY DEF ProcessStep, ProcessEnds, WaitClean, WaitError, ExitReads, ExitStores, object
<1>2. CASE ProcessEnds(x)
  <2>1. StartsNothing
    BY <1>1, <1>2 DEF StartsNothing, ProcessEnds, Types, WaiterTypes, OS, Live
  <2> QED
    BY <1>1, <2>1, StayInv DEF locals
<1>3. CASE WaitClean(x) \/ WaitError(x) \/ ExitReads(x) \/ ExitStores(x)
  <2>1. UNCHANGED os
    BY <1>3 DEF WaitClean, WaitError, ExitReads, ExitStores
  <2> QED
    BY <1>1, <2>1, Still, StayInv DEF locals
<1> QED
  BY <1>2, <1>3 DEF ProcessStep

LEMMA NextProcesses ==
    ASSUME IInv, Types, ProcessInv, [Next]_vars
    PROVE  ProcessInv'
<1>1. CASE BeginClose
  BY <1>1, Still, GoOnInv DEF BeginClose, object, world, AtRest
<1>2. CASE EventsMove \/ UNCHANGED vars
  BY <1>2, Still, StayInv DEF EventsMove, vars, object, world, locals
<1> QED
  BY <1>1, <1>2, StartProcesses, StopProcesses, RequestProcesses, BeginProcesses, ExitProcesses
     DEF Next

LEMMA TypesInit == Init => Types
BY PluginAssumption DEF Init, Types, ManagerTypes, WaiterTypes, OS, Builders

(* No rebuild, reload or boot lets go of a process that runs, for any plugins,  *)
(* however often they are enabled, and however builds, starts and processes     *)
(* fail: lifecycle.go and plugins.go replace it only on a request to enable the *)
(* plugin.                                                                      *)
THEOREM RebuildsLoseNothing == Spec => OnlyEnablingForgets
<1>1. ASSUME IInv, Types, ProcessInv, [Next]_vars
      PROVE  [\A l \in Listeners :
                  process'[l] # process[l] /\ process[l] # 0 /\ os[<<l, process[l]>>] \in Live =>
                      op = "enable"]_vars
  <2> SUFFICES ASSUME NEW l \in Listeners, process'[l] # process[l], process[l] # 0,
                      os[<<l, process[l]>>] \in Live
               PROVE  op = "enable"
    OBVIOUS
  <2>0. ~Ended(l)
    BY DEF Ended
  <2>1. CASE SetEnabled
    <3>1. l = cur /\ pc = "set"
      BY <1>1, <2>1 DEF SetEnabled, Goto, Types, ManagerTypes
    <3>2. op \notin {"rebuild", "boot"}
      BY <1>1, <2>0, <3>1 DEF ProcessInv, AfterStop, AtBoot
    <3>3. op \in {"boot", "enable", "rebuild"}
      BY <1>1, <3>1 DEF IInv, OfRequest
    <3> QED
      BY <3>2, <3>3
  <2>2. CASE Drop
    <3>1. l = cur /\ pc = "drop"
      BY <1>1, <2>2 DEF Drop, Goto, Types, ManagerTypes
    <3> QED
      BY <1>1, <2>0, <3>1 DEF ProcessInv, AfterStop, AtRest
  <2>3. SetEnabled \/ Drop
    <3>1. ASSUME NEW o \in Ops \ {"boot", "close"}, NEW k \in Listeners, Begin(o, k)
          PROVE  process' = process
      BY <3>1 DEF Begin, object
    <3>2. ASSUME NEW x \in Process, ProcessStep(x) PROVE process' = process
      BY <3>2 DEF ProcessStep, ProcessEnds, WaitClean, WaitError, ExitReads, ExitStores, object
    <3> QED
      BY <1>1, <3>1, <3>2
         DEF vars, object, world, Next, Start, Stop, Request, GenerateAPIKey, Spawn, StartUIHandler,
             SubscribeNext, Subscribed, StartRouters, RequestTerm, Signal, Kill, UnsetEnabled,
             RevokeAPIKeys, Unsubscribe, Stopped, BeginClose, DisableInDatabase, Build, NextPlugin,
             NoneLeft, AdminReads, AdminStores, EventsMove
  <2> QED
    BY <2>1, <2>2, <2>3
<1>2. IInv /\ Types /\ [Next]_vars => Types'
  BY ManagerTypesNext, WaiterTypesNext DEF Types
<1>3. IInv /\ Types /\ ProcessInv /\ [Next]_vars => ProcessInv'
  BY NextProcesses
<1> QED
  BY <1>1, <1>2, <1>3, RequestInit, NextInv, TypesInit, ProcessInit, PTL DEF Spec, OnlyEnablingForgets

-----------------------------------------------------------------------------
(* The administrator's calls of the event system: nobody else registers a      *)
(* plugin, and when StopPlugin goes on, the plugin is on no list.              *)

Gone(l) == \A e \in Events : l \notin subscriptions[e]

Calls ==
    /\ \A p \in Procs : at[p] \in {"register", "register_lock"} =>
          p = Admin /\ pc = "subscribe" /\ who[p] = cur
    /\ pc = "subscribe" => at[Admin] \in {"idle", "register", "register_lock"}
    /\ pc = "unsubscribed" => \/ at[Admin] \in {"unregister", "unregister_lock"} /\ who[Admin] = cur
                              \/ at[Admin] = "idle" /\ Gone(cur)
    /\ pc \notin {"subscribe", "unsubscribed"} => at[Admin] = "idle"

LEMMA CallsInit == Init => Calls
BY PluginAssumption, ThreadsAssumption DEF Init, EventInit, Calls

LEMMA Administrator == Admin \in Threads /\ Admin \in Procs
BY PluginAssumption, ThreadsAssumption

\* What the event system does by itself, and what it adds to a list.
LEMMA EventsCalls ==
    ASSUME IInv, EventInv, Calls, EventsMove
    PROVE  /\ Calls'
           /\ \A e \in Events : \A l \in subscriptions'[e] :
                 l \in subscriptions[e] \/ (pc = "subscribe" /\ l = cur)
<1>0. /\ at \in [Procs -> At] /\ who \in [Procs -> Listeners \cup {NoOne}]
      /\ event \in [Procs -> Events] /\ subscriptions \in [Events -> SUBSET Listeners]
  BY DEF EventInv, TypeInv, EventTypeOK
<1>1. UNCHANGED <<pc, cur>>
  BY DEF EventsMove, locals
<1> USE <1>0, <1>1, Administrator
<1> USE DEF Calls, Gone
<1>2. ASSUME NEW p \in Procs, EventStep(p)
      PROVE  /\ Calls'
             /\ \A e \in Events : \A l \in subscriptions'[e] :
                   l \in subscriptions[e] \/ (pc = "subscribe" /\ l = cur)
  <2>1. CASE WriteLock(p)
    BY <2>1 DEF WriteLock, Step, eventMaps
  <2>2. CASE Register(p)
    BY <2>2 DEF Register, Step
  <2>3. CASE Unregister(p)
    BY <2>3 DEF Unregister, Step
  <2> QED
    BY <1>2, <2>1, <2>2, <2>3 DEF EventStep
<1>3. ASSUME NEW t \in Threads, EmitStep(t) PROVE Calls' /\ UNCHANGED subscriptions
  <2>1. t # Admin /\ t \in Procs
    BY <1>3, EmitFrame, ThreadsAssumption DEF Emitting
  <2> QED
    BY <1>3, <2>1, EmitFrame DEF Emitting
<1>4. ASSUME NEW t \in Threads, Cleanup(t) PROVE Calls' /\ UNCHANGED subscriptions
  <2>1. CleanupOf[t] \in Procs \ Threads
    BY ThreadsAssumption
  <2> QED
    BY <1>4, <2>1 DEF Cleanup, Step, eventMaps
<1>5. ASSUME NEW t \in Emitters, NEW e \in Events,
             CallEmit(t, e) \/ \E ids \in SUBSET Listeners : CallEmitTo(t, ids, e)
      PROVE  Calls' /\ UNCHANGED subscriptions
  <2>1. t # Admin /\ t \in Procs
    BY PluginAssumption, ThreadsAssumption
  <2> QED
    BY <1>5, <2>1 DEF CallEmit, CallEmitTo, Step, eventMaps
<1> QED
  BY <1>2, <1>3, <1>4, <1>5 DEF EventsMove

LEMMA CallsNext ==
    ASSUME IInv, EventInv, Calls, [Next]_vars
    PROVE  Calls'
<1>0. at \in [Procs -> At] /\ who \in [Procs -> Listeners \cup {NoOne}]
  BY DEF EventInv, TypeInv, EventTypeOK
<1>1. CASE SubscribeNext
  BY <1>0, <1>1, Administrator DEF SubscribeNext, CallRegister, Step, Calls
<1>2. CASE Unsubscribe
  BY <1>0, <1>2, Administrator DEF Unsubscribe, Goto, CallUnregister, Step, Calls
<1>3. CASE UNCHANGED eventVars /\ ~Unsubscribe
  <2> USE <1>3, Administrator DEF eventVars, eventMaps
  <2>1. CASE UNCHANGED <<pc, cur>>
    BY <2>1 DEF Calls, Gone
  <2>2. ASSUME at[Admin] = "idle" /\ pc' \notin {"unsubscribed"} PROVE Calls'
    BY <2>2 DEF Calls
  <2>3. CASE Start
    BY <2>2, <2>3
       DEF Start, GenerateAPIKey, Spawn, StartUIHandler, SetEnabled, SubscribeNext, Subscribed,
           StartRouters, Goto, Calls, CallRegister, Step
  <2>4. CASE Stop
    <3>1. CASE Stopped
      <4>1. op \in {"disable", "rebuild", "reload", "close"} /\ at[Admin] = "idle"
        BY <3>1 DEF Stopped, Goto, IInv, OfRequest
      <4> QED
        BY <2>2, <3>1, <4>1 DEF Stopped, Goto
    <3> QED
      BY <2>2, <2>4, <3>1
         DEF Stop, RequestTerm, Signal, Kill, UnsetEnabled, RevokeAPIKeys, Goto, Calls
  <2>5. CASE Request \/ BeginClose
    BY <2>2, <2>5 DEF Request, DisableInDatabase, Build, Drop, NextPlugin, NoneLeft, AdminReads,
                      AdminStores, BeginClose, Goto, Calls
  <2>6. ASSUME NEW o \in Ops \ {"boot", "close"}, NEW l \in Listeners, Begin(o, l) PROVE Calls'
    BY <2>2, <2>6 DEF Begin, Goto, Calls
  <2>7. ASSUME NEW x \in Process, ProcessStep(x) PROVE UNCHANGED <<pc, cur>>
    BY <2>7 DEF ProcessStep, ProcessEnds, WaitClean, WaitError, ExitReads, ExitStores, locals
  <2> QED
    BY <2>1, <2>3, <2>4, <2>5, <2>6, <2>7 DEF Next, vars, locals, EventsMove
<1>4. CASE EventsMove
  BY <1>4, EventsCalls
<1> QED
  BY <1>1, <1>2, <1>3, <1>4, WhatCalls

-----------------------------------------------------------------------------
(* What StopPlugin has cleared stays clear.                                    *)

CleanTypes ==
    /\ ui \in [Listeners -> BOOLEAN] /\ routes \in [Listeners -> SUBSET (0..MaxRuns)]
    /\ port \in [Listeners -> 0..MaxRuns]
    /\ keys \subseteq Process /\ clean \in [Listeners -> BOOLEAN]

\* How much of StopPlugin has been done, and that StartPlugin was called.
Progress ==
    /\ pc \in Off => ~ui[cur] /\ routes[cur] = {}
    /\ pc \in {"unsubscribe", "unsubscribed"} => \A i \in Runs : <<cur, i>> \notin keys
    /\ pc \in {"spawn", "ui", "set", "subscribe", "routers"} => ~clean[cur]

\* What StoppedIsClean says of a plugin, but for its processes and events.
Cleared(l) == ~enabled[l] /\ ~ui[l] /\ routes[l] = {} /\ \A i \in Runs : <<l, i>> \notin keys
AllClear(l) == Cleared(l) /\ Ended(l) /\ Gone(l)

CleanInv == CleanTypes /\ Progress /\ \A l \in Listeners : clean[l] => AllClear(l)
StopInvariant == IInv /\ Types /\ ProcessInv /\ EventInv /\ Calls /\ CleanInv

LEMMA CleanInit == Init => CleanInv
BY Processes DEF Init, EventInit, CleanInv, CleanTypes, Progress, AllClear, Cleared, Ended, Gone, Live

\* A step that adds nothing to what a stop clears.
AddsNothing ==
    /\ ui' \in [Listeners -> BOOLEAN] /\ routes' \in [Listeners -> SUBSET (0..MaxRuns)]
    /\ port' \in [Listeners -> 0..MaxRuns]
    /\ keys' \subseteq keys
    /\ \A l \in Listeners : /\ enabled'[l] => enabled[l]
                            /\ ui'[l] => ui[l]
                            /\ routes'[l] \subseteq routes[l]
    /\ \A x \in Process : os'[x] \in Live => os[x] \in Live
    /\ \A l \in Listeners : process'[l] # 0 => process'[l] = process[l]
    /\ UNCHANGED clean

LEMMA StaysClear ==
    ASSUME StopInvariant, AddsNothing, [Next]_vars
    PROVE  CleanTypes' /\ \A l \in Listeners : clean[l] => AllClear(l)'
<1> SUFFICES ASSUME NEW l \in Listeners, clean[l] PROVE AllClear(l)'
  BY DEF StopInvariant, CleanInv, CleanTypes, AddsNothing
<1>1. AllClear(l)
  BY DEF StopInvariant, CleanInv
<1>2. Cleared(l)' /\ Ended(l)'
  BY <1>1, Processes DEF AllClear, Cleared, Ended, AddsNothing, StopInvariant, Types, ManagerTypes
<1>3. Gone(l)'
  <2>1. CASE EventsMove
    <3>1. pc = "subscribe" => l # cur
      BY DEF StopInvariant, CleanInv, Progress
    <3> QED
      BY <1>1, <2>1, <3>1, EventsCalls DEF StopInvariant, AllClear, Gone
  <2>2. CASE UNCHANGED subscriptions
    BY <1>1, <2>2 DEF AllClear, Gone
  <2>3. SubscribeNext \/ Unsubscribe \/ UNCHANGED eventVars => UNCHANGED subscriptions
    BY DEF SubscribeNext, CallRegister, Unsubscribe, CallUnregister, eventVars, eventMaps
  <2> QED
    BY <2>1, <2>2, <2>3, WhatCalls
<1> QED
  BY <1>2, <1>3 DEF AllClear

LEMMA StartClean ==
    ASSUME StopInvariant, Start
    PROVE  CleanInv'
<1> USE DEF StopInvariant
<1>0. [Next]_vars
  BY DEF Next
<1>1. CASE GenerateAPIKey
  <2>1. /\ cur \in Listeners /\ clean' = [clean EXCEPT ![cur] = FALSE] /\ pc' = "spawn"
        /\ UNCHANGED <<subscriptions, object, os, cur>>
        /\ used[cur] + 1 \in Runs /\ keys' \subseteq keys \cup {<<cur, used[cur] + 1>>}
    BY <1>1, Processes DEF GenerateAPIKey, Goto, IInv, OfRequest, Types, ManagerTypes, Runs,
                           eventVars, eventMaps
  <2>2. CleanTypes' /\ Progress'
    BY <2>1, Processes DEF CleanInv, CleanTypes, Progress, object
  <2>3. ASSUME NEW l \in Listeners, clean'[l] PROVE AllClear(l)'
    <3>1. l # cur /\ AllClear(l)
      BY <2>1, <2>3 DEF CleanInv, CleanTypes
    <3> QED
      BY <2>1, <3>1 DEF AllClear, Cleared, Ended, Gone, object
  <2> QED
    BY <2>2, <2>3 DEF CleanInv
<1>2. CASE Spawn
  <2>1. /\ cur \in Listeners /\ run \in Runs /\ ~clean[cur]
        /\ UNCHANGED <<subscriptions, object, keys, clean, cur>>
        /\ pc' \in {"ui", "next", "idle"}
        /\ os' = os \/ os' = [os EXCEPT ![<<cur, run>>] = "up"]
    BY <1>2 DEF Spawn, Goto, IInv, OfRequest, ProcessInv, Numbered, CleanInv, Progress, Current,
                eventVars, eventMaps
  <2>2. CleanTypes' /\ Progress'
    BY <2>1 DEF CleanInv, CleanTypes, Progress, object
  <2>3. ASSUME NEW l \in Listeners, clean'[l] PROVE AllClear(l)'
    <3>1. l # cur /\ AllClear(l)
      BY <2>1, <2>3 DEF CleanInv
    <3>2. Ended(l)'
      BY <2>1, <3>1, Processes DEF AllClear, Ended, object, Types, ManagerTypes, WaiterTypes
    <3> QED
      BY <2>1, <3>1, <3>2 DEF AllClear, Cleared, Gone, object
  <2> QED
    BY <2>2, <2>3 DEF CleanInv
<1>3. CASE StartUIHandler \/ SetEnabled \/ StartRouters
  <2>0. /\ cur \in Listeners /\ ~clean[cur]
        /\ pc \in {"ui", "set"} => run \in Runs
    BY <1>3 DEF StartUIHandler, SetEnabled, StartRouters, Goto, IInv, OfRequest, CleanInv, Progress,
                ProcessInv, Numbered
  <2>1. /\ UNCHANGED <<subscriptions, keys, os, clean, cur>>
        /\ pc' \in {"set", "subscribe", "next", "tags", "idle"}
    BY <1>3 DEF StartUIHandler, SetEnabled, StartRouters, Goto, world, eventVars, eventMaps
  <2>2. /\ CleanTypes'
        /\ \A l \in Listeners \ {cur} : /\ enabled'[l] = enabled[l] /\ ui'[l] = ui[l]
                                       /\ routes'[l] = routes[l] /\ process'[l] = process[l]
    <3> USE <2>0, <2>1 DEF IInv, CleanInv, CleanTypes
    <3>1. CASE StartUIHandler
      <4>1. ui' \in [Listeners -> BOOLEAN] /\ \A l \in Listeners \ {cur} : ui'[l] = ui[l]
        BY <3>1 DEF StartUIHandler
      <4> QED
        BY <3>1, <4>1 DEF StartUIHandler, Goto, Runs
    <3>2. CASE SetEnabled
      BY <3>2 DEF SetEnabled
    <3>3. CASE StartRouters
      BY <3>3 DEF StartRouters
    <3> QED
      BY <1>3, <3>1, <3>2, <3>3
  <2>3. Progress'
    BY <2>0, <2>1 DEF Progress
  <2>4. ASSUME NEW l \in Listeners, clean'[l] PROVE AllClear(l)'
    <3>1. l # cur /\ AllClear(l)
      BY <2>0, <2>1, <2>4 DEF CleanInv
    <3> QED
      BY <2>1, <2>2, <3>1 DEF AllClear, Cleared, Ended, Gone
  <2> QED
    BY <2>2, <2>3, <2>4 DEF CleanInv
<1>4. CASE SubscribeNext \/ Subscribed
  <2>1. AddsNothing
    BY <1>4 DEF SubscribeNext, Subscribed, AddsNothing, object, world, CleanInv, CleanTypes
  <2>2. Progress'
    BY <1>4 DEF SubscribeNext, Subscribed, Goto, object, world, CleanInv, Progress
  <2> QED
    BY <1>0, <2>1, <2>2, StaysClear DEF CleanInv, AddsNothing
<1> QED
  BY <1>1, <1>2, <1>3, <1>4 DEF Start

LEMMA StopClean ==
    ASSUME StopInvariant, Stop
    PROVE  CleanInv'
<1> USE DEF StopInvariant
<1>0. [Next]_vars
  BY DEF Next
<1>1. CASE RequestTerm \/ Signal \/ Kill
  <2>1. AddsNothing
    <3> USE DEF AddsNothing, object, CleanInv, CleanTypes, Types, WaiterTypes, Live
    <3>1. CASE RequestTerm
      BY <3>1 DEF RequestTerm
    <3>2. CASE Signal
      BY <3>2 DEF Signal
    <3>3. CASE Kill
      BY <3>3 DEF Kill
    <3> QED
      BY <1>1, <3>1, <3>2, <3>3
  <2>2. Progress'
    BY <1>1 DEF RequestTerm, Signal, Kill, Goto, Progress
  <2> QED
    BY <1>0, <2>1, <2>2, StaysClear DEF CleanInv, AddsNothing
<1>2. CASE UnsetEnabled
  <2>1. cur \in Listeners
    BY <1>2 DEF UnsetEnabled, Goto, IInv, OfRequest
  <2>2. AddsNothing
    BY <1>2, <2>1 DEF UnsetEnabled, AddsNothing, world, CleanInv, CleanTypes, IInv
  <2>3. Progress'
    BY <1>2, <2>1 DEF UnsetEnabled, Goto, Progress, CleanInv, CleanTypes
  <2> QED
    BY <1>0, <2>2, <2>3, StaysClear DEF CleanInv, AddsNothing
<1>3. CASE RevokeAPIKeys \/ Unsubscribe
  <2>1. AddsNothing
    BY <1>3 DEF RevokeAPIKeys, Unsubscribe, AddsNothing, object, world, CleanInv, CleanTypes
  <2>2. Progress'
    BY <1>3 DEF RevokeAPIKeys, Unsubscribe, Goto, object, world, Progress, CleanInv
  <2> QED
    BY <1>0, <2>1, <2>2, StaysClear DEF CleanInv, AddsNothing
<1>4. CASE Stopped
  <2>1. /\ cur \in Listeners /\ pc = "unsubscribed" /\ at[Admin] = "idle"
        /\ op \in {"disable", "rebuild", "reload", "close"}
    BY <1>4 DEF Stopped, Goto, IInv, OfRequest
  <2>2. UNCHANGED <<subscriptions, object, keys, os, cur>>
    BY <1>4 DEF Stopped, eventVars, eventMaps
  <2>3. AllClear(cur)
    BY <2>1 DEF IInv, OffBeforeStored, ProcessInv, AfterStop, AtRest, Calls, CleanInv, Progress,
                AllClear, Cleared
  <2>4. ASSUME NEW l \in Listeners, clean'[l] PROVE AllClear(l)'
    <3>1. AllClear(l)
      BY <1>4, <2>3, <2>4 DEF Stopped, CleanInv, CleanTypes
    <3> QED
      BY <2>2, <3>1 DEF AllClear, Cleared, Ended, Gone, object
  <2>5. CleanTypes' /\ Progress'
    BY <1>4, <2>1, <2>2 DEF Stopped, Goto, CleanInv, CleanTypes, Progress, object
  <2> QED
    BY <2>4, <2>5 DEF CleanInv
<1> QED
  BY <1>1, <1>2, <1>3, <1>4 DEF Stop

LEMMA RequestClean ==
    ASSUME StopInvariant,
           Request \/ BeginClose
             \/ \E o \in Ops \ {"boot", "close"}, l \in Listeners : Begin(o, l)
    PROVE  CleanInv'
<1> USE DEF StopInvariant
<1>0. [Next]_vars
  BY DEF Next
<1>1. AddsNothing
  <2> USE DEF AddsNothing, CleanInv, CleanTypes
  <2>1. CASE Drop
    <3>1. cur \in Listeners
      BY <2>1 DEF Drop, Goto, IInv, OfRequest
    <3> QED
      BY <2>1, <3>1, Processes DEF Drop, IInv
  <2>2. CASE Request /\ ~Drop
    BY <2>2 DEF Request, DisableInDatabase, Build, NextPlugin, NoneLeft, AdminReads, AdminStores,
                object, world
  <2>3. CASE BeginClose
    BY <2>3 DEF BeginClose, object, world
  <2>4. ASSUME NEW o \in Ops \ {"boot", "close"}, NEW l \in Listeners, Begin(o, l)
        PROVE  AddsNothing
    BY <2>4 DEF Begin, object
  <2> QED
    BY <2>1, <2>2, <2>3, <2>4
<1>2. pc' \notin Off \cup {"spawn", "ui", "set", "subscribe", "routers"}
  <2>1. ASSUME NEW o \in Ops \ {"boot", "close"}, NEW l \in Listeners, Begin(o, l)
        PROVE  pc' \in {"key", "term", "build", "drop"}
    BY <2>1 DEF Begin, Goto
  <2> QED
    BY <2>1 DEF Request, DisableInDatabase, Build, Drop, NextPlugin, NoneLeft, AdminReads,
                AdminStores, BeginClose, Goto
<1>3. Progress'
  BY <1>2 DEF Progress
<1> QED
  BY <1>0, <1>1, <1>3, StaysClear DEF CleanInv, AddsNothing

LEMMA CleanNext ==
    ASSUME StopInvariant, [Next]_vars
    PROVE  CleanInv'
<1>1. CASE EventsMove \/ UNCHANGED vars \/ \E x \in Process : ProcessStep(x)
  <2>1. UNCHANGED <<pc, cur>>
    BY <1>1 DEF EventsMove, ProcessStep, ProcessEnds, WaitClean, WaitError, ExitReads, ExitStores,
                vars, locals
  <2>2. AddsNothing
    <3> USE DEF AddsNothing, StopInvariant, CleanInv, CleanTypes, object
    <3>1. CASE EventsMove \/ UNCHANGED vars
      BY <3>1 DEF EventsMove, vars, world
    <3>2. ASSUME NEW x \in Process, ProcessEnds(x) PROVE AddsNothing
      BY <3>2 DEF ProcessEnds, Live, Types, WaiterTypes
    <3>3. ASSUME NEW x \in Process, WaitError(x) PROVE AddsNothing
      BY <3>3, Processes DEF WaitError, IInv
    <3>4. ASSUME NEW x \in Process, WaitClean(x) \/ ExitReads(x) \/ ExitStores(x)
          PROVE  AddsNothing
      BY <3>4 DEF WaitClean, ExitReads, ExitStores
    <3> QED
      BY <1>1, <3>1, <3>2, <3>3, <3>4 DEF ProcessStep
  <2>3. Progress'
    BY <2>1, <2>2 DEF Progress, StopInvariant, CleanInv, CleanTypes, AddsNothing, IInv, OfRequest
  <2> QED
    BY <2>2, <2>3, StaysClear DEF CleanInv, AddsNothing
<1> QED
  BY <1>1, StartClean, StopClean, RequestClean DEF Next

(* "It is garanteed that the plugin is stopped after this function"             *)
(* (lifecycle.go): whatever the plugin, its other processes and the emissions   *)
(* under way do, a stopped plugin stays without process, key, route or listener *)
(* until it is started.                                                         *)
THEOREM StopIsClean == Spec => []StoppedIsClean
<1>1. Init => StopInvariant
  <2>1. Init => EventInit
    BY DEF Init
  <2> QED
    BY <2>1, RequestInit, TypesInit, ProcessInit, InvInit, CallsInit, CleanInit DEF StopInvariant
<1>2. StopInvariant /\ [Next]_vars => StopInvariant'
  BY NextInv, ManagerTypesNext, WaiterTypesNext, NextProcesses, CallsOnly, InvNext, CallsNext,
     CleanNext
     DEF StopInvariant, Types
<1>3. StopInvariant => StoppedIsClean
  BY DEF StopInvariant, CleanInv, AllClear, Cleared, Ended, Gone, StoppedIsClean
<1> QED
  BY <1>1, <1>2, <1>3, PTL DEF Spec

==============================================================================
