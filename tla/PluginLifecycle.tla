--------------------------- MODULE PluginLifecycle ---------------------------
(***************************************************************************)
(* The plugin manager (mod/plugins): each plugin is a process of its own,  *)
(* started and stopped by request handlers that hold no lock, with a       *)
(* goroutine per process that waits for its exit.  A started plugin has an *)
(* API key, event subscriptions (EventSystem), a UI proxy and routes; the  *)
(* tree of static routes is rebuilt from what is enabled, by whoever       *)
(* changes it.                                                             *)
(*                                                                         *)
(* Grain: one action per access to what other goroutines access.           *)
(***************************************************************************)
EXTENDS EventSystem

CONSTANTS
    Admin,      \* the thread that starts the manager and serves its requests
    Emitters,   \* threads of proxied requests and plugins, which emit events
    UI,         \* plugins with a UIPath
    Keyed,      \* plugins with permitted API endpoints
    Subscribes, \* Subscribes[l]: the events in the plugin's specification
    MaxRuns     \* bound: processes started per plugin

ASSUME PluginAssumption ==
    /\ Threads = {Admin} \cup Emitters /\ Admin \notin Emitters
    /\ UI \subseteq Listeners /\ Keyed \subseteq Listeners
    /\ Subscribes \in [Listeners -> SUBSET Events]
    /\ MaxRuns \in Nat

Runs == 1..MaxRuns
Process == Listeners \X Runs

VARIABLES
    badURL,     \* plugins whose specification has a UIPath that url.Parse refuses
    db,         \* the stored enable state
    \* the Plugin object: Enabled, process, AssignedPort, uiProxy # nil and the
    \* ports its static routers go to; processes are named by number,
    \* 0 is nil, and a plugin's port is the number of the process that got it
    enabled, process, port, ui, routes,
    keys,       \* valid API keys, by the process they were made for
    tree,       \* the plugins in the static forwarder's tree
    os,         \* what has become of each process
    exit,       \* the goroutine that waits for it
    seen,       \* what each builder of the tree has found enabled
    used, old,  \* processes tried so far; those of objects that were dropped
    pc, op, cur, run, left, evs,    \* the administrator's request
    clean       \* StopPlugin has returned and StartPlugin was not called since

object == <<enabled, process, port, ui, routes>>
locals == <<pc, op, cur, run, left, evs>>
world == <<db, keys, tree, os, exit, seen, used, old, clean>>
vars == <<eventVars, object, locals, world, badURL>>

OS == {"none", "up", "asked", "signalled", "killed", "failed", "exited"}
Live == {"up", "asked", "signalled"}
PC == {"idle", "key", "spawn", "ui", "set", "subscribe", "routers", "term",
       "signal", "kill", "unset", "revoke", "unsubscribe", "unsubscribed",
       "db_off", "build", "drop", "tags", "store", "next", "closed"}
Ops == {"boot", "enable", "disable", "rebuild", "reload", "close"}
Builders == Process \cup {Admin}

TypeOK ==
    /\ EventTypeOK /\ badURL \subseteq UI
    /\ db \in [Listeners -> BOOLEAN] /\ enabled \in [Listeners -> BOOLEAN]
    /\ process \in [Listeners -> 0..MaxRuns] /\ port \in [Listeners -> 0..MaxRuns]
    /\ ui \in [Listeners -> BOOLEAN] /\ routes \in [Listeners -> SUBSET (0..MaxRuns)]
    /\ keys \subseteq Process /\ tree \subseteq Listeners
    /\ os \in [Process -> OS] /\ exit \in [Process -> {"none", "wait", "tags", "store", "done"}]
    /\ seen \in [Builders -> SUBSET Listeners]
    /\ used \in [Listeners -> 0..MaxRuns] /\ old \in [Listeners -> 0..MaxRuns]
    /\ pc \in PC /\ op \in Ops /\ cur \in Listeners \cup {NoOne}
    /\ run \in 0..MaxRuns /\ left \subseteq Listeners /\ evs \subseteq Events
    /\ clean \in [Listeners -> BOOLEAN]

\* LoadPluginsFromDisk has read the specifications and the stored states.
Init ==
    /\ EventInit /\ badURL \in SUBSET UI
    /\ db \in [Listeners -> BOOLEAN]
    /\ enabled = [l \in Listeners |-> FALSE] /\ process = [l \in Listeners |-> 0]
    /\ port = [l \in Listeners |-> 0] /\ ui = [l \in Listeners |-> FALSE]
    /\ routes = [l \in Listeners |-> {}]
    /\ keys = {} /\ tree = {}
    /\ os = [x \in Process |-> "none"] /\ exit = [x \in Process |-> "none"]
    /\ seen = [b \in Builders |-> {}]
    /\ used = [l \in Listeners |-> 0] /\ old = [l \in Listeners |-> 0]
    /\ pc = "next" /\ op = "boot" /\ cur = NoOne /\ run = 0
    /\ left = {l \in Listeners : db[l]} /\ evs = {}
    /\ clean = [l \in Listeners |-> TRUE]

Goto(from, to) == pc = from /\ pc' = to
Current == <<cur, run>>

-----------------------------------------------------------------------------
(* StartPlugin *)

\* The plugin has a key from here on, whether it starts or not.
GenerateAPIKey ==
    /\ Goto("key", "spawn") /\ used[cur] < MaxRuns
    /\ run' = used[cur] + 1 /\ used' = [used EXCEPT ![cur] = @ + 1]
    /\ keys' = IF cur \in Keyed THEN keys \cup {<<cur, run'>>} ELSE keys
    /\ clean' = [clean EXCEPT ![cur] = FALSE]
    /\ UNCHANGED <<eventVars, object, db, tree, os, exit, seen, old, op, cur, left, evs, badURL>>

\* cmd.Start may fail: EnablePlugin and RebuildPlugin return the error, and
\* LoadPluginsFromDisk goes on with the next plugin.
Spawn ==
    /\ \/ /\ Goto("spawn", "ui")
          /\ os' = [os EXCEPT ![Current] = "up"]
          /\ exit' = [exit EXCEPT ![Current] = "wait"]
       \/ /\ Goto("spawn", IF op = "boot" THEN "next" ELSE "idle")
          /\ UNCHANGED <<os, exit>>
    /\ UNCHANGED <<eventVars, object, db, keys, tree, seen, used, old, clean, op, cur, run, left,
                   evs, badURL>>

\* A UIPath that is no URL makes StartPlugin return with the process running.
StartUIHandler ==
    /\ \/ /\ Goto("ui", "set") /\ cur \notin badURL
          /\ ui' = [ui EXCEPT ![cur] = @ \/ cur \in UI]
          /\ port' = IF cur \in UI THEN [port EXCEPT ![cur] = run] ELSE port
       \/ /\ Goto("ui", IF op = "boot" THEN "next" ELSE "idle") /\ cur \in badURL
          /\ UNCHANGED <<ui, port>>
    /\ UNCHANGED <<eventVars, enabled, process, routes, world, op, cur, run, left, evs, badURL>>

\* Whatever process the plugin had is forgotten.
SetEnabled ==
    /\ Goto("set", "subscribe")
    /\ process' = [process EXCEPT ![cur] = run]
    /\ enabled' = [enabled EXCEPT ![cur] = TRUE]
    /\ evs' = Subscribes[cur]
    /\ UNCHANGED <<eventVars, port, ui, routes, world, op, cur, run, left, badURL>>

SubscribeNext ==
    /\ pc = "subscribe"
    /\ \E e \in evs : CallRegister(Admin, cur, e) /\ evs' = evs \ {e}
    /\ UNCHANGED <<object, world, pc, op, cur, run, left, badURL>>

Subscribed ==
    /\ Goto("subscribe", "routers") /\ evs = {} /\ at[Admin] = "idle"
    /\ UNCHANGED <<eventVars, object, world, op, cur, run, left, evs, badURL>>

\* The routers go to AssignedPort, which only a plugin with a UI gets.
StartRouters ==
    /\ Goto("routers", IF op = "boot" THEN "next" ELSE "tags")
    /\ routes' = [routes EXCEPT ![cur] = {port[cur]}]
    /\ UNCHANGED <<eventVars, enabled, process, port, ui, world, op, cur, run, left, evs, badURL>>

-----------------------------------------------------------------------------
(* StopPlugin *)

\* A request to the plugin's /term, when it has a UI.
RequestTerm ==
    /\ Goto("term", "signal")
    /\ os' = IF ui[cur] /\ port[cur] # 0 /\ os[<<cur, port[cur]>>] = "up"
             THEN [os EXCEPT ![<<cur, port[cur]>>] = "asked"] ELSE os
    /\ UNCHANGED <<eventVars, object, db, keys, tree, exit, seen, used, old, clean, op, cur, run,
                   left, evs, badURL>>

Mine == <<cur, process[cur]>>

\* A plugin that was never started has no process: the handler panics, and
\* net/http recovers it.
Signal ==
    /\ \/ /\ Goto("signal", "idle") /\ process[cur] = 0
          /\ UNCHANGED os
       \/ /\ Goto("signal", "kill") /\ process[cur] # 0
          /\ os' = IF os[Mine] \in Live THEN [os EXCEPT ![Mine] = "signalled"] ELSE os
    /\ UNCHANGED <<eventVars, object, db, keys, tree, exit, seen, used, old, clean, op, cur, run,
                   left, evs, badURL>>

\* mutant: a process that does not stop in five seconds is let go.
Kill_LetsGo ==
    /\ Goto("kill", "unset")
    /\ UNCHANGED <<eventVars, object, world, op, cur, run, left, evs, badURL>>

\* After five seconds; a process that has exited is not found any more.
Kill ==
    /\ Goto("kill", "unset")
    /\ os' = IF os[Mine] \in Live THEN [os EXCEPT ![Mine] = "killed"] ELSE os
    /\ UNCHANGED <<eventVars, object, db, keys, tree, exit, seen, used, old, clean, op, cur, run,
                   left, evs, badURL>>

UnsetEnabled ==
    /\ Goto("unset", "revoke")
    /\ ui' = [ui EXCEPT ![cur] = FALSE] /\ enabled' = [enabled EXCEPT ![cur] = FALSE]
    /\ routes' = [routes EXCEPT ![cur] = {}]
    /\ UNCHANGED <<eventVars, process, port, world, op, cur, run, left, evs, badURL>>

RevokeAPIKeys ==
    /\ Goto("revoke", "unsubscribe")
    /\ keys' = {k \in keys : k[1] # cur}
    /\ UNCHANGED <<eventVars, object, db, tree, os, exit, seen, used, old, clean, op, cur, run,
                   left, evs, badURL>>

Unsubscribe ==
    /\ Goto("unsubscribe", "unsubscribed") /\ CallUnregister(Admin, cur)
    /\ UNCHANGED <<object, world, op, cur, run, left, evs, badURL>>

\* StopPlugin returns to whoever called it.
Stopped ==
    /\ at[Admin] = "idle"
    /\ Goto("unsubscribed", CASE op = "disable" -> "db_off" [] op = "rebuild" -> "build"
                              [] op = "reload" -> "drop" [] op = "close" -> "next")
    /\ clean' = [clean EXCEPT ![cur] = TRUE]
    /\ UNCHANGED <<eventVars, object, db, keys, tree, os, exit, seen, used, old, op, cur, run,
                   left, evs, badURL>>

-----------------------------------------------------------------------------
(* The requests: EnablePlugin, DisablePlugin, RebuildPlugin, HotReloadPlugin,*)
(* LoadPluginsFromDisk at the start and Close at the end                     *)

\* mutant: a plugin is reloaded without being stopped.
Begin_ReloadsRunning(o, l) ==
    /\ Goto("idle", CASE o = "enable" -> "key"
                      [] o = "disable" -> "term"
                      [] o = "rebuild" -> IF enabled[l] THEN "term" ELSE "build"
                      [] o = "reload" -> "drop")
    /\ o \in {"enable", "rebuild"} => used[l] < MaxRuns
    /\ op' = o /\ cur' = l
    /\ left' = IF o = "rebuild" /\ enabled[l] THEN {l} ELSE {}
    /\ db' = IF o = "enable" THEN [db EXCEPT ![l] = TRUE] ELSE db
    /\ UNCHANGED <<eventVars, object, keys, tree, os, exit, seen, used, old, clean, run, evs,
                   badURL>>

Begin(o, l) ==
    /\ Goto("idle", CASE o = "enable" -> "key"
                      [] o = "disable" -> "term"
                      [] o = "rebuild" -> IF enabled[l] THEN "term" ELSE "build"
                      [] o = "reload" -> IF process[l] # 0 THEN "term" ELSE "drop")
    /\ o \in {"enable", "rebuild"} => used[l] < MaxRuns
    /\ op' = o /\ cur' = l
    \* RebuildPlugin remembers whether the plugin was enabled
    /\ left' = IF o = "rebuild" /\ enabled[l] THEN {l} ELSE {}
    /\ db' = IF o = "enable" THEN [db EXCEPT ![l] = TRUE] ELSE db
    /\ UNCHANGED <<eventVars, object, keys, tree, os, exit, seen, used, old, clean, run, evs,
                   badURL>>

DisableInDatabase ==
    /\ Goto("db_off", "tags")
    /\ db' = [db EXCEPT ![cur] = FALSE]
    /\ UNCHANGED <<eventVars, object, keys, tree, os, exit, seen, used, old, clean, op, cur, run,
                   left, evs, badURL>>

\* mutant: a plugin is started after its build, whether it ran before or not.
Build_AlwaysStarts ==
    /\ Goto("build", "key") \/ Goto("build", "idle")
    /\ UNCHANGED <<eventVars, object, world, op, cur, run, left, evs, badURL>>

\* The build may fail, and then the plugin stays stopped.
Build ==
    /\ \/ Goto("build", IF left # {} THEN "key" ELSE "idle")
       \/ Goto("build", "idle")
    /\ UNCHANGED <<eventVars, object, world, op, cur, run, left, evs, badURL>>

\* The object is deleted from the list and ReloadPluginFromDisk makes another,
\* which it does not start.
Drop ==
    /\ Goto("drop", "idle")
    /\ enabled' = [enabled EXCEPT ![cur] = FALSE] /\ process' = [process EXCEPT ![cur] = 0]
    /\ port' = [port EXCEPT ![cur] = 0] /\ ui' = [ui EXCEPT ![cur] = FALSE]
    /\ routes' = [routes EXCEPT ![cur] = {}] /\ old' = [old EXCEPT ![cur] = used[cur]]
    /\ UNCHANGED <<eventVars, db, keys, tree, os, exit, seen, used, clean, op, cur, run, left,
                   evs, badURL>>

\* Boot starts what was enabled; Close stops what is enabled, one by one.
BeginClose ==
    /\ Goto("idle", "next") /\ op' = "close"
    /\ left' = {l \in Listeners : enabled[l]}
    /\ UNCHANGED <<eventVars, object, world, cur, run, evs, badURL>>

NextPlugin ==
    /\ op \in {"boot", "close"}
    /\ \E l \in left :
          /\ Goto("next", IF op = "boot" THEN "key" ELSE "term")
          /\ cur' = l /\ left' = left \ {l}
    /\ UNCHANGED <<eventVars, object, world, op, run, evs, badURL>>

NoneLeft ==
    /\ left = {} /\ Goto("next", IF op = "boot" THEN "tags" ELSE "closed")
    /\ UNCHANGED <<eventVars, object, world, op, cur, run, left, evs, badURL>>

\* UpdateTagsToPluginMaps: the tree is made from what is enabled, then stored.
ReadEnabled(b) == seen' = [seen EXCEPT ![b] = {l \in Listeners : enabled[l]}]
StoreTree(b) == tree' = seen[b]

AdminReads ==
    /\ Goto("tags", "store") /\ ReadEnabled(Admin)
    /\ UNCHANGED <<eventVars, object, db, keys, tree, os, exit, used, old, clean, op, cur, run,
                   left, evs, badURL>>

AdminStores ==
    /\ Goto("store", "idle") /\ StoreTree(Admin)
    /\ UNCHANGED <<eventVars, object, db, keys, os, exit, seen, used, old, clean, op, cur, run,
                   left, evs, badURL>>

-----------------------------------------------------------------------------
(* Processes and the goroutines that wait for them *)

\* A plugin exits with status 0 when it was asked to, and may die at any time.
ProcessEnds(x) ==
    /\ \/ os[x] \in Live \cup {"killed"} /\ os' = [os EXCEPT ![x] = "failed"]
       \/ os[x] \in {"asked", "signalled"} /\ os' = [os EXCEPT ![x] = "exited"]
    /\ UNCHANGED <<eventVars, object, locals, db, keys, tree, exit, seen, used, old, clean, badURL>>

ExitTo(x, from, to) == exit[x] = from /\ exit' = [exit EXCEPT ![x] = to]

\* cmd.Wait reports no error: nothing else happens.
WaitClean(x) ==
    /\ os[x] = "exited" /\ ExitTo(x, "wait", "done")
    /\ UNCHANGED <<eventVars, object, locals, db, keys, tree, os, seen, used, old, clean, badURL>>

\* It reports one: the plugin is disabled, if the object is still in use.
WaitError(x) ==
    /\ os[x] = "failed" /\ ExitTo(x, "wait", "tags")
    /\ enabled' = IF x[2] > old[x[1]] THEN [enabled EXCEPT ![x[1]] = FALSE] ELSE enabled
    /\ UNCHANGED <<eventVars, process, port, ui, routes, locals, db, keys, tree, os, seen, used,
                   old, clean, badURL>>

ExitReads(x) ==
    /\ ExitTo(x, "tags", "store") /\ ReadEnabled(x)
    /\ UNCHANGED <<eventVars, object, locals, db, keys, tree, os, used, old, clean, badURL>>

ExitStores(x) ==
    /\ ExitTo(x, "store", "done") /\ StoreTree(x)
    /\ UNCHANGED <<eventVars, object, locals, db, keys, os, seen, used, old, clean, badURL>>

-----------------------------------------------------------------------------
Start == GenerateAPIKey \/ Spawn \/ StartUIHandler \/ SetEnabled \/ SubscribeNext
         \/ Subscribed \/ StartRouters
Stop == RequestTerm \/ Signal \/ Kill \/ UnsetEnabled \/ RevokeAPIKeys \/ Unsubscribe
        \/ Stopped
Request == DisableInDatabase \/ Build \/ Drop \/ NextPlugin \/ NoneLeft \/ AdminReads \/ AdminStores
ProcessStep(x) == ProcessEnds(x) \/ WaitClean(x) \/ WaitError(x) \/ ExitReads(x) \/ ExitStores(x)

\* The event system's own steps, and the events that requests emit.
EventsMove ==
    /\ \/ \E p \in Procs : EventStep(p)
       \/ \E t \in Threads : EmitStep(t) \/ Cleanup(t)
       \/ \E t \in Emitters : \E e \in Events :
             CallEmit(t, e) \/ \E ids \in SUBSET Listeners : CallEmitTo(t, ids, e)
    /\ UNCHANGED <<object, locals, world, badURL>>

Next ==
    \/ Start \/ Stop \/ Request \/ BeginClose
    \/ \E o \in Ops \ {"boot", "close"}, l \in Listeners : Begin(o, l)
    \/ \E x \in Process : ProcessStep(x)
    \/ EventsMove

Spec == Init /\ [][Next]_vars

-----------------------------------------------------------------------------
(* Properties *)

\* When StopPlugin has returned, and until the next start, the process that the
\* manager has for the plugin does not run, no key of the plugin is valid, it is
\* off, its UI proxy and its routers are gone and it is on no event's list:
\* however often it was enabled, and whatever late exits and late goroutines of
\* emissions do.
StoppedIsClean == \A l \in Listeners : clean[l] =>
    /\ process[l] # 0 => os[<<l, process[l]>>] \notin Live
    /\ \A i \in Runs : <<l, i>> \notin keys
    /\ ~enabled[l] /\ ~ui[l] /\ routes[l] = {}
    /\ \A e \in Events : l \notin subscriptions[e]

\* Starting at boot, rebuilding and reloading never let go of a process that
\* runs, however builds and starts fail: only a request to enable a plugin that
\* has one does (EnablePlugin does not look).
OnlyEnablingForgets == [][\A l \in Listeners :
    process'[l] # process[l] /\ process[l] # 0 /\ os[<<l, process[l]>>] \in Live =>
        op = "enable"]_vars

\* "StopPlugin stops a plugin, it is garanteed that the plugin is stopped after
\* this function": no process of a stopped plugin runs.  The code does not keep this:
\* a plugin that is enabled twice has two, and only the second is stopped.
StopStopsAll == \A l \in Listeners : clean[l] =>
    \A i \in Runs : os[<<l, i>>] \notin Live

\* The goroutine that waits for a process disables the plugin after "a crash":
\* a plugin whose process runs is enabled whenever no request is served.  The code
\* does not keep this: the exit of an earlier process disables the plugin as well.
RunningIsEnabled == \A l \in Listeners :
    pc = "idle" /\ process[l] # 0 /\ os[<<l, process[l]>>] = "up" => enabled[l]

\* "Ignore disabled plugins": when nobody is about to rebuild it, the static
\* forwarder's tree leads to enabled plugins only.  The code does not keep this:
\* of two builders of the tree the one that looked first may be the last to store.
TreeLeadsToEnabled ==
    pc = "idle" /\ (\A x \in Process : exit[x] \notin {"tags", "store"}) =>
        \A l \in tree : enabled[l]

\* What was disabled stays off: a plugin is enabled only if the database says
\* so, whatever happens to its processes and however a rebuild or a reload ends.
DisabledStaysOff == \A l \in Listeners : enabled[l] => db[l]

\* A plugin that was started gets its events until it is stopped.
StartedIsSubscribed == \A l \in Listeners :
    pc = "idle" /\ enabled[l] => \A e \in Subscribes[l] : l \in subscriptions[e]

==============================================================================
