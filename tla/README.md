# Verification of Zoraxy

TLA+ models of [Zoraxy](../src/README.md), a reverse proxy with a web interface,
checked with TLC and, in part, proved with TLAPS. The models are written from
the Go source under `src/src` (paths below are relative to it). They are about
what the program's tests hardly reach: goroutines that overlap, stop signals
that nobody receives, stale state, files half written when the process ends.

| Module | What it is |
|---|---|
| `RouterLifecycle` | start, stop, restart and listener updates of the proxy router |
| `RouterLifecycleProofs` | its theorems |
| `StreamProxy` | the TCP/UDP forwarding rules, their listeners and files |
| `StreamProxyProofs` | its theorems |
| `UpstreamHealth` | the uptime monitor, the load balancer and the choice of an upstream |
| `UpstreamHealthProofs` | its theorems |
| `RWMutex` | Go's reader/writer lock, as the event system uses it |
| `EventSystem` | registrations and events, with their locks and goroutines |
| `EventBus` | what the event system promises: the same in single steps |
| `EventSystemProofs` | its theorems, and that `EventSystem` implements `EventBus` |
| `PluginLifecycle` | plugin processes, composed with `EventSystem` |
| `PluginLifecycleProofs` | its theorems |
| `UDPSessions` | the UDP sessions of a stream proxy rule |
| `SessionTable` | what the sessions are for clients and servers: a table changed in single steps |
| `UDPSessionsProofs` | its theorems, and that `UDPSessions` implements `SessionTable` |
| `EndpointTable` | the hosts, their objects and files |
| `HostStore` | what the endpoint table promises: transactions on configurations |
| `EndpointTableProofs` | its theorems, and that `EndpointTable` implements `HostStore` |
| `MC*`, `*.cfg` | the instances TLC checks |

`PROJECT.json` lists, for each definition, the source lines it stands for.

## 1. Inventory

### The parts of the system

Zoraxy is one process. `main.go` and `start.go` construct the parts below and
register the management API (`api.go`); every management request and every
proxied request runs on a goroutine of its own. The parts call one another
directly, share pointers to the same structs (a host's `ProxyEndpoint` is
edited by requests to the API while proxied requests read it), and start
goroutines that are stopped through *unbuffered channels*: a send completes only
if the goroutine is still there to receive. Few of the shared fields have a lock.

**Router life cycle** (`mod/dynamicproxy/dynamicproxy.go`, `ratelimit.go`,
`reverseproxy.go`).
State: the main `http.Server`, the TLS listener, `Running`, `restarting`, the
redirector's stop channel, the ticker's stop channel, two maps of secondary
listeners with a mutex. Operations: `StartProxyService`, `StopProxyService`,
`Restart`, `UpdateTLSSetting`, `UpdatePort80ListenerState`,
`UpdateSecondaryListeners`. Hard: each operation is a sequence of unlocked reads
and writes, goroutines of the last instance finish while the next one starts,
port 80 may be taken. Correct when: whatever listens can be stopped, a request
always returns, the settings last chosen are those in use. *Modelled.*

**Stream proxy** (`mod/streamproxy`). State: the rules, `Running`, two stop
channels per rule, one file per rule, sessions of UDP clients, TCP connections.
Operations: add, edit, start, stop, remove a rule; load and resume at start-up.
Hard: a listener that fails writes the rule's fields from its own goroutine; any
change of status rewrites the files of all rules; a stop channel without a
receiver. Correct when: a stopped rule holds no port, a stop returns, what is
resumed was running, no rule is lost; a client has one session, and none is left
behind. *Rules, listeners and files modelled in `StreamProxy`, UDP sessions in
`UDPSessions`; TCP connections not.*

**Upstream health and choice** (`mod/uptime`, `mod/dynamicproxy/loadbalance`,
`wrappers.go`). State: the monitor's targets, its online and offline lists and
records, the load balancer's map of online states, the clients' cookies.
Operations: checks by two tickers and after edits, replacement of the targets,
choice of an upstream for a request. Hard: checks overlap and report late, the
lists are searched without the lock, requests write to the map they read.
Correct when: requests leave an upstream that stays down and return to one that
stays up, and every upstream keeps being checked. *Modelled.*

**Request routing** (`mod/dynamicproxy/Server.go`, `special.go`, `access.go`,
`proxyRequestHandler.go`, `authProviders.go`). Stateless: a fixed priority of
special rules, redirections, access control, exploit filter, rate limit,
captcha, authentication, plugins, virtual directories, host, root. Correct when:
the TLS and the plain path apply the same order, and no route escapes a rule
that precedes it. *Planned.*

**Rate limit counters** (`ratelimit.go`). A counter per client, cleared every
second. Correct when: at most the limit passes in a second. The ticker's life is
in `RouterLifecycle`. *Counters planned.*

**Endpoint table** (`mod/dynamicproxy/router.go`, `endpoints.go`, `config.go`,
`upstreams.go`, `vdir.go`). A map from host names to endpoints, each with a file.
Hard: endpoints are edited in place, or removed and added again, under requests
that read them; files are written in place; no handler holds a lock. Correct
when: what is in memory is what would be loaded, what is listed under a name has
that name, and a listed directory can be served. *Modelled.*

**Event system** (`mod/eventsystem`). Subscriptions per event and a map of
subscribers under a `RWMutex`; events are delivered by a goroutine per listener.
Hard: `Emit` takes the read lock twice; missing listeners are unregistered later
by another goroutine. Correct when: nobody waits for ever, and a registered
plugin stays subscribed. *Modelled.*

**Plugins** (`mod/plugins`, `mod/auth/plugin_apikey_manager.go`). A process per
plugin, `Enabled`, API keys, subscriptions, routes. Hard: the goroutine that
waits for the process writes `Enabled` at any time, also after the plugin was
started again. Correct when: a stopped plugin has neither process nor key nor
subscription, no process is forgotten, and what is disabled stays off. *Modelled,
but for groups, the store and the hot reload ticker.*

**ZorxAuth gateway** (`mod/auth/sso/zorxauth`). One server, one-time codes, two
stores of sessions, timers, persistence. Correct when: a code is used once, a
session in use does not end early, an ended one is not valid after a restart.
*Planned.* **Other authentication** (`mod/auth`, `sso/forward`, `sso/oauth2`)
keeps its state in cookies or outside. *Not planned.*

**Access control** (`mod/access`): rules with lists of addresses and countries,
one file each, edited in place, as the endpoint table is. *Not modelled.*

**Certificates** (`mod/tlscert`): the loaded certificates and the choice of one
for a name; the list is replaced under handshakes. *Planned.*

**ACME auto renewal** (`mod/acme/autorenew.go`): a ticker with an unbuffered stop
channel whose goroutine may be busy renewing for minutes. *Planned.*

**Statistics** (`mod/statistic`): counters incremented by a goroutine per
request, saved and replaced at midnight. *Planned.*

**Single servers** (`mod/forwardproxy`, `mod/webserv`, the gateway's server): on,
off and change of port of one `http.Server`. *Planned, one module for the three.*

**Not to be modelled**: the forwarding of one request (`dpcore`,
`websocketproxy`, `modh2c`), which keeps nothing between requests; formatting and
matching of strings (`rewrite`, `permissionpolicy`, `pathrule`, `exploits`,
`domainsniff`); `geodb`; the database, an embedded library behind four calls;
`info`, `netstat` and the logger, which only display; the network tools; the
terminal; version updates; web pages, documentation, example plugins and build
scripts. `PROJECT.json` lists each with its reason.

### How the parts interact

    management API --> router life cycle --starts--> main server, redirector,
          |                   ^                      secondary listeners, ticker
          |                   | listening ports           |
          +--> endpoint table +<--------- reads ----------+ a request
          |        | SetTargets                           |
          |        v                                      v
          |    uptime monitor --OnlineStateNotify--> load balancer
          +--> stream proxy rules --> listeners --> (files of all rules)
          +--> plugins --> event system <-- access control, ... emit

## 2. Router life cycle

### Model

A management goroutine (`Callers`) has a program counter that names the next
statement of the function it runs. One action is one access to the router's
shared fields or one channel or lock operation; statements that touch only local
variables are part of the action before them. So `StopProxyService` is
`StopCheck`, `StopMain` (spawn the shutdown and the send to the redirector),
`StopSecondaries` (under the mutex), `StopRate`, `StopWaited` (after `wg.Wait()`)
and `StopClear`. The order is that of the code.

A stop channel is `<<kind, id>>` with `kind` `"redirect"`, `"ticker"` or a
secondary address, because exactly one goroutine receives on each channel.
`recv` holds the channels whose goroutine still waits; `sends[c]` the ones that
the goroutines started by a Stop are sending to. `Deliver` is the rendezvous.
`UpdateStop` is the send that `UpdateSecondaryListeners` makes with the mutex
held; it is enabled only if the receiver is there. `sock[ch]` is the socket,
`main[s]` the state of a main server. A shutdown that comes before the listen
wins, as in `net/http`.

Failing steps: applying the HTTP/2 options (`ConfigureHTTP2` may return early),
binding a socket that the program itself still holds, and binding port 80
(`Port80MayFail`), whose goroutine then sends to its own waiter and clears
`tlsRedirectStop` (`RedirectFailSend`, `RedirectFailReset`) while Start may not
yet have assigned it (`AssignRedirect`).

Abstractions: the port number of the main server and other settings that only
restart the router are one request (`HandleRestart`); what a request changes
among endpoints with listening ports is the set `ports`; time-outs of a shutdown
are not told apart from its end. `known` is history: the addresses last read from the
endpoints, at a start and in `UpdateSecondaryListeners`. `HandleSetListeningPorts` goes
on to that only if the host could be saved (`reverseproxy.go:2716`), and `EditEndpoint`
never does.

### Properties

- `ListenersOwned`, `MainOwned`, `RedirectOwned`: what listens, or will, can be
  reached by a stop.
- `SendsAreHeard`, `HeldSendIsHeard`: nobody sends to a goroutine that is gone.
- `RunningHasServer`, `SettingsApplied`: the fields agree with one another and with the
  configuration.
- `ListensAsRead`: a running router at rest has a secondary listener for exactly the
  addresses it last read, whatever was edited or failed to be saved since.
- `StopLeavesNothing`: after a stop no socket is open and no ticker ticks.
- `RequestReturns` (liveness): every request is answered.
- `NoNilLaunch`, `ListenersMatchPorts`: what comments say and the code does not keep; in
  no run, see the observations.

### Runs

| Run | Instance | Shows |
|---|---|---|
| `router_serial` | one caller, all requests, two addresses, one id per kind, one server; `Settled`; with fairness | types, stop channels, servers and listeners, settings, and `RequestReturns` (382 817 states) |
| `router_updates` | two callers, one starts and changes ports, the other changes and edits; port 80 may fail; not `Settled` | `HeldSendIsHeard` (990 964 states) |
| `router_stop_update` | a stop beside a change of ports | violation of `HeldSendIsHeard` |

Bounds. `Ids` and `Servers` are how many channels of one kind, and main servers,
may be alive at once; an id is used again when nobody can reach it. With
`Settled` one of each suffices, because a start waits until the goroutines of the
previous instance are done; without it two let two generations overlap. With one
caller there is no need for more than two secondary addresses: one that stays
and one that changes. `Settled` is an assumption about the caller, not the code:
an administrator who waits a little between two clicks. `RequestReturns`,
`SendsAreHeard` and `StopLeavesNothing` fail without it (see the observations), so
they are claimed only for the quiet administrator. The other properties of
`router_serial` do not need it, and are proved without it: for any number of ids and
servers, with goroutines of earlier instances left over and a port 80 that may be
denied (section 8).

Symmetry (ids and servers are interchangeable) is used in `router_updates` only, where
there is no liveness. `CHECK_DEADLOCK FALSE` in the run in which the code really can
stop, at a send to nobody: `router_stop_update`.

Fairness: every goroutine that can take a step eventually does (weak fairness of
`CallerStep`, `Deliver`, `MainShutdown`, `MainListen`, `ChanStep`): that is Go's
scheduler and the 10 s limit on shutdowns. `LockStep` has strong fairness because
`sync.Mutex` hands itself over to a starving waiter after 1 ms. No request is
ever required to come.

### Findings

- `router_stop_update`. `StopProxyService` leaves the entries of the secondary
  listeners in the maps until `wg.Wait()` returns, which may take 10 s
  (`dynamicproxy.go:576`, `:598`). A change of listening ports in that time sends
  to a waiter that has already received, with `secondaryServerMutex` held
  (`:530`). It waits for ever, and so does every later operation that needs the
  mutex.

### Observations without a run

- The comment at `dynamicproxy.go:515` says that `UpdateSecondaryListeners` is
  called when endpoints are added or removed; the only call is in
  `HandleSetListeningPorts` (`reverseproxy.go:2729`), and not when the host could not be
  saved. TLC finds `ListenersMatchPorts` violated in the instance of `router_serial`, by
  an endpoint edited while the router runs and by a failed save.
- `StartProxyService` reads `router.server` again when it starts the serving goroutine
  (`dynamicproxy.go:280`, `:293`), although the comment at `:253` has the nil pointer of
  issue #1206 fixed. With a start beside a stop TLC finds `NoNilLaunch` violated: the
  stop has cleared the field in between. With one caller it cannot happen.
- The goroutine of the redirector that fails to bind port 80 can run before
  `tlsRedirectStop` is assigned (`dynamicproxy.go:237`, `:248`). The next stop then
  waits for ever. `Port80MayFail` enables it, and `SendsAreHeard` and
  `RequestReturns` are violated then; they are checked with `Port80MayFail = FALSE`.
  `RedirectOwned` is true all the same, and proved: the waiter that has been told is
  not one that is lost.
- The same goroutine can come too late: when a stop has told the waiter and then the
  bind fails, its own `stopChan <- true` (`dynamicproxy.go:240`) has no receiver. It
  stays for ever, and `StopLeavesNothing` is violated with `Port80MayFail`, even
  though starts and stops are far apart.
- `StopProxyService` "waits for all listeners to close" (`:543`), but waits only
  until the redirector and the secondary listeners have been told.
- The ticker's goroutine sets `rateLimterStop` to nil when told
  (`ratelimit.go:110`); if the next start has stored its own channel by then, that
  ticker can never be stopped. The same delay lets a start return "another rate
  limiter ticker already running" (`:99`).
- A TLS setting changed while a restart is in progress is stored, and its own
  restart refused (`dynamicproxy.go:83`, `:619`), so it may not be applied;
  `SettingsApplied` is checked and proved for one caller.
- `Restart`, called by `UpdateTLSSetting`, starts a router that was stopped
  (`:79`, `:626`).
- Two concurrent `startSecondaryListeners` may both create a server for one
  address (`:417`): the entry of the first is overwritten. `ListenersOwned` is
  violated with two callers.
- A secondary listener that could not bind keeps its entry and is never retried.

## 3. Stream proxy

### Model

`run`, `mode` and `stop` are the fields `Running`, `UseTCP`/`UseUDP` and the two
stop channels of a rule; `listed` is `Manager.Configs`; `disk` the rules' files.
Management requests (`Callers`), the goroutine of `NewStreamProxy` (`Main`) and
every listening goroutine, named by its stop channel, are threads.

`Start` evaluates `Running` and starts one goroutine per protocol (`StartNext`);
`Listen` binds or fails; a failure resets the field and `Running` and saves
(`Failed`, `FailureSaved`). `Stop` tests the field and later reads it again for
the send (`StopEval`, `StopSend`), so that the channel can be replaced or become
nil in between: a send on nil never ends. `SaveConfigToDatabase` is a loop of its
own in whichever thread runs it: `SaveOpen` marshals a rule and truncates its
file, which is then `Empty`; `SaveWrite` writes the copy. Two writers in one file can
leave it `Torn`. With `SavesFail` the file may not open, or not be written, or only in
part; the loop goes on all the same (`streamproxy.go:336`), and so does a removal whose
file stays. `Crash` may come at any step: everything but `disk` is lost. `Resume` and `Booted` are
`NewStreamProxy`, which skips files it cannot parse and starts the rules that
were running *before* the manager has its list, so that what a failing listener
saves then is nothing.

`HandleRemoveProxy` sets `Running` to false even when it refuses; an edit that is
rejected has already changed the fields. Both are in the model as the code has
them.

Abstractions: names, addresses and time-outs of a rule; an access rule is the
reason an edit may be rejected; TCP connections and UDP sessions are left out, so
"listening" is all a listener does.

### Properties

- `ListenersOwned`: a listener that waits for its stop is the one a stop would send to.
- `StoppedServesNobody`: what a rule that is not running still has open has been told to
  stop. (`leaked`, the socket that `ForwardUDP` gives up, is no listener: it does hold
  the port of a stopped rule, see the observations.)
- `TcpFieldIsCurrent`: a stop channel in a TCP field is that of a listener to come, open,
  or failed and about to clear the field; one that stayed would refuse every later
  start. It does not say that a stop is heard.
- `SoundStopIsHeard`, `SoundRequestReturns`: stops of rules whose ports are free
  reach their listener and every request about them returns, whatever the
  goroutines of *other* rules do meanwhile.
- `ListedHaveFiles`: while nobody writes, a listed rule has a whole file, unless a save
  of that very rule went wrong.
- `ListedFilesAreWhole`: it has one in any case if no file operation fails. Not so, and in
  no run; see the observations.

### Runs

| Run | Instance | Shows |
|---|---|---|
| `stream_serve` | two rules: r1 both protocols, which may fail; r2 TCP only, sound; one administrator, all requests, crashes, saves that fail | types, `ListenersOwned`, `StoppedServesNobody`, `TcpFieldIsCurrent`, `SoundStopIsHeard`, `ListedHaveFiles` and `SoundRequestReturns` (724 434 states) |
| `stream_stop` | one rule, any protocols, which may fail | violation of `EveryStopIsHeard` |

Bounds. Two rules are the least with which one rule's failure and another rule's
request interfere through the shared files; one rule has two protocols, so that
one can fail and the other listen. One channel per rule and protocol is enough
with `Settled` (a rule starts after its last listeners have closed); one
administrator, with `Main` and four listening goroutines, gives up to five
threads.

Fairness: weak, of every thread's steps and of the start-up; the process need not
crash and nobody has to send a request.

### Findings

- `stream_stop`. A UDP listener that failed leaves its stop channel in the field
  when the rule's TCP listener came up (`instances.go:69`). `Stop` then sends to
  nobody (`:104`) and the management request never returns; the TCP listener,
  which would be stopped next, keeps running.

### Observations without a run

- Start saves a rule as running while the goroutine whose listener failed saves it as
  not running (`streamproxy.go:341`); a write that is shorter than what it meets leaves
  the end of the other. In the instance of `stream_stop`, where no file operation fails,
  TLC finds `ListedFilesAreWhole` violated: start-up skips such a file.
- A thread marshals a rule, another stops the rule and saves, and the first
  writes its copy (`streamproxy.go:335`): after a restart the stopped rule runs
  again.

- If the target of a UDP rule does not resolve, the inbound socket is never closed
  (`udpprox.go:66`; `leaked` in the model): the port is taken until the process
  ends.
- A rejected edit stays in memory and is persisted by the next save of any rule
  (`streamproxy.go:284`). A refused removal leaves `Running` false on a rule that
  runs (`handler.go:186`).
- A crash between truncating and writing a file loses the rule at the next start
  (`streamproxy.go:341`).
- `connCopy` returns without `wg.Done` on an error (`tcpprox.go:37`), so that
  `forward` waits for ever. Connections are not modelled.

## 4. Upstream health and choice

### Model

The environment changes the `condition` of an upstream: up, answering 5xx, or
down. `MasterPing` is the 300 s ticker and the check after an edit, which also
keeps a record; `ShadowPing` the 30 s ticker, which checks the offline list. A
check is a goroutine: `Answer` (the HTTP request), `Notify` (the load balancer is
told, except of a failure before the target's first record), `Test` (search in
the lists), `MoveTargetToOffline` or `MoveTargetToOnline`, `Log`. The order is the
code's: the load balancer is told *before* the lists change.

`onlineTargets` and `offlineTargets` count how often a target is in each list,
because overlapping checks may list one twice. `removeTargetFromList` shifts the
entries of the array in place, and `targetExistsInList` reads it without the
lock: `Test` may therefore miss a target while another one's removal is under way
(`Shifting`). Moving is atomic, as in the code, which holds the lock.

`SetTargets` is the replacement of the target list after any edit: a target that
was in the offline list stays there, records of removed targets go, the load
balancer's map is not touched.

A request goes through `RequestStart` (the sticky session), `FilterOfflineOrigins`
(asks `IsTargetOnline` of each upstream, and stores `true` for one that is not in
the map, as a step of its own: `StoreMissing`), the choice by weight (`Choices`:
what the random draw may return) and `Respond`. It is one request at a time: what
requests share is `onlineStatus`, and each is independent of the others otherwise.

Abstractions: a target's identifier (its position in the host) and its address
are the same; how long an answer takes is the number of steps that come between.

### Properties

- `EveryTargetListed`: a monitored upstream is never dropped from both lists.
- `DeadUpstreamIsLeft`, `LiveUpstreamServes` (liveness): from the moment an
  upstream stays down (up), requests eventually never (again) use it.
- `FailureIsWatched` (liveness): an upstream that stays down ends up in the
  offline list, for good.

### Runs

| Run | Instance | Shows |
|---|---|---|
| `health_serve` | two upstreams, t1 comes and goes, t2 serves as fallback; two overlapping checks of t1; edits that keep or end the monitoring; sticky sessions; with fairness | `TypeOK`, `EveryTargetListed` and the three liveness properties |

Bounds. `Checks` is which checks may be in progress at once: two of one target
give every order of their answers, notices and moves. Only one target is checked, so that
the shift of the array by which one target's removal hides another from a search does
not occur in the run; the theorem `NeverUnlisted` covers it, for any number of targets. `MaxEntries = 1` counts
"none" and "one or more" in each list, and a removal from "one or more" may leave
either: an over-approximation, sound for the properties that hold. `DisableAutoFallback` and a lone
upstream make the filter trivial and are excluded from `DeadUpstreamIsLeft` by its
premise (`~Unfiltered`).

Fairness: strong for the 300 s ticker of every target (it ticks for ever; the
bound on the checks in progress may disable it again and again, which is an
artefact of the bound), weak for the steps of a check (its HTTP client has a
time-out) and of a request. The upstream, the edits and the 30 s ticker need not
act. The liveness properties assume that the upstream and its monitoring are
stable from some point on, as any such promise must.

### Observations without a run

- Two checks of one upstream overlap; one succeeded, one failed. They may notify
  the load balancer in one order and change the lists in the other: the upstream
  is offline for requests and in the online list for the monitor, which checks it
  again after 300 s, not after the 30 s `typedef.go:49` promises for an offline
  target.

- Overlapping checks list a target twice; a later move removes one of the
  entries, so it is in both lists and checked by both tickers until the next
  `SetTargets`.
- The first failure of a target without records is not notified
  (`uptime.go:362`), and edits clear records.
- A 5xx answer is offline for the lists and online for the load balancer
  (`uptime.go:380`).
- Nothing resets the load balancer's entry when the monitoring of an offline
  upstream ends: it is never used again, though it recover (`AbandonedStaysOut`).
- Targets are identified by position (`wrappers.go:186`), so a removal attributes
  the state of one upstream to another.

## 5. Events and plugins

### Model

`RWMutex` is Go's lock: a writer that arrives shuts the door (`Announce`), waits
until every read lock is given back (`Holds`), and lets in whoever came meanwhile
(`Unlock`). A goroutine that already reads and locks again is shut out too.

`EventSystem` has the two maps and, for each goroutine, where it is. `Emit` is
`OuterRLock`, `ReadSubscribers`, then `emitTo`: `EmitToRLock`, one `Dispatch` or
`DispatchMissing` per listener, `EmitToReturns`. `EmitToSubscribersAnd` begins with
an `emitTo` of its own, without the outer lock. The listeners that were not found
are unregistered one by one by another goroutine (`Cleanup`, then `Unregister` in
its name). Notifying a plugin is an HTTP request by one more goroutine, which
changes nothing here: `delivered` is whom the last `emitTo` notified.

`EventBus` is the promise. `Subscribe` and `Unsubscribe` are one step. An emission is
`Ask`, which fixes its event and the recipients it names, then `DeliverNamed` if it
names any, to all of them that are known and to nobody else, and `DeliverAll`, to all
the subscribers of the event and to nobody else. `Bus` in `EventSystem` is the
refinement: the two maps as they are, the event and the recipients of an emission in
progress, and `delivered`.

`PluginLifecycle` EXTENDS `EventSystem`: a thread of the event system, `Admin`, runs
the plugin manager. `StartPlugin` is `GenerateAPIKey`, `Spawn`, `StartUIHandler`,
`SetEnabled`, a registration per event (`SubscribeNext`) and `StartRouters`;
`StopPlugin` is `RequestTerm`, `Signal`, `Kill`, `UnsetEnabled`, `RevokeAPIKeys`,
`Unsubscribe`. What calls them is `op`: the start of the manager, `EnablePlugin`,
`DisablePlugin`, `RebuildPlugin`, `HotReloadPlugin` and `Close`. A process
(`<<plugin, run>>`) may die at any time, and exits when it is asked to or told; the
goroutine that waits for it writes `Enabled` on an error (`WaitError`) and rebuilds
the tree of static routes (`ExitReads`, `ExitStores`), as the requests do. The other
threads emit events meanwhile.

Abstractions: several plugins interact only through the event system and the tree;
the output of a process; ports (a process has its own); groups, the store's
updates, the hot reload ticker; building is something that may fail.

### Properties

- `ListedAreKnown`: the two maps of the event system agree.
- `BusSpec` (refinement): an event reaches exactly the recipients it names that are known
  at one moment, and then exactly its subscribers at one moment, never a mixture of a
  list before and after a change.
- `StoppedIsClean`: from the return of `StopPlugin` to the next start the process the
  manager has for the plugin does not run, no key is valid, the plugin is off, its UI
  proxy and routers are gone, and it is on no event's list.
- `OnlyEnablingForgets` (action): starting at boot, rebuilding and reloading never let go
  of a process that runs. (Enabling a plugin that has one does.)
- `DisabledStaysOff`: however a rebuild or a reload ends, an enabled plugin is one
  that the database says is on.
- `EmitReturns` (liveness), `StartedIsSubscribed`: not so; see the findings.
- `StopStopsAll`, `RunningIsEnabled`, `TreeLeadsToEnabled`: not so either, and in no run;
  see the observations.

### Runs

| Run | Instance | Shows |
|---|---|---|
| `plugins` | one plugin with a UI, a key and an event, enabled again if the administrator likes; two processes of it, one after the other or at once; a request that emits, the cleanup goroutines | types, `ListedAreKnown`, `StoppedIsClean`, `DisabledStaysOff`, `OnlyEnablingForgets` (2 208 802 states) |
| `events_bus` | two goroutines that register, unregister and emit, their cleanup goroutines; two listeners | `BusSpec` (3 896 252 states) |
| `events_emit` | two threads, one listener; with fairness | violation of `EmitReturns` |
| `plugins_cleanup` | as `plugins` | violation of `StartedIsSubscribed` |

Bounds. `MaxRuns = 2`: a process and its successor, with a crash, a rebuild, a reload or
a second enabling in between; nothing is assumed about when plugins start and exit, so
that the exit of the first may be reported when the second runs. The theorems of
section 8 are for any `MaxRuns`. Two listeners are the least with which a dispatch could
mix an old and a new list: one registers and one unregisters while the loop is between
them. The bound in `CallEmitTo` is one cleanup goroutine per emitter.
`CHECK_DEADLOCK FALSE`, because the manager may be closed and the event system come to a
standstill.

Fairness in `events_emit`: every goroutine that can run, runs (`FairEventSpec`).
Nobody has to call.

### Findings

- `events_emit`. `Emit` holds the read lock when `emitTo` takes it again
  (`event_system.go:151`). A registration in between waits for the first and shuts
  out the second: the request that emitted the event hangs, and so does every later
  `Emit`, `Register` and `Unregister`.
- `plugins_cleanup`. An `EmitToSubscribersAnd` that names a plugin finds it missing
  and starts a goroutine to unregister it (`event_system.go:174`); the plugin starts
  and registers, and then the goroutine runs.

### Observations without a run

- Enabling a plugin that is enabled already (`handler.go:221`, `plugins.go:194`) starts a
  second process and overwrites the first, which `StopPlugin` ("garanteed that the plugin
  is stopped", `lifecycle.go:240`) then does not stop: TLC finds `StopStopsAll` violated
  in the instance of `plugins`.
- The goroutine that waits for a process writes `Enabled` without looking which process
  the plugin has by then (`lifecycle.go:138`): the exit of an earlier one disables a
  plugin that was started again, and it runs on. TLC finds `RunningIsEnabled` violated.
- A process that dies before `StartPlugin` has set `Enabled` (`lifecycle.go:138`,
  `:154`) leaves the plugin enabled for good; and one that exits without an error
  leaves it enabled too.
- Two builders of the tree of static routes (`static_forwarder.go:24`) may store an
  old tree over a new one: a plugin that died keeps its paths until the next update, and
  requests for them get an error. A rebuild whose build fails and a reload store none at
  all. TLC finds `TreeLeadsToEnabled` ("Ignore disabled plugins", `:59`) violated.
  `StoppedIsClean` is about a plugin's own routers, not about the tree.
- A start that fails at `cmd.Start` leaves its API key valid (`lifecycle.go:60`).
- `AssignedPort` is set only with a `UIPath` (`lifecycle.go:208`); the static and
  dynamic routes of a plugin without one go to port 0.
- Disabling a plugin that was never started dereferences its nil process
  (`lifecycle.go:279`); `net/http` recovers the panic, and the database still says
  that it is on.
- `HotReloadPlugin` ends with a plugin that is loaded and not started.

## 6. UDP sessions

### Model

One rule, started and stopped `Listeners` times. Each generation has the loop of
`ForwardUDP` (`ReadFromUDP`, `Load`, `CreateConn`, `Store`, `GoRelay`, `Forward`) and
the goroutine that waits for the stop (`Stop`, one `CloseOne` per session,
`CloseListener`). They share `sessions`, the rule's `udpClientMap`. Each socket to
the server has `RunUDPConnectionRelay`: `Answer`, `WriteToClient`, `ReadFails` (the
socket was closed, failed, or nobody spoke until the deadline) and the deferred
`CloseConn` and `CompareAndDelete`, the fix of issue #1207. The map's `Range` visits
the clients in any order, and one that appears meanwhile or not.

Abstractions: what is in a packet, the PROXY header, counters of bytes, the
deadline itself: a read may fail whenever it waits.

### Properties

- `NoLeak`: an open socket has a relay that will close it, or is being set up.
- `NoDeadEntry`: no client's entry is a session that has ended.
- `OneSession`: a client's open socket is the one in the map.
- `Drains` (liveness): after the last stop every socket is closed and the map empty.
- `TableSpec`, stated in the module and proved, not a property of the run: the map and
  the sockets implement `SessionTable`, which knows no loops, relays or stop handlers.
  There a session is entered for a client that has none, on a socket that nobody has, is
  never replaced, and is forgotten only after its socket is closed; a socket is opened
  once. `OneSession` is about states; `TableSpec` also says that no step takes a client
  from one open socket to another. It is false without `Settled` (TLC; see below).

### Run

`udp_sessions`: two clients, three sockets, two generations, each starting after the
last one's loop has ended; with fairness (427 207 states). Two clients are the least
with which one's session is closed while another's is made; three sockets give a
client whose session ended a second one while the other has its own. A socket is
used once. `CHECK_DEADLOCK FALSE`: with all sockets used, or stopped, the model rests.

Fairness (`FairSpec`): goroutines run; a read of a closed socket fails, and a read
times out once no loop is left that moves the deadline. Servers need not answer and
nobody has to stop the rule, so `Drains` has as premise that the loops have ended.

### Observations without a run

- A first packet between `CloseAllUDPConnections` and `lisener.Close()`
  (`udpprox.go:171`, `:174`) makes a session that nobody closes. It ends when an
  answer finds the listener closed, or when it is idle. If the rule is started again
  first, the next listener finds it in the map and keeps it alive: the client's
  packets go to the *old* target, and the answers are lost, since the relay writes to
  the old listener; the first answer ends it.
- Without `Settled` two loops can make sessions for one client (`OneSession` fails):
  the second overwrites the first in the map, and compare-and-delete leaves it there.
  `TableSpec` is violated by that step, the replacement of a session in use.

## 7. Hosts: the endpoint table

### Model

`table` is `ProxyEndpoints`, `heap` the objects, `files` the configuration files,
`req` the requests in progress. A request arrives (`AddEndpoint`, `EditEndpoint`,
`SetHostname`, `DeleteEndpoint`, `Toggle`, `EditInPlace`, `UpstreamAdd`,
`UpstreamUpdate`, `UpstreamDelete`, `VdirAdd`, `VdirEdit`, `VdirDelete`), which changes
an object where it is or makes a changed copy, and then goes through the shared
steps: `Unlist`, `Unfile`, `Readd`, `Attach`, `Append`, `Prepare`, `Remove`,
`AddToRuntime`, and the save. `SaveOpen` marshals the object and truncates the file,
which is `Torn` until `SaveWrite`. `Restart` may come at any step: the process ends,
and the table is made from the files that can be parsed, prepared and listed (`Loads`).

Each step has its error, with what the code does then. `PrepareProxyRoute` refuses a
directory whose target cannot be parsed (`Unparsable`): a copy is then given up before it
is listed (`Make`), a directory that was added stays in the listed object without a
proxy (`PrepareFails`). `AddUpstreamOrigin` refuses an upstream that is there or cannot
be started (`AttachRefused`), when the old one has been removed already.
`AddProxyRouteToRuntime` refuses an endpoint with no upstream ready, and the handlers
ignore that and save it (`AddRefused`). A file may fail to be removed (`UnfileFails`),
opened or written (`SaveFails`), which some handlers report and some ignore; either way
they end there. Two history variables record the damage: `unsaved`, the hosts an error
has left changed and not saved or saved and not listed, until they are next saved as
they run; and, in an object, `refused`, the directories whose addition was answered with
an error.

An object holds what is saved of it (`data`) and, beside it, which of its virtual
directories have a proxy (`prepared`): `CopyEndpoint` and `Clone` go through JSON, so a
copy has none until `PrepareProxyRoute` has seen it. An object to which neither the
table nor a request points is gone (`Collect`).

Abstractions: options, tags, aliases and TLS settings are one value `conf`; the
upstreams are a set of addresses (weights and order are left out, active and
inactive are not told apart); host names are in lower case. The three handlers that
save a changed clone *before* they prepare and list it (`HandleHostOverwrite` and its
like) are left out.

### Properties

- `NamesMatch`: the object listed under a name has that name.
- `Durable`: while no request is about a host, its object is what a restart would bring
  back, and a host that is not listed has no file that loads, but for the hosts in
  `unsaved`.
- `VdirsServed`: while no request is about a host, each of its virtual directories has
  its proxy, but for the `refused` ones. Proved; in no run.
- `StoreSpec`: the table implements `HostStore`, which knows no objects, copies or
  half-written files. There a host has a configuration that runs (`config`) and one that
  a restart brings back (`saved`). A request changes its own hosts only, saves nothing
  but what runs and only under one name, and returns when its hosts are saved as they
  run or an error has struck them; an error costs no other host anything, and is made
  good by the next save; a restart at any step brings back what is saved. The
  refinement mapping is `Running`, `OnDisk` (a file that does not load is none) and
  `HostsOf`.
  `Durable` is about single states of a host and its file; `StoreSpec` is about every
  step, that of another request and the restart included. It also says that a host in
  the middle of a renaming never has a readable file under both names (`RenamedOnce`,
  which is proved as well): it is renamed to a name that is free, a name that is free is
  not saved, and a save is of the only saved name.
- `RunsAsSaved`, `ListedArePrepared`, `SavedAreListed`: what comments promise without any
  exception for errors. Not so, and in no run; see the observations.

### Run

`endpoints`: two requests at a time about different hosts (`Exclusive`), two hosts, two
settings, two upstreams and one virtual directory, three objects; an upstream and the
directory cannot be parsed, saves and removals may fail; a restart at any step (692 261
states, up to the symmetry of objects, callers, hosts and settings). It checks `TypeOK`,
`NamesMatch`, `Durable` and `StoreSpec`. Two hosts make a renaming meet its new name; two
requests over two hosts show that they do not disturb each other; three objects are two
listed ones and the copy of one. `NamesMatch` and `VdirsServed` are proved without
`Exclusive`; `Durable` and `StoreSpec` are false without it (see below). A directory that
can be parsed beside one that cannot makes the run too long, which is why `VdirsServed`
is left to the proof. `CHECK_DEADLOCK FALSE` because objects may run out.

### Observations without a run

- Two requests about one host end with a file that differs from what runs
  (`Durable` with `Exclusive = FALSE`): both copied the same object, and the one that
  lists its copy last need not be the one that saves last.
- A virtual directory is appended to the object that is serving
  (`endpoints.go:177`) before it has a proxy; and if preparing it fails, it stays
  there without one (`:181`), although `router.go:76` has `PrepareProxyRoute` called
  before an endpoint is listed. With one request at a time TLC finds `ListedArePrepared`
  violated. The next save of that host writes a file that does not load.
- Between `Remove` and `AddProxyRouteToRuntime` (`endpoints.go:190`,
  `reverseproxy.go:859`) the host is not in the table: requests in that moment get
  the default site.
- The errors of `AddProxyRouteToRuntime` and of many saves are ignored
  (`reverseproxy.go:600`, `:861`, `:864`; `config.go:91`). A host whose upstream cannot be
  started is saved and not listed, and logged as loaded at the next start: TLC finds
  `SavedAreListed` violated.
- `ReverseProxyUpstreamUpdate` removes the upstream and then fails if the new address is
  taken (`upstreams.go:187`): the running host has lost it, its file has not. TLC finds
  `RunsAsSaved` violated, without any file that fails. `unsaved` holds such hosts until
  they are saved again.
- Killed in the middle of a renaming the program has lost the host
  (`reverseproxy.go:1096` to `:1106`): the old file is gone and the new one not written.
- The key in the table is in lower case, the file's name is not: `A.com` and `a.com`
  are one host with two files.

## 8. Proofs

The seven `*Proofs` modules are checked by `tlapm`. They use the named assumptions of the
modules on their constants (non-empty sets, `None` different from everything it stands beside, kinds of channels distinct)
and nothing else; no bound is finite in them.

| Theorem | States | For |
|---|---|---|
| `RouterLifecycleProofs!TypeCorrect` | `[]TypeOK` | any callers, operations, addresses |
| `SerialSafety` | `[](RunningHasServer /\ MainOwned /\ ListenersOwned /\ SettingsApplied)` | one caller (`Serial`); any addresses, left-over goroutines, failures of port 80 |
| `RedirectorReached` | `[]RedirectOwned` | the same |
| `LoneUpdateHeard` | `[]HeldSendIsHeard` | the same |
| `ListenersAsConfigured` | `[]ListensAsRead` | the same: edits and failed saves included |
| `StopsCleanly` | `[](SendsAreHeard /\ StopLeavesNothing)` | the same as `SerialSafety`, with `Settled` and without failures of port 80 |
| `UpdatersNeverBlock` | `[]HeldSendIsHeard` | any number of concurrent callers, none of whom stops the router (`NoStops`) |
| `MutexIsReleased` | `[]MutexInv`: the mutex is held exactly while its one holder scans the maps | any number of concurrent callers, all operations |
| `RequestsWindDown` | each step of a request brings it nearer to its return, and no step of another takes it further away | the same |
| `StreamProxyProofs!TypeCorrect` | `[]TypeOK` | any rules, callers, channels, failures |
| `ServeCorrect` | `[](ListenersOwned /\ StoppedServesNobody /\ TcpFieldIsCurrent)` | one request at a time (`OneCaller`); any rules, channels, failures, crashes |
| `ListedRulesHaveFiles` | `[]ListedHaveFiles` | one request at a time (`OneCaller`); the same, and any saves that fail |
| `SoundStopHeard` | `[]SoundStopIsHeard` | `OneCaller` and `Settled`; the same |
| `UpstreamHealthProofs!TypeCorrect` | `[]TypeOK` | any upstreams, checks, options |
| `NeverUnlisted` | `[]EveryTargetListed` | any number of overlapping checks and edits |
| `DeadStaysLeft` | once the failure of an upstream is known it gets no request while it is down | any overlap of checks, edits and requests; `~Unfiltered` |
| `LiveStaysOffered` | once an upstream is known to answer it is offered while it does | the same, filtered or not |
| `FailureStaysWatched` | an upstream in the offline list stays there while it does not recover and is monitored | the same |
| `AbandonedStaysOut` | an upstream that is marked offline, and that nothing monitors or is still checking, gets no request until it is monitored again | the same; `~Unfiltered` |
| `EventMapsAgree` | `[](EventTypeOK /\ ListedAreKnown)` | any goroutines, listeners, events |
| `ImplementsBus` | `EventSpec => BusSpec`: the refinement | the same |
| `DisabledIsOff` | `[]DisabledStaysOff` | any plugins, processes and events |
| `UsesEventSystem` | `Spec => EventSpec`: the composition uses the event system as any caller | the same |
| `ComposedBus` | `BusSpec /\ []ListedAreKnown` of the composition | the same |
| `TypesKept` | `[]TypeOK` of the composition | the same |
| `RebuildsLoseNothing` | `OnlyEnablingForgets` | the same |
| `StopIsClean` | `[]StoppedIsClean` | the same |
| `UDPSessionsProofs!TypeCorrect` | `[]TypeOK` | any clients, sockets, listeners |
| `SessionsAreReleased` | `[](NoLeak /\ NoDeadEntry)` | the same |
| `OneSessionPerClient` | `[]OneSession` | the same, and `Settled` |
| `ImplementsTable` | `Spec => TableSpec`: the refinement | the same, with `Settled` |
| `NamesAgree` | `[](TypeOK /\ NamesMatch)` | any hosts, requests and errors, overlapping or not |
| `DirectoriesServed` | `[]VdirsServed` | the same |
| `FilesAgree` | `[](Durable /\ RenamedOnce)` | requests in progress are about different hosts (`Exclusive`); any errors |
| `ImplementsStore` | `Spec => StoreSpec`: the refinement | the same |

**Serial.** The four properties are not inductive. `ServerInv` adds where the
server exists (from `Serve` to the end of Start) and that a Stop's shutdown is
the one of `router.server`, so that clearing the field does not lose a server.
`ListenerInv` adds that `StopProxyService` forgets the maps only after it has told
every listener in them. `SettingsInv` adds that a server in the wrong mode is one
that a Restart in progress is about to stop, and that `restarting` is set only
by the caller itself, so its Restart is never refused. `SerialInv` is the
conjunction; each part is preserved by a lemma with one step per action.
`Serial` is needed: with two callers the observations above violate
`ListenersOwned` and `SettingsApplied`.

**One caller, further.** `LoneInv` adds to `SerialInv` where stop channels are
known. `RedirectInv`: the redirector that waits is the one in `tlsRedirectStop` or the
one the Start is about to store there, and no other is known to anybody
(`KnownInv`); one that failed is still known when it clears the field, so that it
clears its own and not that of the next instance, and no other waits then
(`FailedInv`). A Stop that was sending to it hangs, which is what keeps the next
Start away: `RedirectOwned` holds *because* of the hang that `SendsAreHeard` excludes.
`HeldInv`: until a Stop has read the maps, every entry has a receiver.

`ListenersAsConfigured` adds `MapsInv`, the maps are filled only while there is a
server, and `PortsInv`, the addresses that listen and those still to do
(`todo`, and the one between the check and the store) are together what was last read
(`known`). It says nothing of what the hosts ask for by then (`ListenersMatchPorts`),
which an edit or a failed save leaves behind.

`StopsCleanly` adds `HeardInv`: at a Start nothing of the last instance is closing,
so there is one redirector and one ticker, every socket belongs to a channel that
waits or is closing, and what a field holds has a receiver until the Stop has sent
to it. It is here that both assumptions are used: `Settled` for the ticker, which
clears `rateLimterStop` after it was told, and for the sockets of the last instance;
the port that can be bound for the redirector. TLC finds both properties violated
with one caller when either assumption is dropped.

**NoStops.** `UpdaterInv`: a map entry always has a receiver, since only the
holder of the mutex tells a secondary listener to stop and no Stop is sending.
It is stated over all callers at once, so nothing depends on how many there are.
The violation `router_stop_update` shows that the assumption is needed.

**Winding down.** `RequestReturns` says that a request comes to its end, which needs
fairness. Two of the three reasons for it do not. One is that what a step waits for
can happen: `HeldSendIsHeard` and `SendsAreHeard` for the sends, and `MutexInv` for the
mutex. The other is that there are no cycles, which is `RequestsWindDown`: `Rank`
numbers the places of a function from its entry to its return, and within the two
loops a request has one address less to listen on (`todo`) or one listener less to
tell to stop (`Unwanted`). A step of the request itself is `Nearer`; any other step is
`NoFurther`: it does not fill the maps that an `UpdateSecondaryListeners` is emptying,
because that holds the mutex (`MutexInv`), nor add to what `wg.Wait()` waits for. This
is so for any callers and operations, also for those with which a send is not heard.
The third reason, that what can happen does, is fairness, and stays with TLC. So does
the conclusion from the three: it is an induction over the measure. `Local` is what
the step of one caller leaves alone; there is one step of the proof per action.

**OneCaller.** `ControlInv` says that at most one process is active, `NewStreamProxy`
included, and that nothing returns into the middle of a Start or a Stop.
`ServeInv` relates the fields to the listeners: a listener that is to come, that
failed or that can be stopped is the one in its field, one that is closing or
whose failure is being saved is not, a Start finds the fields it still has to
set empty, and a Stop has read its channel from the field it will clear. The two
steps that need it are `Failed`, which may clear only its own field, and
`StopSend`, which clears a field that must still hold what it sent to.
`FileInv` says who is about to make a file that a listed rule does not have (the
request that adds the rule, unless the rule is about to go) and to fill one that is
empty; the listeners that fail and save meanwhile only ever add files, and a save that
goes wrong leaves a file that is `Torn`.
`SoundInv` adds, for the rules whose ports are free, that no listener is closing
while one is to come, so that its port is not occupied (`SoundListens`), and that
a Stop's second reading of the field gives what the first gave. Both assumptions
are needed: TLC finds `ListenersOwned` violated with two callers, and
`SoundStopIsHeard` with two channels and no `Settled`.

**Lists.** `TypeInv` adds to `TypeOK` that a pending store names an upstream.
`EveryTargetListed` is then inductive by itself: a move appends in the same step
in which it removes (`ListsKept`). It would not be if the move were split, or if
the target were appended only when it was found.

**Health.** The three liveness properties have the form `<>[]P => <>[]Q`: something is
reached, and then it stays. That it stays is proved: for `DeadUpstreamIsLeft`, `KnownDead`
(the map says offline, no request has an older view of it or is about to store `TRUE`,
and no check is about to notify an older answer) is kept by every step while the
upstream is down, and implies that it is not picked; `KnownLive` and `Watched` are the
same for the other two. `CheckStores` and `RequestsAvoid` say what a check may store and
a request may pick. That `KnownDead`, `KnownLive` and `Watched` are reached is
what the run `health_serve` still shows: it needs the tickers to tick.
`~Unfiltered` is needed: a lone upstream, or one without fallback, is picked unseen.
The same argument proves `AbandonedStaysOut`, the other side of `onlineStatus.go:32`:
without monitoring no check is left to store `TRUE`, so the upstream stays out.

**Events.** `EventInv` says which goroutine has how many read locks at each of its
steps (`LockInv`), so that a writer that holds the lock is alone (`Alone`), and what
an emission has looked up so far (`LoopInv`): while it holds the lock of `Emit`,
what it has notified and what it has still to look up are the event's
subscriptions *now*; while it tells those it names, what it has notified is known now
and what it has missed is not. Every step then changes nothing the bus sees, except
`Register`, `Unregister`, the call, and `EmitToReturns`, which are `Subscribe`,
`Unsubscribe`, `Ask`, and `DeliverNamed` or `DeliverAll`. The nested read lock, which lets the system
come to a standstill, is also what makes an emission indivisible.

**Plugins.** `TypesKept` needs no more than the request's own types (`IInv` below): that
a step for a plugin is one for a plugin there is. For `DisabledStaysOff`, `IInv` adds that what is started or still to be
started is on in the database (`OnlyStored`), and that `DisablePlugin` writes "off"
only when the plugin is not enabled any more (`OffBeforeStored`). `UsesEventSystem`
then gives what `EventSystemProofs` shows of all callers to this one: each step of the
manager is a call of the event system or leaves it alone. The theorems about processes rest
on `ProcessInv`: processes are numbered, so that a new one is none that was waited for
before (`Numbered`); between `Kill` and the end of a stop the process the manager has does
not live, and a rebuild or reload starts only after that (`AfterStop`); what is started at
boot has no process yet (`AtBoot`). A late `WaitError` can only disable a plugin, which
a stop does not mind. `Calls` says that only a start registers the plugin, so that after
`Unsubscribe` it stays on no list whatever the emitters and their cleanup goroutines do.
Nothing is assumed about when plugins start and exit: a plugin that was enabled twice has
a process that no stop knows of, which is what `StoppedIsClean` leaves to the observation
about `StopStopsAll`.

**Sessions.** `IInv` adds to the two safety properties that a session which is being
made belongs to the loop that makes it (`Making`), that a relay ends only by
closing its socket (`Relaying`), and that listeners follow one another (`InTurn`).
`OneSession` needs more: between its `Load` and its `Store` nobody else may make a
session for the client (`OwnEntry`), which is true when only one loop runs.
`ImplementsTable` is `OwnEntry` taken step by step: a `Store` finds the client without a
session and is `Enter`, with a socket that is open (`DialedOpen`) and in nobody's entry
(`NotListedYet`); closing is `Close`, whoever does it, and a second closing changes
nothing; compare-and-delete finds its own entry, the socket of which is closed, or none
(`Forget`); every other step leaves the map and the sockets alone.

**Hosts.** `NamesMatch` follows from `Listed` and `Held`: the object a handler works
with has the name of the host it makes. `DirectoriesServed` adds `Ready`: an object
with a directory that has no proxy and was not refused is one that a handler is about to
prepare; it must hold of all objects, since any may be listed next. `FilesAgree` is local
reasoning: with `Exclusive` requests are about different hosts (`Apart`), a step
touches nothing of the other hosts (`Local`), and `Progress` says how far a handler
has got with its own, so that `Durable` is true again when it returns. Part of it is
`Promise`: what a handler will save can be loaded again, or its host has been struck by an
error; and the object it saves is listed, unless the table refused it. A handler that
fails leaves its host in `unsaved` (`Failing`), and only a save of what runs, in a form
that loads, takes it out.
`ImplementsStore` is the same argument taken step by step: by `Local` a step is a change
of its own request's hosts, by `Progress` the text that `SaveWrite` writes is what runs
at that moment and the other name of a renamed host has no file, and by `Own` a
handler that returns leaves its hosts saved, or struck.

So each safety property and action property of a passing run is proved, and so are the
two refinements, with the run's assumptions on the callers or weaker ones; the refinement of
`SessionTable` and `VdirsServed` are proved as well. Only model-checked are the liveness properties (`RequestReturns`, `SoundRequestReturns`,
`DeadUpstreamIsLeft`, `FailureIsWatched`, `LiveUpstreamServes`, `Drains`), which are out
of the prover's reach (for four of them the half that needs no fairness is proved, see
above), and the violations.

Every property of a passing run has a *mutant*: a second form of a definition,
marked `\* mutant` in the module, that a plausible bug would give it, and with
which the property fails.

## 9. Plan

Done: the router, the stream proxy, the monitor, the event system, the plugins, the
sessions, the hosts. What would come next, in order:

1. `RequestPipeline`, an operator over (request, settings): do the TLS path and the
   plain path apply the documented order of rules?
2. `RateLimiter` and `DailyStatistics`: counters with lost updates; an abstract
   counter as the promise, refined under atomic increments.
3. `GatewaySessions`, `AutoRenew`, `CertStore`, `OneServer`.

## 10. Not modelled

The hazards without a property in `PROJECT.json` are those of the parts of steps 2
and 3 above, and those of which the code does what it should not, or of which no source
says what ought to be: the note of each says what TLC finds, and the observations above
give the property. The TCP relay (`connCopy`) is not modelled. The parts that keep no state between requests, only display, or are I/O are named with their
reason in `PROJECT.json`.

All that is modelled is Go. The JavaScript in the repository is the web interface's:
nearly all of it is the vendored Semantic UI, jQuery and their plugins
(`src/web/script/semantic`), and the few scripts of Zoraxy's own fill in pages. None
of it holds state of the proxy, so none is modelled, and a measure of coverage that
counts JavaScript alone finds nothing here.
