--------------------------- MODULE RouterLifecycle ---------------------------
(***************************************************************************)
(* The life cycle of the dynamic proxy router (mod/dynamicproxy): the main *)
(* server, the port 80 redirector, the secondary listeners and the ticker  *)
(* that resets the rate limit counters.  Management requests call          *)
(* StartProxyService, StopProxyService, Restart and                        *)
(* UpdateSecondaryListeners on goroutines of their own, and these start    *)
(* and stop further goroutines through unbuffered "stop" channels.         *)
(*                                                                         *)
(* Grain: one action per access of a goroutine to the router's shared      *)
(* fields, or per channel or lock operation.  Assignments a goroutine      *)
(* makes one after the other, with nothing that blocks between them, are   *)
(* one action.                                                             *)
(***************************************************************************)
EXTENDS Naturals, FiniteSets

CONSTANTS
    Callers,        \* goroutines that serve management requests
    Ops,            \* Ops[c]: the operations caller c may request
    Addrs,          \* addresses a secondary listener may be configured for
    Ids,            \* bound: stop channels alive at once, per kind
    Servers,        \* bound: main http.Server objects alive at once
    Port80MayFail,  \* TRUE: another process may hold port 80, or it is denied
    Settled,        \* TRUE: an instance starts after the last one's goroutines
    None            \* nil

OpNames == {"start", "stop", "restart", "tls", "port80", "ports", "edit"}

\* A stop channel has exactly one receiving goroutine: the shutdown waiter of
\* the redirector or of a secondary listener, or the rate limiter's ticker.
Kinds == {"redirect", "ticker"} \cup Addrs
Chan == Kinds \X Ids

ASSUME CallersAssumption == Callers # {} /\ Ops \in [Callers -> SUBSET OpNames]
ASSUME BoundsAssumption == Ids # {} /\ Servers # {}
ASSUME FlagsAssumption == Port80MayFail \in BOOLEAN /\ Settled \in BOOLEAN
ASSUME NoneAssumption == None \notin Chan \cup Servers \cup Addrs \cup Callers
ASSUME KindsAssumption == {"redirect", "ticker"} \cap Addrs = {}

VARIABLES
    \* the router's options, the listening ports of the enabled endpoints, and
    \* the ones the router last read (a history variable: no action tests it)
    useTls, listen80, ports, known,
    \* the fields of the router; secondary[a] stands for both maps at key a
    server, running, restarting, redirectStop, rateStop, secondary,
    secMutex,
    \* the goroutines: who still receives on its stop channel, who has been
    \* told to stop and is not done, and the sockets
    recv, closing, sock, main, tlsOf,
    \* the callers: program counter, inside Restart or not, locals, and the
    \* goroutines StopProxyService waits for
    pc, inRestart, todo, cur, made, sends, shut

options == <<useTls, listen80, ports, known>>
fields == <<server, running, restarting, redirectStop, rateStop, secondary>>
goroutines == <<recv, closing, sock, main, tlsOf>>
locals == <<inRestart, todo, cur, made, sends, shut>>
vars == <<options, fields, secMutex, goroutines, pc, locals>>

Sock == {"none", "starting", "bound", "failed", "told"}
MainState == {"off", "made", "starting", "bound", "dead"}
PC == {"idle", "restart", "restart_set", "restart_run", "sleep",
       "start", "ticker", "ticker_set", "serve", "http2", "run_tls",
       "run_plain", "assign", "launch", "sec", "sec_store",
       "upd", "upd_lock", "upd_scan",
       "stop", "stop_main", "stop_sec", "stop_rate", "stop_wait", "stop_clear"}

TypeOK ==
    /\ useTls \in BOOLEAN /\ listen80 \in BOOLEAN
    /\ ports \subseteq Addrs /\ known \subseteq Addrs
    /\ server \in Servers \cup {None}
    /\ running \in BOOLEAN /\ restarting \in BOOLEAN
    /\ redirectStop \in Chan \cup {None} /\ rateStop \in Chan \cup {None}
    /\ secondary \in [Addrs -> Chan \cup {None}]
    /\ secMutex \in Callers \cup {None}
    /\ recv \subseteq Chan /\ closing \subseteq Chan
    /\ sock \in [Chan -> Sock]
    /\ main \in [Servers -> MainState] /\ tlsOf \in [Servers -> BOOLEAN]
    /\ pc \in [Callers -> PC] /\ inRestart \in [Callers -> BOOLEAN]
    /\ todo \in [Callers -> SUBSET Addrs]
    /\ cur \in [Callers -> Addrs \cup {None}]
    /\ made \in [Callers -> Chan \cup {None}]
    /\ sends \in [Callers -> SUBSET Chan]
    /\ shut \in [Callers -> Servers \cup {None}]

\* NewDynamicProxy with the settings read at start-up.
Init ==
    /\ useTls \in BOOLEAN /\ listen80 \in BOOLEAN
    /\ ports \in SUBSET Addrs /\ known = {}
    /\ server = None /\ running = FALSE /\ restarting = FALSE
    /\ redirectStop = None /\ rateStop = None
    /\ secondary = [a \in Addrs |-> None] /\ secMutex = None
    /\ recv = {} /\ closing = {} /\ sock = [ch \in Chan |-> "none"]
    /\ main = [s \in Servers |-> "off"] /\ tlsOf = [s \in Servers |-> FALSE]
    /\ pc = [c \in Callers |-> "idle"]
    /\ inRestart = [c \in Callers |-> FALSE]
    /\ todo = [c \in Callers |-> {}] /\ cur = [c \in Callers |-> None]
    /\ made = [c \in Callers |-> None] /\ sends = [c \in Callers |-> {}]
    /\ shut = [c \in Callers |-> None]

-----------------------------------------------------------------------------
(* Helpers *)

Goto(c, from, to) == pc[c] = from /\ pc' = [pc EXCEPT ![c] = to]

\* The function c runs returns: Restart's deferred reset runs if it called it.
Return(c) ==
    /\ pc' = [pc EXCEPT ![c] = "idle"]
    /\ restarting' = IF inRestart[c] THEN FALSE ELSE restarting
    /\ inRestart' = [inRestart EXCEPT ![c] = FALSE]
Continue(c, to) ==
    pc' = [pc EXCEPT ![c] = to] /\ UNCHANGED <<restarting, inRestart>>

\* Nobody can reach channel ch any more.  A ticker nobody can reach still
\* ticks; it is forgotten when its identity is used again.
Free(ch) ==
    /\ ch \notin closing \cup {redirectStop, rateStop}
    /\ \A a \in Addrs : secondary[a] # ch
    /\ \A c \in Callers : ch \notin sends[c] /\ made[c] # ch
    /\ ch[1] # "ticker" => ch \notin recv /\ sock[ch] = "none"

FreeServer(s) == main[s] = "off" /\ server # s /\ \A c \in Callers : shut[c] # s

Told(ch) == recv' = recv \ {ch} /\ closing' = closing \cup {ch}
Spawn(ch, state) == recv' = recv \cup {ch} /\ sock' = [sock EXCEPT ![ch] = state]
Bound(kind) == \E i \in Ids : sock[<<kind, i>>] = "bound"

\* The management goroutines finished, and those they left behind too.
Idle == \A c \in Callers : pc[c] = "idle"
Quiet == closing = {} /\ \A ch \in Chan : sock[ch] # "told"

-----------------------------------------------------------------------------
(* Management requests *)

Begin(c, op, to) ==
    /\ op \in Ops[c] /\ Goto(c, "idle", to)
    /\ UNCHANGED <<fields, secMutex, goroutines, locals>>

HandleOnOff(c) ==
    /\ UNCHANGED options
    /\ Begin(c, "start", "start") \/ Begin(c, "stop", "stop")
\* Settings that restart the router only when it runs (port, PROXY protocol,
\* time-outs).
HandleRestart(c) ==
    running /\ Begin(c, "restart", "restart") /\ UNCHANGED options
UpdateTLSSetting(c) ==
    /\ Begin(c, "tls", "restart")
    /\ useTls' \in BOOLEAN /\ UNCHANGED <<listen80, ports, known>>
UpdatePort80ListenerState(c) ==
    /\ Begin(c, "port80", "restart")
    /\ listen80' \in BOOLEAN /\ UNCHANGED <<useTls, ports, known>>
\* The host is changed in place; when it cannot be saved the handler returns
\* without an update of the listeners.
HandleSetListeningPorts(c) ==
    /\ Begin(c, "ports", "upd") \/ Begin(c, "ports", "idle")
    /\ ports' \in SUBSET Addrs /\ UNCHANGED <<useTls, listen80, known>>
\* An endpoint with listening ports is added, removed, enabled or disabled.
EditEndpoint(c) ==
    /\ Begin(c, "edit", "idle")
    /\ ports' \in SUBSET Addrs /\ UNCHANGED <<useTls, listen80, known>>

Request(c) ==
    \/ HandleOnOff(c) \/ HandleRestart(c) \/ UpdateTLSSetting(c)
    \/ UpdatePort80ListenerState(c) \/ HandleSetListeningPorts(c)
    \/ EditEndpoint(c)

-----------------------------------------------------------------------------
(* Restart *)

RestartCheck(c) ==
    /\ pc[c] = "restart"
    /\ \/ restarting /\ Return(c)
       \/ ~restarting /\ Continue(c, "restart_set")
    /\ UNCHANGED <<options, server, running, redirectStop, rateStop, secondary,
                   secMutex, goroutines, todo, cur, made, sends, shut>>

RestartSet(c) ==
    /\ Goto(c, "restart_set", "restart_run")
    /\ restarting' = TRUE /\ inRestart' = [inRestart EXCEPT ![c] = TRUE]
    /\ UNCHANGED <<options, server, running, redirectStop, rateStop, secondary,
                   secMutex, goroutines, todo, cur, made, sends, shut>>

RestartTo(c, next) ==
    /\ Goto(c, "restart_run", next)
    /\ UNCHANGED <<options, fields, secMutex, goroutines, locals>>
RestartRun_NoStop(c) == RestartTo(c, "start")  \* mutant
RestartRun(c) == RestartTo(c, IF running THEN "stop" ELSE "start")

\* The 200 ms meant to let the ports be released.
Sleep(c) ==
    /\ Goto(c, "sleep", "start")
    /\ UNCHANGED <<options, fields, secMutex, goroutines, locals>>

-----------------------------------------------------------------------------
(* StartProxyService and startSecondaryListeners *)

StartCheck(c) ==
    /\ pc[c] = "start" /\ (Settled => Quiet)
    /\ \/ server # None /\ Return(c)
       \/ server = None /\ Continue(c, "ticker")
    /\ UNCHANGED <<options, server, running, redirectStop, rateStop, secondary,
                   secMutex, goroutines, todo, cur, made, sends, shut>>

TickerCheck(c) ==
    /\ pc[c] = "ticker"
    /\ \/ rateStop # None /\ Return(c)
       \/ rateStop = None /\ Continue(c, "ticker_set")
    /\ UNCHANGED <<options, server, running, redirectStop, rateStop, secondary,
                   secMutex, goroutines, todo, cur, made, sends, shut>>

TickerSet(c) ==
    /\ Goto(c, "ticker_set", "serve")
    /\ \E ch \in {"ticker"} \X Ids :
          Free(ch) /\ rateStop' = ch /\ recv' = recv \cup {ch}
    /\ UNCHANGED <<options, server, running, restarting, redirectStop,
                   secondary, secMutex, closing, sock, main, tlsOf, locals>>

\* A new http.Server; useTls picks the branch.
Serve(c) ==
    /\ Goto(c, "serve", IF useTls THEN "http2" ELSE "run_plain")
    /\ \E s \in Servers :
          /\ FreeServer(s) /\ server' = s
          /\ main' = [main EXCEPT ![s] = "made"]
          /\ tlsOf' = [tlsOf EXCEPT ![s] = useTls]
    /\ UNCHANGED <<options, running, restarting, redirectStop, rateStop,
                   secondary, secMutex, recv, closing, sock, locals>>

\* Applying the HTTP/2 options may fail; the early return leaves the new
\* server and the ticker behind.
ConfigureHTTP2(c) ==
    /\ pc[c] = "http2"
    /\ Return(c) \/ Continue(c, "run_tls")
    /\ UNCHANGED <<options, server, running, redirectStop, rateStop, secondary,
                   secMutex, goroutines, todo, cur, made, sends, shut>>

RunPlain(c) ==
    /\ Goto(c, "run_plain", "launch") /\ running' = TRUE
    /\ UNCHANGED <<options, server, restarting, redirectStop, rateStop,
                   secondary, secMutex, goroutines, locals>>

\* CheckIfPortOccupied dials port 80: our own redirector answers while its
\* socket is bound, another process's socket may.
RunTLS(c) ==
    /\ pc[c] = "run_tls" /\ running' = TRUE
    /\ \/ /\ ~listen80 \/ Bound("redirect") \/ Port80MayFail
          /\ pc' = [pc EXCEPT ![c] = "launch"]
          /\ UNCHANGED <<recv, sock, made>>
       \/ /\ listen80 /\ ~Bound("redirect")
          /\ pc' = [pc EXCEPT ![c] = "assign"]
          /\ \E ch \in {"redirect"} \X Ids :
                /\ Free(ch) /\ Spawn(ch, "starting")
                /\ made' = [made EXCEPT ![c] = ch]
    /\ UNCHANGED <<options, server, restarting, redirectStop, rateStop,
                   secondary, secMutex, closing, main, tlsOf,
                   inRestart, todo, cur, sends, shut>>

\* Start only now publishes the channel the redirector's goroutines use.
AssignRedirect(c) ==
    /\ Goto(c, "assign", "launch")
    /\ redirectStop' = made[c] /\ made' = [made EXCEPT ![c] = None]
    /\ UNCHANGED <<options, server, running, restarting, rateStop, secondary,
                   secMutex, goroutines, inRestart, todo, cur, sends, shut>>

\* go func(srv) {...}(router.server): reads the field again, and the goroutine
\* dereferences it; a nil field ends the process (NoNilLaunch is about that).
\* Then GetCommonListeningPorts gives the addresses to listen on.
LaunchFor(c, addrs) ==
    /\ Goto(c, "launch", "sec")
    /\ server # None
    /\ main' = [main EXCEPT ![server] = IF @ = "made" THEN "starting" ELSE @]
    /\ todo' = [todo EXCEPT ![c] = addrs] /\ known' = ports
    /\ UNCHANGED <<useTls, listen80, ports, fields, secMutex, recv, closing, sock, tlsOf,
                   inRestart, cur, made, sends, shut>>
Launch_NoSecondaries(c) == LaunchFor(c, {})  \* mutant
Launch(c) == LaunchFor(c, ports)

\* The check under RLock; an address already in the map is skipped.
SecCheck(c) ==
    /\ secMutex = None
    /\ \E a \in todo[c] :
          /\ todo' = [todo EXCEPT ![c] = @ \ {a}]
          /\ IF secondary[a] # None
             THEN Goto(c, "sec", "sec") /\ UNCHANGED cur
             ELSE Goto(c, "sec", "sec_store") /\ cur' = [cur EXCEPT ![c] = a]
    /\ UNCHANGED <<options, fields, secMutex, goroutines,
                   inRestart, made, sends, shut>>

SecStore(c) ==
    /\ Goto(c, "sec_store", "sec") /\ secMutex = None
    /\ \E ch \in {cur[c]} \X Ids :
          /\ Free(ch) /\ Spawn(ch, "starting")
          /\ secondary' = [secondary EXCEPT ![cur[c]] = ch]
    /\ cur' = [cur EXCEPT ![c] = None]
    /\ UNCHANGED <<options, server, running, restarting, redirectStop, rateStop,
                   secMutex, closing, main, tlsOf,
                   inRestart, todo, made, sends, shut>>

SecDone(c) ==
    /\ pc[c] = "sec" /\ todo[c] = {} /\ Return(c)
    /\ UNCHANGED <<options, server, running, redirectStop, rateStop, secondary,
                   secMutex, goroutines, todo, cur, made, sends, shut>>

-----------------------------------------------------------------------------
(* UpdateSecondaryListeners *)

UpdateCheck(c) ==
    /\ Goto(c, "upd", IF running THEN "upd_lock" ELSE "idle")
    /\ todo' = IF running THEN [todo EXCEPT ![c] = ports] ELSE todo
    /\ UNCHANGED <<options, fields, secMutex, goroutines,
                   inRestart, cur, made, sends, shut>>

UpdateLock(c) ==
    /\ Goto(c, "upd_lock", "upd_scan") /\ secMutex = None /\ secMutex' = c
    /\ UNCHANGED <<options, fields, goroutines, locals>>

\* The listener of an address that is not wanted any more is told to stop,
\* while the mutex is held: stopChan <- true blocks until its waiter receives.
UpdateStop_NoSend(c) ==  \* mutant
    /\ pc[c] = "upd_scan"
    /\ \E a \in Addrs \ todo[c] : secondary' = [secondary EXCEPT ![a] = None]
    /\ UNCHANGED <<options, server, running, restarting, redirectStop, rateStop,
                   secMutex, goroutines, pc, locals>>
UpdateStop_KeepsEntry(c) ==  \* mutant
    /\ pc[c] = "upd_scan"
    /\ \E a \in Addrs \ todo[c] : secondary[a] \in recv /\ Told(secondary[a])
    /\ UNCHANGED <<options, fields, secMutex, sock, main, tlsOf, pc, locals>>
UpdateStop(c) ==
    /\ pc[c] = "upd_scan"
    /\ \E a \in Addrs \ todo[c] :
          /\ secondary[a] \in recv
          /\ Told(secondary[a])
          /\ secondary' = [secondary EXCEPT ![a] = None]
    /\ UNCHANGED <<options, server, running, restarting, redirectStop, rateStop,
                   secMutex, sock, main, tlsOf, pc, locals>>

UpdateUnlock(c) ==
    /\ Goto(c, "upd_scan", "sec")
    /\ \A a \in Addrs \ todo[c] : secondary[a] = None
    /\ secMutex' = None /\ todo' = [todo EXCEPT ![c] = ports] /\ known' = ports
    /\ UNCHANGED <<useTls, listen80, ports, fields, goroutines,
                   inRestart, cur, made, sends, shut>>

-----------------------------------------------------------------------------
(* StopProxyService *)

NothingToStop ==
    server = None /\ redirectStop = None /\ \A a \in Addrs : secondary[a] = None
StopCheck(c) ==
    /\ pc[c] = "stop"
    /\ \/ NothingToStop /\ Return(c)
       \/ ~NothingToStop /\ Continue(c, "stop_main")
    /\ UNCHANGED <<options, server, running, redirectStop, rateStop, secondary,
                   secMutex, goroutines, todo, cur, made, sends, shut>>

\* Goroutines of the wait group: one shuts the main server down, the others
\* each send on a stop channel.
Stopper(c, srv, chans) ==
    /\ Goto(c, "stop_main", "stop_sec")
    /\ shut' = [shut EXCEPT ![c] = srv] /\ sends' = [sends EXCEPT ![c] = chans]
    /\ UNCHANGED <<options, fields, secMutex, goroutines,
                   inRestart, todo, cur, made>>
StopMain_SendsOnNil(c) == Stopper(c, server, {redirectStop})        \* mutant
StopMain_NoRedirect(c) == Stopper(c, server, {})                    \* mutant
StopMain_NoShutdown(c) == Stopper(c, None, {redirectStop} \ {None}) \* mutant
StopMain(c) == Stopper(c, server, {redirectStop} \ {None})

StopSecondaries(c) ==
    /\ Goto(c, "stop_sec", "stop_rate") /\ secMutex = None
    /\ sends' = [sends EXCEPT ![c] =
                    @ \cup ({secondary[a] : a \in Addrs} \ {None})]
    /\ UNCHANGED <<options, fields, secMutex, goroutines,
                   inRestart, todo, cur, made, shut>>

StopAlso(c, chans) ==
    /\ Goto(c, "stop_rate", "stop_wait")
    /\ sends' = [sends EXCEPT ![c] = @ \cup chans]
    /\ UNCHANGED <<options, fields, secMutex, goroutines,
                   inRestart, todo, cur, made, shut>>
StopRate_Forgotten(c) == StopAlso(c, {})  \* mutant
StopRate(c) == StopAlso(c, {rateStop} \ {None})

\* wg.Wait() returned.
StopDone(c, redirect) ==
    /\ Goto(c, "stop_wait", "stop_clear")
    /\ sends[c] = {} /\ shut[c] = None
    /\ server' = None /\ redirectStop' = redirect /\ rateStop' = None
    /\ UNCHANGED <<options, running, restarting, secondary, secMutex,
                   goroutines, locals>>
StopWaited_KeepsRedirect(c) == StopDone(c, redirectStop)  \* mutant
StopWaited(c) == StopDone(c, None)

StopEnd(c, run) ==
    /\ Goto(c, "stop_clear", IF inRestart[c] THEN "sleep" ELSE "idle")
    /\ secMutex = None
    /\ secondary' = [a \in Addrs |-> None] /\ running' = run
    /\ UNCHANGED <<options, server, restarting, redirectStop, rateStop,
                   secMutex, goroutines, locals>>
StopClear_KeepsRunning(c) == StopEnd(c, running)  \* mutant
StopClear(c) == StopEnd(c, FALSE)

\* A sender of the wait group meets its receiver.
Deliver(c) ==
    /\ \E ch \in sends[c] \cap recv :
          Told(ch) /\ sends' = [sends EXCEPT ![c] = @ \ {ch}]
    /\ UNCHANGED <<options, fields, secMutex, sock, main, tlsOf, pc,
                   inRestart, todo, cur, made, shut>>

\* srv.Shutdown, with srv.Close after 10 seconds: it always ends.
MainShutdown(c) ==
    /\ shut[c] # None
    /\ main' = [main EXCEPT ![shut[c]] = "off"]
    /\ shut' = [shut EXCEPT ![c] = None]
    /\ UNCHANGED <<options, fields, secMutex, recv, closing, sock, tlsOf, pc,
                   inRestart, todo, cur, made, sends>>

-----------------------------------------------------------------------------
(* The goroutines of the listeners and of the ticker *)

\* The main server binds the port, unless another socket has it.
MainListen(s) ==
    /\ main[s] = "starting"
    /\ \E state \in {"dead", "bound"} :
          /\ state = "bound" => \A t \in Servers : main[t] # "bound"
          /\ main' = [main EXCEPT ![s] = state]
    /\ UNCHANGED <<options, fields, secMutex, recv, closing, sock, tlsOf,
                   pc, locals>>

\* ListenAndServe of a redirector or secondary listener.  A secondary listener
\* whose address cannot be bound only logs it.
Listen(ch) ==
    /\ sock[ch] = "starting"
    /\ \E state \in {"bound", IF ch[1] = "redirect" THEN "failed" ELSE "none"} :
          /\ state = "bound" => ~Bound(ch[1])
          /\ state = "failed" => Port80MayFail \/ Bound(ch[1])
          /\ sock' = [sock EXCEPT ![ch] = state]
    /\ UNCHANGED <<options, fields, secMutex, recv, closing, main, tlsOf,
                   pc, locals>>

\* The redirector's listening goroutine failed: it tells the waiter itself...
RedirectFailSend(ch) ==
    /\ sock[ch] = "failed" /\ ch \in recv
    /\ Told(ch) /\ sock' = [sock EXCEPT ![ch] = "told"]
    /\ UNCHANGED <<options, fields, secMutex, main, tlsOf, pc, locals>>

\* ... and resets the option and the stop channel.
RedirectFailReset(ch) ==
    /\ sock[ch] = "told"
    /\ sock' = [sock EXCEPT ![ch] = "none"]
    /\ listen80' = FALSE /\ redirectStop' = None
    /\ UNCHANGED <<useTls, ports, known, server, running, restarting, rateStop,
                   secondary, secMutex, recv, closing, main, tlsOf, pc, locals>>

\* A waiter that was told shuts its server down; one that was not yet
\* listening will not start.
WaiterShutdown(ch) ==
    /\ ch \in closing /\ ch[1] # "ticker"
    /\ closing' = closing \ {ch}
    /\ sock' = [sock EXCEPT ![ch] =
                   IF @ \in {"starting", "bound"} THEN "none" ELSE @]
    /\ UNCHANGED <<options, fields, secMutex, recv, main, tlsOf, pc, locals>>

\* The ticker's goroutine, told to stop, resets the router's field and returns.
TickerStop(ch) ==
    /\ ch \in closing /\ ch[1] = "ticker"
    /\ closing' = closing \ {ch} /\ rateStop' = None
    /\ UNCHANGED <<options, server, running, restarting, redirectStop,
                   secondary, secMutex, recv, sock, main, tlsOf, pc, locals>>

-----------------------------------------------------------------------------

Restart(c) == RestartCheck(c) \/ RestartSet(c) \/ RestartRun(c) \/ Sleep(c)
StartProxyService(c) ==
    \/ StartCheck(c) \/ TickerCheck(c) \/ TickerSet(c) \/ Serve(c)
    \/ ConfigureHTTP2(c) \/ RunPlain(c) \/ RunTLS(c) \/ AssignRedirect(c)
    \/ Launch(c) \/ SecCheck(c) \/ SecStore(c) \/ SecDone(c)
UpdateSecondaryListeners(c) ==
    UpdateCheck(c) \/ UpdateLock(c) \/ UpdateStop(c) \/ UpdateUnlock(c)
StopProxyService(c) ==
    \/ StopCheck(c) \/ StopMain(c) \/ StopSecondaries(c) \/ StopRate(c)
    \/ StopWaited(c) \/ StopClear(c)

\* The steps of the goroutine that serves a request.
CallerStep(c) ==
    \/ Restart(c) \/ StartProxyService(c) \/ UpdateSecondaryListeners(c)
    \/ StopProxyService(c)
\* Of these, the ones that take the mutex.  Go's RWMutex queues its waiters, so
\* that nobody waits for ever for a mutex that is released again and again.
LockStep(c) ==
    \/ SecCheck(c) \/ SecStore(c) \/ UpdateLock(c)
    \/ StopSecondaries(c) \/ StopClear(c)
ChanStep(ch) ==
    \/ Listen(ch) \/ RedirectFailSend(ch) \/ RedirectFailReset(ch)
    \/ WaiterShutdown(ch) \/ TickerStop(ch)

Next ==
    \/ \E c \in Callers : \/ Request(c) \/ CallerStep(c)
                          \/ Deliver(c) \/ MainShutdown(c)
    \/ \E s \in Servers : MainListen(s)
    \/ \E ch \in Chan : ChanStep(ch)

Spec == Init /\ [][Next]_vars

\* Goroutines are scheduled and rendezvous are met; nobody has to send a
\* request.
Fairness ==
    /\ \A c \in Callers : /\ WF_vars(CallerStep(c)) /\ SF_vars(LockStep(c))
                          /\ WF_vars(Deliver(c)) /\ WF_vars(MainShutdown(c))
    /\ \A s \in Servers : WF_vars(MainListen(s))
    /\ \A ch \in Chan : WF_vars(ChanStep(ch))

FairSpec == Spec /\ Fairness

-----------------------------------------------------------------------------
(* Properties *)

\* Every secondary listener that still waits for its stop signal is the one the
\* maps hold for its address: none can become unreachable and keep its port
\* until the process ends, whatever Stop, Restart and UpdateSecondaryListeners
\* do to the maps.
ListenersOwned ==
    \A a \in Addrs, i \in Ids : <<a, i>> \in recv => secondary[a] = <<a, i>>

\* Every main server that has or may get the port can still be shut down: it is
\* router.server, or a Stop has taken it over.
MainOwned ==
    \A s \in Servers : main[s] \in {"starting", "bound"}
        => server = s \/ \E c \in Callers : shut[c] = s

\* Every redirector that waits for its stop signal can be given it: through
\* tlsRedirectStop, or by the Start that has yet to publish its channel.
RedirectOwned ==
    \A i \in Ids : <<"redirect", i>> \in recv
        => \/ redirectStop = <<"redirect", i>>
           \/ \E c \in Callers : made[c] = <<"redirect", i>>

\* Whatever StopProxyService sends to still has a receiver, so that wg.Wait()
\* cannot hang: the channels it took from the router's fields are never those
\* of goroutines that have already been told to stop.
SendsAreHeard == \A c \in Callers : sends[c] \subseteq recv

\* What UpdateSecondaryListeners sends to while it holds the mutex has a
\* receiver: otherwise every later use of the secondary listeners, Stop's
\* included, waits for the mutex for ever.
HeldSendIsHeard ==
    \A c \in Callers : pc[c] = "upd_scan"
        => \A a \in Addrs \ todo[c] : secondary[a] \in recv \cup {None}

\* The goroutine that launches the main server never finds router.server nil,
\* as the comment on the fix of issue #1206 has it ("to prevent nil pointer
\* exception").  The code does not keep this: the field is read a second time to
\* start the goroutine, and a stop by another caller may have come between.
NoNilLaunch == \A c \in Callers : pc[c] = "launch" => server # None

\* A router that says it is running has a server; only the last statements of
\* StopProxyService come between.
RunningHasServer ==
    running /\ server = None => \E c \in Callers : pc[c] = "stop_clear"

\* Once no request is in progress, a running server uses the TLS setting last
\* chosen: UpdateTLSSetting restarts it, and no request leaves it behind.
SettingsApplied == Idle /\ running => tlsOf[server] = useTls

\* Once no request is in progress, a running router has a secondary listener
\* for exactly the addresses it last read from the enabled endpoints, through
\* restarts that find listeners in the maps, changes that fail to be saved and
\* edits of endpoints.
Listening == {a \in Addrs : secondary[a] # None}
ListensAsRead == Idle /\ running => Listening = known

\* ... and these are the addresses the endpoints have now: the comment on
\* UpdateSecondaryListeners says that it is called when endpoints are added or
\* removed as well.  The code does not keep this: only HandleSetListeningPorts
\* calls it.
ListenersMatchPorts == Idle /\ running => Listening = ports

\* A stopped router leaves nothing behind: once its goroutines have finished,
\* no socket is open and no goroutine waits on a stop channel or ticks.
StopLeavesNothing ==
    Idle /\ server = None /\ Quiet
        => recv = {} /\ \A ch \in Chan : sock[ch] = "none"

\* Every request is answered: no caller of StopProxyService, Restart or
\* UpdateSecondaryListeners waits for ever on a channel or on the mutex.
RequestReturns == \A c \in Callers : pc[c] # "idle" ~> pc[c] = "idle"

=============================================================================
