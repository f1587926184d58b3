----------------------- MODULE RouterLifecycleProofs -----------------------
(***************************************************************************)
(* What RouterLifecycle promises for every number of callers, addresses    *)
(* and channels.                                                           *)
(***************************************************************************)
EXTENDS RouterLifecycle, TLAPS

LEMMA ChanKinds ==
    /\ {"redirect"} \X Ids \subseteq Chan
    /\ {"ticker"} \X Ids \subseteq Chan
    /\ \A a \in Addrs : {a} \X Ids \subseteq Chan
BY DEF Chan, Kinds

\* TypeOK is not inductive alone: a caller about to store a secondary listener
\* has chosen its address.
CurSet == \A c \in Callers : pc[c] = "sec_store" => cur[c] \in Addrs
TypeInv == TypeOK /\ CurSet

LEMMA TypeInit == Init => TypeInv
<1> SUFFICES ASSUME Init PROVE TypeInv
  OBVIOUS
<1>2. secondary \in [Addrs -> Chan \cup {None}]
  BY DEF Init
<1>3. sock \in [Chan -> Sock] /\ main \in [Servers -> MainState]
  BY DEF Init, Sock, MainState
<1>4. pc \in [Callers -> PC] /\ inRestart \in [Callers -> BOOLEAN]
  BY DEF Init, PC
<1>5. todo \in [Callers -> SUBSET Addrs] /\ sends \in [Callers -> SUBSET Chan]
  BY DEF Init
<1> QED
  BY <1>2, <1>3, <1>4, <1>5 DEF Init, TypeOK, TypeInv, CurSet

\* A step that only returns, or goes on, keeps the types.
ControlOnly ==
    UNCHANGED <<options, server, running, redirectStop, rateStop, secondary,
                secMutex, goroutines, todo, cur, made, sends, shut>>

LEMMA ReturnTypes ==
    ASSUME TypeInv, NEW c \in Callers, Return(c), ControlOnly
    PROVE  TypeInv'
<1>1. pc' \in [Callers -> PC]
  BY DEF TypeInv, TypeOK, Return, PC
<1>2. restarting' \in BOOLEAN /\ inRestart' \in [Callers -> BOOLEAN]
  BY DEF TypeInv, TypeOK, Return
<1>3. CurSet'
  BY DEF TypeInv, TypeOK, CurSet, Return, ControlOnly
<1> QED
  BY <1>1, <1>2, <1>3 DEF TypeInv, TypeOK, ControlOnly, options, goroutines

LEMMA ContinueTypes ==
    ASSUME TypeInv, NEW c \in Callers, NEW to \in PC \ {"sec_store"}, Continue(c, to), ControlOnly
    PROVE  TypeInv'
<1>1. pc' \in [Callers -> PC]
  BY DEF TypeInv, TypeOK, Continue
<1>2. CurSet'
  BY DEF TypeInv, TypeOK, CurSet, Continue, ControlOnly
<1> QED
  BY <1>1, <1>2 DEF TypeInv, TypeOK, Continue, ControlOnly, options, goroutines

LEMMA TypeNext == TypeInv /\ [Next]_vars => TypeInv'
<1> SUFFICES ASSUME TypeInv, [Next]_vars PROVE TypeInv'
  OBVIOUS
<1> USE ChanKinds
<1>1. ASSUME NEW c \in Callers, Request(c) PROVE TypeInv'
  <2>1. CASE HandleOnOff(c)
    BY <2>1 DEF TypeInv, TypeOK, CurSet, HandleOnOff, Begin, Goto, options, fields, goroutines, locals, PC
  <2>2. CASE HandleRestart(c)
    BY <2>2 DEF TypeInv, TypeOK, CurSet, HandleRestart, Begin, Goto, options, fields, goroutines, locals, PC
  <2>3. CASE UpdateTLSSetting(c)
    BY <2>3 DEF TypeInv, TypeOK, CurSet, UpdateTLSSetting, Begin, Goto, options, fields, goroutines, locals, PC
  <2>4. CASE UpdatePort80ListenerState(c)
    BY <2>4 DEF TypeInv, TypeOK, CurSet, UpdatePort80ListenerState, Begin, Goto, options, fields, goroutines, locals, PC
  <2>5. CASE HandleSetListeningPorts(c)
    BY <2>5 DEF TypeInv, TypeOK, CurSet, HandleSetListeningPorts, Begin, Goto, options, fields, goroutines, locals, PC
  <2>6. CASE EditEndpoint(c)
    BY <2>6 DEF TypeInv, TypeOK, CurSet, EditEndpoint, Begin, Goto, options, fields, goroutines, locals, PC
  <2> QED
    BY <1>1, <2>1, <2>2, <2>3, <2>4, <2>5, <2>6 DEF Request
<1>2. ASSUME NEW c \in Callers, Restart(c) PROVE TypeInv'
  <2>1. CASE RestartCheck(c)
    BY <2>1, ReturnTypes, ContinueTypes DEF RestartCheck, ControlOnly, PC
  <2>2. CASE RestartSet(c)
    BY <2>2 DEF TypeInv, TypeOK, CurSet, RestartSet, Goto, options, fields, goroutines, locals, PC
  <2>3. CASE RestartRun(c)
    BY <2>3 DEF TypeInv, TypeOK, CurSet, RestartRun, RestartTo, Goto, options, fields, goroutines, locals, PC
  <2>4. CASE Sleep(c)
    BY <2>4 DEF TypeInv, TypeOK, CurSet, Sleep, Goto, options, fields, goroutines, locals, PC
  <2> QED
    BY <1>2, <2>1, <2>2, <2>3, <2>4 DEF Restart
<1>3. ASSUME NEW c \in Callers, StartProxyService(c) PROVE TypeInv'
  <2>1. CASE StartCheck(c)
    BY <2>1, ReturnTypes, ContinueTypes DEF StartCheck, ControlOnly, PC
  <2>2. CASE TickerCheck(c)
    BY <2>2, ReturnTypes, ContinueTypes DEF TickerCheck, ControlOnly, PC
  <2>3. CASE TickerSet(c)
    BY <2>3 DEF TypeInv, TypeOK, CurSet, TickerSet, Goto, options, fields, goroutines, locals, PC
  <2>4. CASE Serve(c)
    BY <2>4 DEF TypeInv, TypeOK, CurSet, Serve, Goto, MainState, options, fields, goroutines, locals, PC
  <2>5. CASE ConfigureHTTP2(c)
    BY <2>5, ReturnTypes, ContinueTypes DEF ConfigureHTTP2, ControlOnly, PC
  <2>6. CASE RunPlain(c)
    BY <2>6 DEF TypeInv, TypeOK, CurSet, RunPlain, Goto, options, fields, goroutines, locals, PC
  <2>7. CASE RunTLS(c)
    BY <2>7 DEF TypeInv, TypeOK, CurSet, RunTLS, Spawn, Sock, options, fields, goroutines, locals, PC
  <2>8. CASE AssignRedirect(c)
    BY <2>8 DEF TypeInv, TypeOK, CurSet, AssignRedirect, Goto, options, fields, goroutines, locals, PC
  <2>9. CASE Launch(c)
    BY <2>9 DEF TypeInv, TypeOK, CurSet, Launch, LaunchFor, Goto, MainState, options, fields, goroutines, locals, PC
  <2>10. CASE SecCheck(c)
    BY <2>10 DEF TypeInv, TypeOK, CurSet, SecCheck, Goto, options, fields, goroutines, locals, PC
  <2>11. CASE SecStore(c)
    BY <2>11 DEF TypeInv, TypeOK, CurSet, SecStore, Goto, Spawn, Sock, options, fields, goroutines, locals, PC
  <2>12. CASE SecDone(c)
    BY <2>12 DEF TypeInv, TypeOK, CurSet, SecDone, Return, options, fields, goroutines, locals, PC
  <2> QED
    BY <1>3, <2>1, <2>2, <2>3, <2>4, <2>5, <2>6, <2>7, <2>8, <2>9, <2>10, <2>11, <2>12 DEF StartProxyService
<1>4. ASSUME NEW c \in Callers, UpdateSecondaryListeners(c) PROVE TypeInv'
  <2>1. CASE UpdateCheck(c)
    BY <2>1 DEF TypeInv, TypeOK, CurSet, UpdateCheck, Goto, options, fields, goroutines, locals, PC
  <2>2. CASE UpdateLock(c)
    BY <2>2 DEF TypeInv, TypeOK, CurSet, UpdateLock, Goto, options, fields, goroutines, locals, PC
  <2>3. CASE UpdateStop(c)
    BY <2>3 DEF TypeInv, TypeOK, CurSet, UpdateStop, Told, options, fields, goroutines, locals, PC
  <2>4. CASE UpdateUnlock(c)
    BY <2>4 DEF TypeInv, TypeOK, CurSet, UpdateUnlock, Goto, options, fields, goroutines, locals, PC
  <2> QED
    BY <1>4, <2>1, <2>2, <2>3, <2>4 DEF UpdateSecondaryListeners
<1>5. ASSUME NEW c \in Callers, StopProxyService(c) PROVE TypeInv'
  <2>1. CASE StopCheck(c)
    BY <2>1, ReturnTypes, ContinueTypes DEF StopCheck, ControlOnly, PC
  <2>2. CASE StopMain(c)
    BY <2>2 DEF TypeInv, TypeOK, CurSet, StopMain, Stopper, Goto, options, fields, goroutines, locals, PC
  <2>3. CASE StopSecondaries(c)
    BY <2>3 DEF TypeInv, TypeOK, CurSet, StopSecondaries, Goto, options, fields, goroutines, locals, PC
  <2>4. CASE StopRate(c)
    BY <2>4 DEF TypeInv, TypeOK, CurSet, StopRate, StopAlso, Goto, options, fields, goroutines, locals, PC
  <2>5. CASE StopWaited(c)
    BY <2>5 DEF TypeInv, TypeOK, CurSet, StopWaited, StopDone, Goto, options, fields, goroutines, locals, PC
  <2>6. CASE StopClear(c)
    BY <2>6 DEF TypeInv, TypeOK, CurSet, StopClear, StopEnd, Goto, options, fields, goroutines, locals, PC
  <2> QED
    BY <1>5, <2>1, <2>2, <2>3, <2>4, <2>5, <2>6 DEF StopProxyService
<1>6. ASSUME NEW c \in Callers, Deliver(c) \/ MainShutdown(c) PROVE TypeInv'
  BY <1>6 DEF TypeInv, TypeOK, CurSet, Deliver, MainShutdown, Told, MainState, options, fields, goroutines, locals, PC
<1>7. ASSUME NEW s \in Servers, MainListen(s) PROVE TypeInv'
  BY <1>7 DEF TypeInv, TypeOK, CurSet, MainListen, MainState, options, fields, goroutines, locals, PC
<1>8. ASSUME NEW ch \in Chan, ChanStep(ch) PROVE TypeInv'
  <2>1. CASE Listen(ch)
    BY <2>1 DEF TypeInv, TypeOK, CurSet, Listen, Sock, options, fields, goroutines, locals, PC
  <2>2. CASE RedirectFailSend(ch)
    BY <2>2 DEF TypeInv, TypeOK, CurSet, RedirectFailSend, Told, Sock, options, fields, goroutines, locals, PC
  <2>3. CASE RedirectFailReset(ch)
    BY <2>3 DEF TypeInv, TypeOK, CurSet, RedirectFailReset, Sock, options, fields, goroutines, locals, PC
  <2>4. CASE WaiterShutdown(ch)
    BY <2>4 DEF TypeInv, TypeOK, CurSet, WaiterShutdown, Sock, options, fields, goroutines, locals, PC
  <2>5. CASE TickerStop(ch)
    BY <2>5 DEF TypeInv, TypeOK, CurSet, TickerStop, Sock, options, fields, goroutines, locals, PC
  <2> QED
    BY <1>8, <2>1, <2>2, <2>3, <2>4, <2>5 DEF ChanStep
<1>9. CASE UNCHANGED vars
  BY <1>9 DEF TypeInv, TypeOK, CurSet, vars, options, fields, goroutines, locals, PC
<1> QED
  BY <1>1, <1>2, <1>3, <1>4, <1>5, <1>6, <1>7, <1>8, <1>9 DEF Next, CallerStep

\* Every variable keeps its type, for every choice of the constants.
THEOREM TypeCorrect == Spec => []TypeOK
<1>1. Spec => []TypeInv
  BY TypeInit, TypeNext, PTL DEF Spec
<1>2. TypeInv => TypeOK
  BY DEF TypeInv
<1> QED
  BY <1>1, <1>2, PTL

-----------------------------------------------------------------------------
(* One administrator: at most one request at a time *)

Serial == \A c, d \in Callers : c = d

Creating == {"http2", "run_tls", "run_plain"}
Launching == Creating \cup {"assign", "launch"}
Shutting == {"stop_sec", "stop_rate", "stop_wait"}

\* The server exists from Serve to the end of Start; a Stop's shutdown is the
\* one of router.server, and clears that field only once it is off.
ServerInv ==
    /\ \A c \in Callers : pc[c] \in Launching => server # None
    /\ \A c \in Callers :
          pc[c] \in {"ticker", "ticker_set", "serve"} => server = None
    /\ RunningHasServer
    /\ MainOwned
    /\ \A c \in Callers : shut[c] # None => pc[c] \in Shutting
    /\ \A c \in Callers : pc[c] \in Shutting
          => \/ shut[c] = server
             \/ server # None => main[server] \notin {"starting", "bound"}

\* The maps hold every secondary listener that waits; StopProxyService forgets
\* the maps only once it has told them all.
ListenerInv ==
    /\ \A a \in Addrs : secondary[a] \in ({a} \X Ids) \cup {None}
    /\ ListenersOwned
    /\ \A c \in Callers : pc[c] = "sec_store" => secondary[cur[c]] = None
    /\ \A c \in Callers : pc[c] \in {"stop_rate", "stop_wait"}
          => \A a \in Addrs : secondary[a] \in recv => secondary[a] \in sends[c]
    /\ \A c \in Callers : pc[c] = "stop_clear"
          => \A a \in Addrs : secondary[a] \notin recv

\* A server in the wrong mode is one that a Restart is about to stop; a lone
\* Restart is never refused.
SettingsInv ==
    /\ \A c \in Callers : pc[c] \in Creating => tlsOf[server] = useTls
    /\ \A c \in Callers : running
          => \/ pc[c] \in {"restart", "restart_set", "restart_run", "stop_clear"}
             \/ inRestart[c] /\ pc[c] \in {"stop", "stop_main"} \cup Shutting
             \/ tlsOf[server] = useTls
    /\ restarting => \E c \in Callers : inRestart[c]
    /\ \A c \in Callers :
          pc[c] \in {"idle", "restart", "restart_set", "upd"} => ~inRestart[c]
    /\ \A c \in Callers : pc[c] = "restart_run" => inRestart[c]

SerialInv == ServerInv /\ ListenerInv /\ SettingsInv

LEMMA ServerNext == Serial /\ TypeInv /\ ServerInv /\ [Next]_vars => ServerInv'
<1> SUFFICES ASSUME Serial, TypeInv, ServerInv, [Next]_vars PROVE ServerInv'
  OBVIOUS
<1> USE NoneAssumption DEF ServerInv, TypeInv, TypeOK, Serial,
      RunningHasServer, MainOwned, Launching, Creating, Shutting, options,
      fields, goroutines, locals
<1>1. ASSUME NEW c \in Callers, Request(c) PROVE ServerInv'
  <2>1. CASE HandleOnOff(c)
    BY <2>1 DEF HandleOnOff, Begin, Goto
  <2>2. CASE HandleRestart(c)
    BY <2>2 DEF HandleRestart, Begin, Goto
  <2>3. CASE UpdateTLSSetting(c)
    BY <2>3 DEF UpdateTLSSetting, Begin, Goto
  <2>4. CASE UpdatePort80ListenerState(c)
    BY <2>4 DEF UpdatePort80ListenerState, Begin, Goto
  <2>5. CASE HandleSetListeningPorts(c)
    BY <2>5 DEF HandleSetListeningPorts, Begin, Goto
  <2>6. CASE EditEndpoint(c)
    BY <2>6 DEF EditEndpoint, Begin, Goto
  <2> QED
    BY <1>1, <2>1, <2>2, <2>3, <2>4, <2>5, <2>6 DEF Request
<1>2. ASSUME NEW c \in Callers, Restart(c) PROVE ServerInv'
  <2>1. CASE RestartCheck(c)
    <3>1. CASE restarting /\ Return(c)
      BY <2>1, <3>1 DEF RestartCheck, Return, Continue
    <3>2. CASE ~restarting /\ Continue(c, "restart_set")
      BY <2>1, <3>2 DEF RestartCheck, Return, Continue
    <3> QED
      BY <2>1, <3>1, <3>2 DEF RestartCheck
  <2>2. CASE RestartSet(c)
    BY <2>2 DEF RestartSet, Goto
  <2>3. CASE RestartRun(c)
    <3>1. CASE running
      BY <2>3, <3>1 DEF RestartRun, RestartTo, Goto
    <3>2. CASE ~running
      BY <2>3, <3>2 DEF RestartRun, RestartTo, Goto
    <3> QED
      BY <2>3, <3>1, <3>2 DEF RestartRun
  <2>4. CASE Sleep(c)
    BY <2>4 DEF Sleep, Goto
  <2> QED
    BY <1>2, <2>1, <2>2, <2>3, <2>4 DEF Restart
<1>3. ASSUME NEW c \in Callers, StartProxyService(c) PROVE ServerInv'
  <2>1. CASE StartCheck(c)
    <3>1. CASE server # None /\ Return(c)
      BY <2>1, <3>1 DEF StartCheck, Return, Continue
    <3>2. CASE server = None /\ Continue(c, "ticker")
      BY <2>1, <3>2 DEF StartCheck, Return, Continue
    <3> QED
      BY <2>1, <3>1, <3>2 DEF StartCheck
  <2>2. CASE TickerCheck(c)
    <3>1. CASE Return(c)
      BY <2>2, <3>1 DEF TickerCheck, Return, Continue
    <3>2. CASE Continue(c, "ticker_set")
      BY <2>2, <3>2 DEF TickerCheck, Return, Continue
    <3> QED
      BY <2>2, <3>1, <3>2 DEF TickerCheck
  <2>3. CASE TickerSet(c)
    BY <2>3 DEF TickerSet, Goto
  <2>4. CASE Serve(c)
    BY <2>4 DEF Serve, Goto, MainState
  <2>5. CASE ConfigureHTTP2(c)
    <3>1. CASE Return(c)
      BY <2>5, <3>1 DEF ConfigureHTTP2, Return, Continue
    <3>2. CASE Continue(c, "run_tls")
      BY <2>5, <3>2 DEF ConfigureHTTP2, Return, Continue
    <3> QED
      BY <2>5, <3>1, <3>2 DEF ConfigureHTTP2
  <2>6. CASE RunPlain(c)
    BY <2>6 DEF RunPlain, Goto
  <2>7. CASE RunTLS(c)
    BY <2>7 DEF RunTLS, Spawn, Sock
  <2>8. CASE AssignRedirect(c)
    BY <2>8 DEF AssignRedirect, Goto
  <2>9. CASE Launch(c)
    BY <2>9 DEF Launch, LaunchFor, Goto, MainState
  <2>10. CASE SecCheck(c)
    BY <2>10 DEF SecCheck, Goto
  <2>11. CASE SecStore(c)
    BY <2>11 DEF SecStore, Goto, Spawn, Sock
  <2>12. CASE SecDone(c)
    BY <2>12 DEF SecDone, Return
  <2> QED
    BY <1>3, <2>1, <2>2, <2>3, <2>4, <2>5, <2>6, <2>7, <2>8, <2>9, <2>10, <2>11, <2>12 DEF StartProxyService
<1>4. ASSUME NEW c \in Callers, UpdateSecondaryListeners(c) PROVE ServerInv'
  <2>1. CASE UpdateCheck(c)
    <3>1. CASE running
      BY <2>1, <3>1 DEF UpdateCheck, Goto
    <3>2. CASE ~running
      BY <2>1, <3>2 DEF UpdateCheck, Goto
    <3> QED
      BY <2>1, <3>1, <3>2 DEF UpdateCheck
  <2>2. CASE UpdateLock(c)
    BY <2>2 DEF UpdateLock, Goto
  <2>3. CASE UpdateStop(c)
    BY <2>3 DEF UpdateStop, Told
  <2>4. CASE UpdateUnlock(c)
    BY <2>4 DEF UpdateUnlock, Goto
  <2> QED
    BY <1>4, <2>1, <2>2, <2>3, <2>4 DEF UpdateSecondaryListeners
<1>5. ASSUME NEW c \in Callers, StopProxyService(c) PROVE ServerInv'
  <2>1. CASE StopCheck(c)
    <3>1. CASE NothingToStop /\ Return(c)
      BY <2>1, <3>1 DEF StopCheck, Return, Continue, NothingToStop
    <3>2. CASE ~NothingToStop /\ Continue(c, "stop_main")
      BY <2>1, <3>2 DEF StopCheck, Return, Continue, NothingToStop
    <3> QED
      BY <2>1, <3>1, <3>2 DEF StopCheck
  <2>2. CASE StopMain(c)
    BY <2>2 DEF StopMain, Stopper, Goto
  <2>3. CASE StopSecondaries(c)
    BY <2>3 DEF StopSecondaries, Goto
  <2>4. CASE StopRate(c)
    BY <2>4 DEF StopRate, StopAlso, Goto
  <2>5. CASE StopWaited(c)
    BY <2>5 DEF StopWaited, StopDone, Goto
  <2>6. CASE StopClear(c)
    BY <2>6 DEF StopClear, StopEnd, Goto
  <2> QED
    BY <1>5, <2>1, <2>2, <2>3, <2>4, <2>5, <2>6 DEF StopProxyService
<1>6. ASSUME NEW c \in Callers, Deliver(c) PROVE ServerInv'
  BY <1>6 DEF Deliver, Told
<1>7. ASSUME NEW c \in Callers, MainShutdown(c) PROVE ServerInv'
  BY <1>7 DEF MainShutdown
<1>8. ASSUME NEW s \in Servers, MainListen(s) PROVE ServerInv'
  BY <1>8 DEF MainListen
<1>9. ASSUME NEW ch \in Chan, ChanStep(ch) PROVE ServerInv'
  <2>1. CASE Listen(ch)
    BY <2>1 DEF Listen
  <2>2. CASE RedirectFailSend(ch)
    BY <2>2 DEF RedirectFailSend, Told
  <2>3. CASE RedirectFailReset(ch)
    BY <2>3 DEF RedirectFailReset
  <2>4. CASE WaiterShutdown(ch)
    BY <2>4 DEF WaiterShutdown
  <2>5. CASE TickerStop(ch)
    BY <2>5 DEF TickerStop
  <2> QED
    BY <1>9, <2>1, <2>2, <2>3, <2>4, <2>5 DEF ChanStep
<1>10. CASE UNCHANGED vars
  BY <1>10 DEF vars
<1> QED
  BY <1>1, <1>2, <1>3, <1>4, <1>5, <1>6, <1>7, <1>8, <1>9, <1>10 DEF Next, CallerStep
LEMMA ListenerNext == Serial /\ TypeInv /\ ListenerInv /\ [Next]_vars => ListenerInv'
<1> SUFFICES ASSUME Serial, TypeInv, ListenerInv, [Next]_vars PROVE ListenerInv'
  OBVIOUS
<1> USE NoneAssumption, KindsAssumption, ChanKinds DEF ListenerInv, TypeInv,
      TypeOK, Serial, ListenersOwned, options, fields, goroutines, locals
<1>1. ASSUME NEW c \in Callers, Request(c) PROVE ListenerInv'
  <2>1. CASE HandleOnOff(c)
    BY <2>1 DEF HandleOnOff, Begin, Goto
  <2>2. CASE HandleRestart(c)
    BY <2>2 DEF HandleRestart, Begin, Goto
  <2>3. CASE UpdateTLSSetting(c)
    BY <2>3 DEF UpdateTLSSetting, Begin, Goto
  <2>4. CASE UpdatePort80ListenerState(c)
    BY <2>4 DEF UpdatePort80ListenerState, Begin, Goto
  <2>5. CASE HandleSetListeningPorts(c)
    BY <2>5 DEF HandleSetListeningPorts, Begin, Goto
  <2>6. CASE EditEndpoint(c)
    BY <2>6 DEF EditEndpoint, Begin, Goto
  <2> QED
    BY <1>1, <2>1, <2>2, <2>3, <2>4, <2>5, <2>6 DEF Request
<1>2. ASSUME NEW c \in Callers, Restart(c) PROVE ListenerInv'
  <2>1. CASE RestartCheck(c)
    <3>1. CASE restarting /\ Return(c)
      BY <2>1, <3>1 DEF RestartCheck, Return, Continue
    <3>2. CASE ~restarting /\ Continue(c, "restart_set")
      BY <2>1, <3>2 DEF RestartCheck, Return, Continue
    <3> QED
      BY <2>1, <3>1, <3>2 DEF RestartCheck
  <2>2. CASE RestartSet(c)
    BY <2>2 DEF RestartSet, Goto
  <2>3. CASE RestartRun(c)
    <3>1. CASE running
      BY <2>3, <3>1 DEF RestartRun, RestartTo, Goto
    <3>2. CASE ~running
      BY <2>3, <3>2 DEF RestartRun, RestartTo, Goto
    <3> QED
      BY <2>3, <3>1, <3>2 DEF RestartRun
  <2>4. CASE Sleep(c)
    BY <2>4 DEF Sleep, Goto
  <2> QED
    BY <1>2, <2>1, <2>2, <2>3, <2>4 DEF Restart
<1>3. ASSUME NEW c \in Callers, StartProxyService(c) PROVE ListenerInv'
  <2>1. CASE StartCheck(c)
    <3>1. CASE server # None /\ Return(c)
      BY <2>1, <3>1 DEF StartCheck, Return, Continue
    <3>2. CASE server = None /\ Continue(c, "ticker")
      BY <2>1, <3>2 DEF StartCheck, Return, Continue
    <3> QED
      BY <2>1, <3>1, <3>2 DEF StartCheck
  <2>2. CASE TickerCheck(c)
    <3>1. CASE Return(c)
      BY <2>2, <3>1 DEF TickerCheck, Return, Continue
    <3>2. CASE Continue(c, "ticker_set")
      BY <2>2, <3>2 DEF TickerCheck, Return, Continue
    <3> QED
      BY <2>2, <3>1, <3>2 DEF TickerCheck
  <2>3. CASE TickerSet(c)
    BY <2>3 DEF TickerSet, Goto
  <2>4. CASE Serve(c)
    BY <2>4 DEF Serve, Goto, MainState
  <2>5. CASE ConfigureHTTP2(c)
    <3>1. CASE Return(c)
      BY <2>5, <3>1 DEF ConfigureHTTP2, Return, Continue
    <3>2. CASE Continue(c, "run_tls")
      BY <2>5, <3>2 DEF ConfigureHTTP2, Return, Continue
    <3> QED
      BY <2>5, <3>1, <3>2 DEF ConfigureHTTP2
  <2>6. CASE RunPlain(c)
    BY <2>6 DEF RunPlain, Goto
  <2>7. CASE RunTLS(c)
    BY <2>7 DEF RunTLS, Spawn, Sock
  <2>8. CASE AssignRedirect(c)
    BY <2>8 DEF AssignRedirect, Goto
  <2>9. CASE Launch(c)
    BY <2>9 DEF Launch, LaunchFor, Goto, MainState
  <2>10. CASE SecCheck(c)
    BY <2>10 DEF SecCheck, Goto
  <2>11. CASE SecStore(c)
    BY <2>11 DEF SecStore, Goto, Spawn, Sock
  <2>12. CASE SecDone(c)
    BY <2>12 DEF SecDone, Return
  <2> QED
    BY <1>3, <2>1, <2>2, <2>3, <2>4, <2>5, <2>6, <2>7, <2>8, <2>9, <2>10, <2>11, <2>12 DEF StartProxyService
<1>4. ASSUME NEW c \in Callers, UpdateSecondaryListeners(c) PROVE ListenerInv'
  <2>1. CASE UpdateCheck(c)
    <3>1. CASE running
      BY <2>1, <3>1 DEF UpdateCheck, Goto
    <3>2. CASE ~running
      BY <2>1, <3>2 DEF UpdateCheck, Goto
    <3> QED
      BY <2>1, <3>1, <3>2 DEF UpdateCheck
  <2>2. CASE UpdateLock(c)
    BY <2>2 DEF UpdateLock, Goto
  <2>3. CASE UpdateStop(c)
    BY <2>3 DEF UpdateStop, Told
  <2>4. CASE UpdateUnlock(c)
    BY <2>4 DEF UpdateUnlock, Goto
  <2> QED
    BY <1>4, <2>1, <2>2, <2>3, <2>4 DEF UpdateSecondaryListeners
<1>5. ASSUME NEW c \in Callers, StopProxyService(c) PROVE ListenerInv'
  <2>1. CASE StopCheck(c)
    <3>1. CASE NothingToStop /\ Return(c)
      BY <2>1, <3>1 DEF StopCheck, Return, Continue, NothingToStop
    <3>2. CASE ~NothingToStop /\ Continue(c, "stop_main")
      BY <2>1, <3>2 DEF StopCheck, Return, Continue, NothingToStop
    <3> QED
      BY <2>1, <3>1, <3>2 DEF StopCheck
  <2>2. CASE StopMain(c)
    BY <2>2 DEF StopMain, Stopper, Goto
  <2>3. CASE StopSecondaries(c)
    BY <2>3 DEF StopSecondaries, Goto
  <2>4. CASE StopRate(c)
    BY <2>4 DEF StopRate, StopAlso, Goto
  <2>5. CASE StopWaited(c)
    BY <2>5 DEF StopWaited, StopDone, Goto
  <2>6. CASE StopClear(c)
    BY <2>6 DEF StopClear, StopEnd, Goto
  <2> QED
    BY <1>5, <2>1, <2>2, <2>3, <2>4, <2>5, <2>6 DEF StopProxyService
<1>6. ASSUME NEW c \in Callers, Deliver(c) PROVE ListenerInv'
  BY <1>6 DEF Deliver, Told
<1>7. ASSUME NEW c \in Callers, MainShutdown(c) PROVE ListenerInv'
  BY <1>7 DEF MainShutdown
<1>8. ASSUME NEW s \in Servers, MainListen(s) PROVE ListenerInv'
  BY <1>8 DEF MainListen
<1>9. ASSUME NEW ch \in Chan, ChanStep(ch) PROVE ListenerInv'
  <2>1. CASE Listen(ch)
    BY <2>1 DEF Listen
  <2>2. CASE RedirectFailSend(ch)
    BY <2>2 DEF RedirectFailSend, Told
  <2>3. CASE RedirectFailReset(ch)
    BY <2>3 DEF RedirectFailReset
  <2>4. CASE WaiterShutdown(ch)
    BY <2>4 DEF WaiterShutdown
  <2>5. CASE TickerStop(ch)
    BY <2>5 DEF TickerStop
  <2> QED
    BY <1>9, <2>1, <2>2, <2>3, <2>4, <2>5 DEF ChanStep
<1>10. CASE UNCHANGED vars
  BY <1>10 DEF vars
<1> QED
  BY <1>1, <1>2, <1>3, <1>4, <1>5, <1>6, <1>7, <1>8, <1>9, <1>10 DEF Next, CallerStep
LEMMA SettingsNext == Serial /\ TypeInv /\ ServerInv /\ SettingsInv /\ [Next]_vars => SettingsInv'
<1> SUFFICES ASSUME Serial, TypeInv, ServerInv, SettingsInv, [Next]_vars PROVE SettingsInv'
  OBVIOUS
<1> USE NoneAssumption DEF SettingsInv, TypeInv, TypeOK, Serial, ServerInv,
      RunningHasServer, MainOwned, Launching, Creating, Shutting, options,
      fields, goroutines, locals
<1>1. ASSUME NEW c \in Callers, Request(c) PROVE SettingsInv'
  <2>1. CASE HandleOnOff(c)
    BY <2>1 DEF HandleOnOff, Begin, Goto
  <2>2. CASE HandleRestart(c)
    BY <2>2 DEF HandleRestart, Begin, Goto
  <2>3. CASE UpdateTLSSetting(c)
    BY <2>3 DEF UpdateTLSSetting, Begin, Goto
  <2>4. CASE UpdatePort80ListenerState(c)
    BY <2>4 DEF UpdatePort80ListenerState, Begin, Goto
  <2>5. CASE HandleSetListeningPorts(c)
    BY <2>5 DEF HandleSetListeningPorts, Begin, Goto
  <2>6. CASE EditEndpoint(c)
    BY <2>6 DEF EditEndpoint, Begin, Goto
  <2> QED
    BY <1>1, <2>1, <2>2, <2>3, <2>4, <2>5, <2>6 DEF Request
<1>2. ASSUME NEW c \in Callers, Restart(c) PROVE SettingsInv'
  <2>1. CASE RestartCheck(c)
    <3>1. CASE restarting /\ Return(c)
      BY <2>1, <3>1 DEF RestartCheck, Return, Continue
    <3>2. CASE ~restarting /\ Continue(c, "restart_set")
      BY <2>1, <3>2 DEF RestartCheck, Return, Continue
    <3> QED
      BY <2>1, <3>1, <3>2 DEF RestartCheck
  <2>2. CASE RestartSet(c)
    BY <2>2 DEF RestartSet, Goto
  <2>3. CASE RestartRun(c)
    <3>1. CASE running
      BY <2>3, <3>1 DEF RestartRun, RestartTo, Goto
    <3>2. CASE ~running
      BY <2>3, <3>2 DEF RestartRun, RestartTo, Goto
    <3> QED
      BY <2>3, <3>1, <3>2 DEF RestartRun
  <2>4. CASE Sleep(c)
    BY <2>4 DEF Sleep, Goto
  <2> QED
    BY <1>2, <2>1, <2>2, <2>3, <2>4 DEF Restart
<1>3. ASSUME NEW c \in Callers, StartProxyService(c) PROVE SettingsInv'
  <2>1. CASE StartCheck(c)
    <3>1. CASE server # None /\ Return(c)
      BY <2>1, <3>1 DEF StartCheck, Return, Continue
    <3>2. CASE server = None /\ Continue(c, "ticker")
      BY <2>1, <3>2 DEF StartCheck, Return, Continue
    <3> QED
      BY <2>1, <3>1, <3>2 DEF StartCheck
  <2>2. CASE TickerCheck(c)
    <3>1. CASE Return(c)
      BY <2>2, <3>1 DEF TickerCheck, Return, Continue
    <3>2. CASE Continue(c, "ticker_set")
      BY <2>2, <3>2 DEF TickerCheck, Return, Continue
    <3> QED
      BY <2>2, <3>1, <3>2 DEF TickerCheck
  <2>3. CASE TickerSet(c)
    BY <2>3 DEF TickerSet, Goto
  <2>4. CASE Serve(c)
    BY <2>4 DEF Serve, Goto, MainState
  <2>5. CASE ConfigureHTTP2(c)
    <3>1. CASE Return(c)
      BY <2>5, <3>1 DEF ConfigureHTTP2, Return, Continue
    <3>2. CASE Continue(c, "run_tls")
      BY <2>5, <3>2 DEF ConfigureHTTP2, Return, Continue
    <3> QED
      BY <2>5, <3>1, <3>2 DEF ConfigureHTTP2
  <2>6. CASE RunPlain(c)
    BY <2>6 DEF RunPlain, Goto
  <2>7. CASE RunTLS(c)
    BY <2>7 DEF RunTLS, Spawn, Sock
  <2>8. CASE AssignRedirect(c)
    BY <2>8 DEF AssignRedirect, Goto
  <2>9. CASE Launch(c)
    BY <2>9 DEF Launch, LaunchFor, Goto, MainState
  <2>10. CASE SecCheck(c)
    BY <2>10 DEF SecCheck, Goto
  <2>11. CASE SecStore(c)
    BY <2>11 DEF SecStore, Goto, Spawn, Sock
  <2>12. CASE SecDone(c)
    BY <2>12 DEF SecDone, Return
  <2> QED
    BY <1>3, <2>1, <2>2, <2>3, <2>4, <2>5, <2>6, <2>7, <2>8, <2>9, <2>10, <2>11, <2>12 DEF StartProxyService
<1>4. ASSUME NEW c \in Callers, UpdateSecondaryListeners(c) PROVE SettingsInv'
  <2>1. CASE UpdateCheck(c)
    <3>1. CASE running
      BY <2>1, <3>1 DEF UpdateCheck, Goto
    <3>2. CASE ~running
      BY <2>1, <3>2 DEF UpdateCheck, Goto
    <3> QED
      BY <2>1, <3>1, <3>2 DEF UpdateCheck
  <2>2. CASE UpdateLock(c)
    BY <2>2 DEF UpdateLock, Goto
  <2>3. CASE UpdateStop(c)
    BY <2>3 DEF UpdateStop, Told
  <2>4. CASE UpdateUnlock(c)
    BY <2>4 DEF UpdateUnlock, Goto
  <2> QED
    BY <1>4, <2>1, <2>2, <2>3, <2>4 DEF UpdateSecondaryListeners
<1>5. ASSUME NEW c \in Callers, StopProxyService(c) PROVE SettingsInv'
  <2>1. CASE StopCheck(c)
    <3>1. CASE NothingToStop /\ Return(c)
      BY <2>1, <3>1 DEF StopCheck, Return, Continue, NothingToStop
    <3>2. CASE ~NothingToStop /\ Continue(c, "stop_main")
      BY <2>1, <3>2 DEF StopCheck, Return, Continue, NothingToStop
    <3> QED
      BY <2>1, <3>1, <3>2 DEF StopCheck
  <2>2. CASE StopMain(c)
    BY <2>2 DEF StopMain, Stopper, Goto
  <2>3. CASE StopSecondaries(c)
    BY <2>3 DEF StopSecondaries, Goto
  <2>4. CASE StopRate(c)
    BY <2>4 DEF StopRate, StopAlso, Goto
  <2>5. CASE StopWaited(c)
    BY <2>5 DEF StopWaited, StopDone, Goto
  <2>6. CASE StopClear(c)
    BY <2>6 DEF StopClear, StopEnd, Goto
  <2> QED
    BY <1>5, <2>1, <2>2, <2>3, <2>4, <2>5, <2>6 DEF StopProxyService
<1>6. ASSUME NEW c \in Callers, Deliver(c) PROVE SettingsInv'
  BY <1>6 DEF Deliver, Told
<1>7. ASSUME NEW c \in Callers, MainShutdown(c) PROVE SettingsInv'
  BY <1>7 DEF MainShutdown
<1>8. ASSUME NEW s \in Servers, MainListen(s) PROVE SettingsInv'
  BY <1>8 DEF MainListen
<1>9. ASSUME NEW ch \in Chan, ChanStep(ch) PROVE SettingsInv'
  <2>1. CASE Listen(ch)
    BY <2>1 DEF Listen
  <2>2. CASE RedirectFailSend(ch)
    BY <2>2 DEF RedirectFailSend, Told
  <2>3. CASE RedirectFailReset(ch)
    BY <2>3 DEF RedirectFailReset
  <2>4. CASE WaiterShutdown(ch)
    BY <2>4 DEF WaiterShutdown
  <2>5. CASE TickerStop(ch)
    BY <2>5 DEF TickerStop
  <2> QED
    BY <1>9, <2>1, <2>2, <2>3, <2>4, <2>5 DEF ChanStep
<1>10. CASE UNCHANGED vars
  BY <1>10 DEF vars
<1> QED
  BY <1>1, <1>2, <1>3, <1>4, <1>5, <1>6, <1>7, <1>8, <1>9, <1>10 DEF Next, CallerStep
LEMMA SerialInit == Init => SerialInv
<1> SUFFICES ASSUME Init PROVE SerialInv
  OBVIOUS
<1>1. ServerInv
  BY NoneAssumption DEF Init, ServerInv, RunningHasServer, MainOwned,
     Launching, Creating, Shutting
<1>2. ListenerInv
  BY DEF Init, ListenerInv, ListenersOwned
<1>3. SettingsInv
  BY DEF Init, SettingsInv, Creating
<1> QED
  BY <1>1, <1>2, <1>3 DEF SerialInv

LEMMA SerialNext == Serial /\ TypeInv /\ SerialInv /\ [Next]_vars => SerialInv'
BY ServerNext, ListenerNext, SettingsNext DEF SerialInv

\* For a lone administrator, whatever the settings, the addresses, the failures
\* of port 80 and the goroutines left over: no listener or main server is ever
\* lost to a later stop, Running tells the truth and settings are applied.
THEOREM SerialSafety ==
    ASSUME Serial
    PROVE  Spec => [](/\ RunningHasServer /\ MainOwned
                      /\ ListenersOwned /\ SettingsApplied)
<1>1. Init => TypeInv /\ SerialInv
  BY TypeInit, SerialInit
<1>2. TypeInv /\ SerialInv /\ [Next]_vars => (TypeInv /\ SerialInv)'
  BY Serial, TypeNext, SerialNext
<1>3. SerialInv => /\ RunningHasServer /\ MainOwned
                   /\ ListenersOwned /\ SettingsApplied
  <2> SUFFICES ASSUME SerialInv
               PROVE  /\ RunningHasServer /\ MainOwned
                      /\ ListenersOwned /\ SettingsApplied
    OBVIOUS
  <2>1. RunningHasServer /\ MainOwned /\ ListenersOwned
    BY DEF SerialInv, ServerInv, ListenerInv
  <2>2. SettingsApplied
    <3> SUFFICES ASSUME Idle, running PROVE tlsOf[server] = useTls
      BY DEF SettingsApplied
    <3> PICK c \in Callers : pc[c] = "idle"
      BY CallersAssumption DEF Idle
    <3> QED
      BY DEF SerialInv, SettingsInv, Shutting
  <2> QED
    BY <2>1, <2>2
<1> QED
  BY <1>1, <1>2, <1>3, PTL DEF Spec

-----------------------------------------------------------------------------
(* One administrator: the redirector *)

Redirects == {"redirect"} \X Ids
Tickers == {"ticker"} \X Ids

LEMMA KindFacts ==
    /\ Redirects = {"redirect"} \X Ids /\ Tickers = {"ticker"} \X Ids
    /\ Redirects \cup Tickers \subseteq Chan /\ None \notin Redirects \cup Tickers
    /\ \A ch \in Chan : ch[1] = "redirect" <=> ch \in Redirects
    /\ \A ch \in Chan : ch[1] = "ticker" <=> ch \in Tickers
    /\ \A a \in Addrs : ({a} \X Ids) \cap (Redirects \cup Tickers) = {}
    /\ Redirects \cap Tickers = {}
<1>1. /\ Redirects = {"redirect"} \X Ids /\ Tickers = {"ticker"} \X Ids
      /\ Redirects \cup Tickers \subseteq Chan /\ None \notin Redirects \cup Tickers
  BY ChanKinds, NoneAssumption DEF Redirects, Tickers
<1>2. \A ch \in Chan : ch[1] = "redirect" <=> ch \in Redirects
  BY DEF Chan, Redirects
<1>3. \A ch \in Chan : ch[1] = "ticker" <=> ch \in Tickers
  BY DEF Chan, Tickers
<1> QED
  BY <1>1, <1>2, <1>3, KindsAssumption DEF Redirects, Tickers

\* A field, the caller or a sender of its Stop knows the redirector's channel.
Known(c, ch) == redirectStop = ch \/ made[c] = ch \/ ch \in sends[c]

\* At most one redirector is known, and a Stop sends to the one that waits.
KnownInv ==
    /\ redirectStop \in Redirects \cup {None}
    /\ rateStop \in Tickers \cup {None}
    /\ server = None => redirectStop = None
    /\ \A c \in Callers : pc[c] \in Creating => redirectStop = None
    /\ \A c \in Callers : made[c] # None
          => /\ pc[c] = "assign" /\ redirectStop = None
             /\ made[c] \in Redirects
    /\ \A c \in Callers : pc[c] = "assign" => made[c] # None
    /\ \A c \in Callers : sends[c] # {} => pc[c] \in Shutting
    /\ \A c \in Callers : pc[c] \in Shutting /\ redirectStop \in recv
          => redirectStop \in sends[c]
    /\ \A c \in Callers : \A ch, other \in Redirects :
          Known(c, ch) /\ Known(c, other) => ch = other

\* The redirector that waits is known to a field or to the Start that made it.  One
\* that has failed is still known when it resets tlsRedirectStop, and no other
\* waits then; a Stop that was sending to it never gets as far as forgetting it.
FailedInv ==
    /\ \A c \in Callers : \A ch \in Redirects \cap recv :
          redirectStop = ch \/ made[c] = ch
    /\ \A ch \in Redirects : sock[ch] = "told"
          => /\ Redirects \cap recv = {}
             /\ \A c \in Callers : Known(c, ch)
             /\ \A c \in Callers : pc[c] \in Shutting => ch \in sends[c]
    /\ \A ch \in Chan : sock[ch] \in {"failed", "told"} => ch \in Redirects

RedirectInv == KnownInv /\ FailedInv

LEMMA KnownNext == Serial /\ TypeInv /\ ServerInv /\ ListenerInv /\ KnownInv /\ FailedInv /\ [Next]_vars => KnownInv'
<1> SUFFICES ASSUME Serial, TypeInv, ServerInv, ListenerInv, KnownInv, FailedInv, [Next]_vars PROVE KnownInv'
  OBVIOUS
<1> USE NoneAssumption, KindFacts DEF KnownInv, FailedInv, Known, TypeInv,
      TypeOK, Serial, ServerInv, Launching, Creating, Shutting, options,
      fields, goroutines, locals
<1>1. ASSUME NEW c \in Callers, Request(c) PROVE KnownInv'
  <2>1. CASE HandleOnOff(c)
    BY <2>1 DEF HandleOnOff, Begin, Goto
  <2>2. CASE HandleRestart(c)
    BY <2>2 DEF HandleRestart, Begin, Goto
  <2>3. CASE UpdateTLSSetting(c)
    BY <2>3 DEF UpdateTLSSetting, Begin, Goto
  <2>4. CASE UpdatePort80ListenerState(c)
    BY <2>4 DEF UpdatePort80ListenerState, Begin, Goto
  <2>5. CASE HandleSetListeningPorts(c)
    BY <2>5 DEF HandleSetListeningPorts, Begin, Goto
  <2>6. CASE EditEndpoint(c)
    BY <2>6 DEF EditEndpoint, Begin, Goto
  <2> QED
    BY <1>1, <2>1, <2>2, <2>3, <2>4, <2>5, <2>6 DEF Request
<1>2. ASSUME NEW c \in Callers, Restart(c) PROVE KnownInv'
  <2>1. CASE RestartCheck(c)
    <3>1. CASE restarting /\ Return(c)
      BY <2>1, <3>1 DEF RestartCheck, Return, Continue
    <3>2. CASE ~restarting /\ Continue(c, "restart_set")
      BY <2>1, <3>2 DEF RestartCheck, Return, Continue
    <3> QED
      BY <2>1, <3>1, <3>2 DEF RestartCheck
  <2>2. CASE RestartSet(c)
    BY <2>2 DEF RestartSet, Goto
  <2>3. CASE RestartRun(c)
    <3>1. CASE running
      BY <2>3, <3>1 DEF RestartRun, RestartTo, Goto
    <3>2. CASE ~running
      BY <2>3, <3>2 DEF RestartRun, RestartTo, Goto
    <3> QED
      BY <2>3, <3>1, <3>2 DEF RestartRun
  <2>4. CASE Sleep(c)
    BY <2>4 DEF Sleep, Goto
  <2> QED
    BY <1>2, <2>1, <2>2, <2>3, <2>4 DEF Restart
<1>3. ASSUME NEW c \in Callers, StartProxyService(c) PROVE KnownInv'
  <2>1. CASE StartCheck(c)
    <3>1. CASE server # None /\ Return(c)
      BY <2>1, <3>1 DEF StartCheck, Return, Continue
    <3>2. CASE server = None /\ Continue(c, "ticker")
      BY <2>1, <3>2 DEF StartCheck, Return, Continue
    <3> QED
      BY <2>1, <3>1, <3>2 DEF StartCheck
  <2>2. CASE TickerCheck(c)
    <3>1. CASE Return(c)
      BY <2>2, <3>1 DEF TickerCheck, Return, Continue
    <3>2. CASE rateStop = None /\ Continue(c, "ticker_set")
      BY <2>2, <3>2 DEF TickerCheck, Return, Continue
    <3> QED
      BY <2>2, <3>1, <3>2 DEF TickerCheck
  <2>3. CASE TickerSet(c)
    BY <2>3 DEF TickerSet, Goto
  <2>4. CASE Serve(c)
    BY <2>4 DEF Serve, Goto, MainState
  <2>5. CASE ConfigureHTTP2(c)
    <3>1. CASE Return(c)
      BY <2>5, <3>1 DEF ConfigureHTTP2, Return, Continue
    <3>2. CASE Continue(c, "run_tls")
      BY <2>5, <3>2 DEF ConfigureHTTP2, Return, Continue
    <3> QED
      BY <2>5, <3>1, <3>2 DEF ConfigureHTTP2
  <2>6. CASE RunPlain(c)
    BY <2>6 DEF RunPlain, Goto
  <2>7. CASE RunTLS(c)
    BY <2>7 DEF RunTLS, Spawn, Sock
  <2>8. CASE AssignRedirect(c)
    BY <2>8 DEF AssignRedirect, Goto
  <2>9. CASE Launch(c)
    BY <2>9 DEF Launch, LaunchFor, Goto, MainState
  <2>10. CASE SecCheck(c)
    BY <2>10 DEF SecCheck, Goto
  <2>11. CASE SecStore(c)
    BY <2>11 DEF SecStore, Goto, Spawn, Sock
  <2>12. CASE SecDone(c)
    BY <2>12 DEF SecDone, Return
  <2> QED
    BY <1>3, <2>1, <2>2, <2>3, <2>4, <2>5, <2>6, <2>7, <2>8, <2>9, <2>10, <2>11, <2>12 DEF StartProxyService
<1>4. ASSUME NEW c \in Callers, UpdateSecondaryListeners(c) PROVE KnownInv'
  <2>1. CASE UpdateCheck(c)
    <3>1. CASE running
      BY <2>1, <3>1 DEF UpdateCheck, Goto
    <3>2. CASE ~running
      BY <2>1, <3>2 DEF UpdateCheck, Goto
    <3> QED
      BY <2>1, <3>1, <3>2 DEF UpdateCheck
  <2>2. CASE UpdateLock(c)
    BY <2>2 DEF UpdateLock, Goto
  <2>3. CASE UpdateStop(c)
    BY <2>3 DEF UpdateStop, Told
  <2>4. CASE UpdateUnlock(c)
    BY <2>4 DEF UpdateUnlock, Goto
  <2> QED
    BY <1>4, <2>1, <2>2, <2>3, <2>4 DEF UpdateSecondaryListeners
<1>5. ASSUME NEW c \in Callers, StopProxyService(c) PROVE KnownInv'
  <2>1. CASE StopCheck(c)
    <3>1. CASE NothingToStop /\ Return(c)
      BY <2>1, <3>1 DEF StopCheck, Return, Continue, NothingToStop
    <3>2. CASE ~NothingToStop /\ Continue(c, "stop_main")
      BY <2>1, <3>2 DEF StopCheck, Return, Continue, NothingToStop
    <3> QED
      BY <2>1, <3>1, <3>2 DEF StopCheck
  <2>2. CASE StopMain(c)
    BY <2>2 DEF StopMain, Stopper, Goto
  <2>3. CASE StopSecondaries(c)
    <3>1. \A a \in Addrs : secondary[a] \notin Redirects
      BY KindFacts DEF ListenerInv
    <3> QED
      BY <2>3, <3>1 DEF StopSecondaries, Goto
  <2>4. CASE StopRate(c)
    BY <2>4 DEF StopRate, StopAlso, Goto
  <2>5. CASE StopWaited(c)
    BY <2>5 DEF StopWaited, StopDone, Goto
  <2>6. CASE StopClear(c)
    BY <2>6 DEF StopClear, StopEnd, Goto
  <2> QED
    BY <1>5, <2>1, <2>2, <2>3, <2>4, <2>5, <2>6 DEF StopProxyService
<1>6. ASSUME NEW c \in Callers, Deliver(c) PROVE KnownInv'
  BY <1>6 DEF Deliver, Told
<1>7. ASSUME NEW c \in Callers, MainShutdown(c) PROVE KnownInv'
  BY <1>7 DEF MainShutdown
<1>8. ASSUME NEW s \in Servers, MainListen(s) PROVE KnownInv'
  BY <1>8 DEF MainListen
<1>9. ASSUME NEW ch \in Chan, ChanStep(ch) PROVE KnownInv'
  <2>1. CASE Listen(ch)
    BY <2>1 DEF Listen
  <2>2. CASE RedirectFailSend(ch)
    BY <2>2 DEF RedirectFailSend, Told
  <2>3. CASE RedirectFailReset(ch)
    BY <2>3 DEF RedirectFailReset
  <2>4. CASE WaiterShutdown(ch)
    BY <2>4 DEF WaiterShutdown
  <2>5. CASE TickerStop(ch)
    BY <2>5 DEF TickerStop
  <2> QED
    BY <1>9, <2>1, <2>2, <2>3, <2>4, <2>5 DEF ChanStep
<1>10. CASE UNCHANGED vars
  BY <1>10 DEF vars
<1> QED
  BY <1>1, <1>2, <1>3, <1>4, <1>5, <1>6, <1>7, <1>8, <1>9, <1>10 DEF Next, CallerStep

LEMMA FailedNext == Serial /\ TypeInv /\ ServerInv /\ ListenerInv /\ KnownInv /\ FailedInv /\ [Next]_vars => FailedInv'
<1> SUFFICES ASSUME Serial, TypeInv, ServerInv, ListenerInv, KnownInv, FailedInv, [Next]_vars PROVE FailedInv'
  OBVIOUS
<1> USE NoneAssumption, KindFacts DEF KnownInv, FailedInv, Known, TypeInv,
      TypeOK, Serial, ServerInv, Launching, Creating, Shutting, options,
      fields, goroutines, locals
<1>1. ASSUME NEW c \in Callers, Request(c) PROVE FailedInv'
  <2>1. CASE HandleOnOff(c)
    BY <2>1 DEF HandleOnOff, Begin, Goto
  <2>2. CASE HandleRestart(c)
    BY <2>2 DEF HandleRestart, Begin, Goto
  <2>3. CASE UpdateTLSSetting(c)
    BY <2>3 DEF UpdateTLSSetting, Begin, Goto
  <2>4. CASE UpdatePort80ListenerState(c)
    BY <2>4 DEF UpdatePort80ListenerState, Begin, Goto
  <2>5. CASE HandleSetListeningPorts(c)
    BY <2>5 DEF HandleSetListeningPorts, Begin, Goto
  <2>6. CASE EditEndpoint(c)
    BY <2>6 DEF EditEndpoint, Begin, Goto
  <2> QED
    BY <1>1, <2>1, <2>2, <2>3, <2>4, <2>5, <2>6 DEF Request
<1>2. ASSUME NEW c \in Callers, Restart(c) PROVE FailedInv'
  <2>1. CASE RestartCheck(c)
    <3>1. CASE restarting /\ Return(c)
      BY <2>1, <3>1 DEF RestartCheck, Return, Continue
    <3>2. CASE ~restarting /\ Continue(c, "restart_set")
      BY <2>1, <3>2 DEF RestartCheck, Return, Continue
    <3> QED
      BY <2>1, <3>1, <3>2 DEF RestartCheck
  <2>2. CASE RestartSet(c)
    BY <2>2 DEF RestartSet, Goto
  <2>3. CASE RestartRun(c)
    <3>1. CASE running
      BY <2>3, <3>1 DEF RestartRun, RestartTo, Goto
    <3>2. CASE ~running
      BY <2>3, <3>2 DEF RestartRun, RestartTo, Goto
    <3> QED
      BY <2>3, <3>1, <3>2 DEF RestartRun
  <2>4. CASE Sleep(c)
    BY <2>4 DEF Sleep, Goto
  <2> QED
    BY <1>2, <2>1, <2>2, <2>3, <2>4 DEF Restart
<1>3. ASSUME NEW c \in Callers, StartProxyService(c) PROVE FailedInv'
  <2>1. CASE StartCheck(c)
    <3>1. CASE server # None /\ Return(c)
      BY <2>1, <3>1 DEF StartCheck, Return, Continue
    <3>2. CASE server = None /\ Continue(c, "ticker")
      BY <2>1, <3>2 DEF StartCheck, Return, Continue
    <3> QED
      BY <2>1, <3>1, <3>2 DEF StartCheck
  <2>2. CASE TickerCheck(c)
    <3>1. CASE Return(c)
      BY <2>2, <3>1 DEF TickerCheck, Return, Continue
    <3>2. CASE rateStop = None /\ Continue(c, "ticker_set")
      BY <2>2, <3>2 DEF TickerCheck, Return, Continue
    <3> QED
      BY <2>2, <3>1, <3>2 DEF TickerCheck
  <2>3. CASE TickerSet(c)
    BY <2>3 DEF TickerSet, Goto
  <2>4. CASE Serve(c)
    BY <2>4 DEF Serve, Goto, MainState
  <2>5. CASE ConfigureHTTP2(c)
    <3>1. CASE Return(c)
      BY <2>5, <3>1 DEF ConfigureHTTP2, Return, Continue
    <3>2. CASE Continue(c, "run_tls")
      BY <2>5, <3>2 DEF ConfigureHTTP2, Return, Continue
    <3> QED
      BY <2>5, <3>1, <3>2 DEF ConfigureHTTP2
  <2>6. CASE RunPlain(c)
    BY <2>6 DEF RunPlain, Goto
  <2>7. CASE RunTLS(c)
    BY <2>7 DEF RunTLS, Spawn, Sock
  <2>8. CASE AssignRedirect(c)
    BY <2>8 DEF AssignRedirect, Goto
  <2>9. CASE Launch(c)
    BY <2>9 DEF Launch, LaunchFor, Goto, MainState
  <2>10. CASE SecCheck(c)
    BY <2>10 DEF SecCheck, Goto
  <2>11. CASE SecStore(c)
    <3>1. cur[c] \in Addrs
      BY <2>11 DEF SecStore, Goto, CurSet
    <3> QED
      BY <2>11, <3>1, KindFacts DEF SecStore, Goto, Spawn, Sock
  <2>12. CASE SecDone(c)
    BY <2>12 DEF SecDone, Return
  <2> QED
    BY <1>3, <2>1, <2>2, <2>3, <2>4, <2>5, <2>6, <2>7, <2>8, <2>9, <2>10, <2>11, <2>12 DEF StartProxyService
<1>4. ASSUME NEW c \in Callers, UpdateSecondaryListeners(c) PROVE FailedInv'
  <2>1. CASE UpdateCheck(c)
    <3>1. CASE running
      BY <2>1, <3>1 DEF UpdateCheck, Goto
    <3>2. CASE ~running
      BY <2>1, <3>2 DEF UpdateCheck, Goto
    <3> QED
      BY <2>1, <3>1, <3>2 DEF UpdateCheck
  <2>2. CASE UpdateLock(c)
    BY <2>2 DEF UpdateLock, Goto
  <2>3. CASE UpdateStop(c)
    BY <2>3 DEF UpdateStop, Told
  <2>4. CASE UpdateUnlock(c)
    BY <2>4 DEF UpdateUnlock, Goto
  <2> QED
    BY <1>4, <2>1, <2>2, <2>3, <2>4 DEF UpdateSecondaryListeners
<1>5. ASSUME NEW c \in Callers, StopProxyService(c) PROVE FailedInv'
  <2>1. CASE StopCheck(c)
    <3>1. CASE NothingToStop /\ Return(c)
      BY <2>1, <3>1 DEF StopCheck, Return, Continue, NothingToStop
    <3>2. CASE ~NothingToStop /\ Continue(c, "stop_main")
      BY <2>1, <3>2 DEF StopCheck, Return, Continue, NothingToStop
    <3> QED
      BY <2>1, <3>1, <3>2 DEF StopCheck
  <2>2. CASE StopMain(c)
    BY <2>2 DEF StopMain, Stopper, Goto
  <2>3. CASE StopSecondaries(c)
    BY <2>3 DEF StopSecondaries, Goto
  <2>4. CASE StopRate(c)
    BY <2>4 DEF StopRate, StopAlso, Goto
  <2>5. CASE StopWaited(c)
    BY <2>5 DEF StopWaited, StopDone, Goto
  <2>6. CASE StopClear(c)
    BY <2>6 DEF StopClear, StopEnd, Goto
  <2> QED
    BY <1>5, <2>1, <2>2, <2>3, <2>4, <2>5, <2>6 DEF StopProxyService
<1>6. ASSUME NEW c \in Callers, Deliver(c) PROVE FailedInv'
  BY <1>6 DEF Deliver, Told
<1>7. ASSUME NEW c \in Callers, MainShutdown(c) PROVE FailedInv'
  BY <1>7 DEF MainShutdown
<1>8. ASSUME NEW s \in Servers, MainListen(s) PROVE FailedInv'
  BY <1>8 DEF MainListen
<1>9. ASSUME NEW ch \in Chan, ChanStep(ch) PROVE FailedInv'
  <2>1. CASE Listen(ch)
    BY <2>1 DEF Listen
  <2>2. CASE RedirectFailSend(ch)
    <3>1. ch \in Redirects \cap recv
      BY <2>2 DEF RedirectFailSend
    <3>2. \A c \in Callers : Known(c, ch) /\ (pc[c] \in Shutting => ch \in sends[c])
      BY <3>1
    <3>3. (recv \ {ch}) \cap Redirects = {}
      BY <3>1, CallersAssumption
    <3> QED
      BY <2>2, <3>1, <3>2, <3>3 DEF RedirectFailSend, Told
  <2>3. CASE RedirectFailReset(ch)
    BY <2>3 DEF RedirectFailReset
  <2>4. CASE WaiterShutdown(ch)
    BY <2>4 DEF WaiterShutdown
  <2>5. CASE TickerStop(ch)
    BY <2>5 DEF TickerStop
  <2> QED
    BY <1>9, <2>1, <2>2, <2>3, <2>4, <2>5 DEF ChanStep
<1>10. CASE UNCHANGED vars
  BY <1>10 DEF vars
<1> QED
  BY <1>1, <1>2, <1>3, <1>4, <1>5, <1>6, <1>7, <1>8, <1>9, <1>10 DEF Next, CallerStep

LEMMA RedirectNext ==
    Serial /\ TypeInv /\ ServerInv /\ ListenerInv /\ RedirectInv /\ [Next]_vars
    => RedirectInv'
BY KnownNext, FailedNext DEF RedirectInv

\* Until a Stop has read the maps, what they hold has a receiver.
HeldInv ==
    /\ \A c \in Callers : \/ pc[c] \in {"stop_rate", "stop_wait", "stop_clear"}
                          \/ \A a \in Addrs : secondary[a] \in recv \cup {None}
    /\ \A c \in Callers : pc[c] = "stop_sec" => sends[c] \subseteq Redirects

LEMMA HeldNext == Serial /\ TypeInv /\ ListenerInv /\ KnownInv /\ FailedInv /\ HeldInv /\ [Next]_vars => HeldInv'
<1> SUFFICES ASSUME Serial, TypeInv, ListenerInv, KnownInv, FailedInv, HeldInv, [Next]_vars PROVE HeldInv'
  OBVIOUS
<1> USE NoneAssumption, KindFacts DEF HeldInv, ListenerInv, ListenersOwned, KnownInv, FailedInv, Known, TypeInv,
      TypeOK, CurSet, Serial, Creating, Shutting, options,
      fields, goroutines, locals
<1>1. ASSUME NEW c \in Callers, Request(c) PROVE HeldInv'
  <2>1. CASE HandleOnOff(c)
    BY <2>1 DEF HandleOnOff, Begin, Goto
  <2>2. CASE HandleRestart(c)
    BY <2>2 DEF HandleRestart, Begin, Goto
  <2>3. CASE UpdateTLSSetting(c)
    BY <2>3 DEF UpdateTLSSetting, Begin, Goto
  <2>4. CASE UpdatePort80ListenerState(c)
    BY <2>4 DEF UpdatePort80ListenerState, Begin, Goto
  <2>5. CASE HandleSetListeningPorts(c)
    BY <2>5 DEF HandleSetListeningPorts, Begin, Goto
  <2>6. CASE EditEndpoint(c)
    BY <2>6 DEF EditEndpoint, Begin, Goto
  <2> QED
    BY <1>1, <2>1, <2>2, <2>3, <2>4, <2>5, <2>6 DEF Request
<1>2. ASSUME NEW c \in Callers, Restart(c) PROVE HeldInv'
  <2>1. CASE RestartCheck(c)
    <3>1. CASE restarting /\ Return(c)
      BY <2>1, <3>1 DEF RestartCheck, Return, Continue
    <3>2. CASE ~restarting /\ Continue(c, "restart_set")
      BY <2>1, <3>2 DEF RestartCheck, Return, Continue
    <3> QED
      BY <2>1, <3>1, <3>2 DEF RestartCheck
  <2>2. CASE RestartSet(c)
    BY <2>2 DEF RestartSet, Goto
  <2>3. CASE RestartRun(c)
    <3>1. CASE running
      BY <2>3, <3>1 DEF RestartRun, RestartTo, Goto
    <3>2. CASE ~running
      BY <2>3, <3>2 DEF RestartRun, RestartTo, Goto
    <3> QED
      BY <2>3, <3>1, <3>2 DEF RestartRun
  <2>4. CASE Sleep(c)
    BY <2>4 DEF Sleep, Goto
  <2> QED
    BY <1>2, <2>1, <2>2, <2>3, <2>4 DEF Restart
<1>3. ASSUME NEW c \in Callers, StartProxyService(c) PROVE HeldInv'
  <2>1. CASE StartCheck(c)
    <3>1. CASE server # None /\ Return(c)
      BY <2>1, <3>1 DEF StartCheck, Return, Continue
    <3>2. CASE server = None /\ Continue(c, "ticker")
      BY <2>1, <3>2 DEF StartCheck, Return, Continue
    <3> QED
      BY <2>1, <3>1, <3>2 DEF StartCheck
  <2>2. CASE TickerCheck(c)
    <3>1. CASE Return(c)
      BY <2>2, <3>1 DEF TickerCheck, Return, Continue
    <3>2. CASE rateStop = None /\ Continue(c, "ticker_set")
      BY <2>2, <3>2 DEF TickerCheck, Return, Continue
    <3> QED
      BY <2>2, <3>1, <3>2 DEF TickerCheck
  <2>3. CASE TickerSet(c)
    BY <2>3 DEF TickerSet, Goto
  <2>4. CASE Serve(c)
    BY <2>4 DEF Serve, Goto, MainState
  <2>5. CASE ConfigureHTTP2(c)
    <3>1. CASE Return(c)
      BY <2>5, <3>1 DEF ConfigureHTTP2, Return, Continue
    <3>2. CASE Continue(c, "run_tls")
      BY <2>5, <3>2 DEF ConfigureHTTP2, Return, Continue
    <3> QED
      BY <2>5, <3>1, <3>2 DEF ConfigureHTTP2
  <2>6. CASE RunPlain(c)
    BY <2>6 DEF RunPlain, Goto
  <2>7. CASE RunTLS(c)
    BY <2>7 DEF RunTLS, Spawn, Sock
  <2>8. CASE AssignRedirect(c)
    BY <2>8 DEF AssignRedirect, Goto
  <2>9. CASE Launch(c)
    BY <2>9 DEF Launch, LaunchFor, Goto, MainState
  <2>10. CASE SecCheck(c)
    BY <2>10 DEF SecCheck, Goto
  <2>11. CASE SecStore(c)
    BY <2>11 DEF SecStore, Goto, Spawn, Sock
  <2>12. CASE SecDone(c)
    BY <2>12 DEF SecDone, Return
  <2> QED
    BY <1>3, <2>1, <2>2, <2>3, <2>4, <2>5, <2>6, <2>7, <2>8, <2>9, <2>10, <2>11, <2>12 DEF StartProxyService
<1>4. ASSUME NEW c \in Callers, UpdateSecondaryListeners(c) PROVE HeldInv'
  <2>1. CASE UpdateCheck(c)
    <3>1. CASE running
      BY <2>1, <3>1 DEF UpdateCheck, Goto
    <3>2. CASE ~running
      BY <2>1, <3>2 DEF UpdateCheck, Goto
    <3> QED
      BY <2>1, <3>1, <3>2 DEF UpdateCheck
  <2>2. CASE UpdateLock(c)
    BY <2>2 DEF UpdateLock, Goto
  <2>3. CASE UpdateStop(c)
    BY <2>3 DEF UpdateStop, Told
  <2>4. CASE UpdateUnlock(c)
    BY <2>4 DEF UpdateUnlock, Goto
  <2> QED
    BY <1>4, <2>1, <2>2, <2>3, <2>4 DEF UpdateSecondaryListeners
<1>5. ASSUME NEW c \in Callers, StopProxyService(c) PROVE HeldInv'
  <2>1. CASE StopCheck(c)
    <3>1. CASE NothingToStop /\ Return(c)
      BY <2>1, <3>1 DEF StopCheck, Return, Continue, NothingToStop
    <3>2. CASE ~NothingToStop /\ Continue(c, "stop_main")
      BY <2>1, <3>2 DEF StopCheck, Return, Continue, NothingToStop
    <3> QED
      BY <2>1, <3>1, <3>2 DEF StopCheck
  <2>2. CASE StopMain(c)
    BY <2>2 DEF StopMain, Stopper, Goto
  <2>3. CASE StopSecondaries(c)
    BY <2>3 DEF StopSecondaries, Goto
  <2>4. CASE StopRate(c)
    BY <2>4 DEF StopRate, StopAlso, Goto
  <2>5. CASE StopWaited(c)
    BY <2>5 DEF StopWaited, StopDone, Goto
  <2>6. CASE StopClear(c)
    BY <2>6 DEF StopClear, StopEnd, Goto
  <2> QED
    BY <1>5, <2>1, <2>2, <2>3, <2>4, <2>5, <2>6 DEF StopProxyService
<1>6. ASSUME NEW c \in Callers, Deliver(c) PROVE HeldInv'
  BY <1>6 DEF Deliver, Told
<1>7. ASSUME NEW c \in Callers, MainShutdown(c) PROVE HeldInv'
  BY <1>7 DEF MainShutdown
<1>8. ASSUME NEW s \in Servers, MainListen(s) PROVE HeldInv'
  BY <1>8 DEF MainListen
<1>9. ASSUME NEW ch \in Chan, ChanStep(ch) PROVE HeldInv'
  <2>1. CASE Listen(ch)
    BY <2>1 DEF Listen
  <2>2. CASE RedirectFailSend(ch)
    BY <2>2 DEF RedirectFailSend, Told
  <2>3. CASE RedirectFailReset(ch)
    BY <2>3 DEF RedirectFailReset
  <2>4. CASE WaiterShutdown(ch)
    BY <2>4 DEF WaiterShutdown
  <2>5. CASE TickerStop(ch)
    BY <2>5 DEF TickerStop
  <2> QED
    BY <1>9, <2>1, <2>2, <2>3, <2>4, <2>5 DEF ChanStep
<1>10. CASE UNCHANGED vars
  BY <1>10 DEF vars
<1> QED
  BY <1>1, <1>2, <1>3, <1>4, <1>5, <1>6, <1>7, <1>8, <1>9, <1>10 DEF Next, CallerStep

\* What holds of one caller, whatever is left over from earlier requests.
LoneInv == TypeInv /\ SerialInv /\ RedirectInv /\ HeldInv

LEMMA LoneInit == Init => LoneInv
<1> SUFFICES ASSUME Init PROVE LoneInv
  OBVIOUS
<1>1. TypeInv /\ SerialInv
  BY TypeInit, SerialInit
<1>2. KnownInv
  BY NoneAssumption, KindFacts DEF Init, KnownInv, Known, Creating, Shutting
<1>3. FailedInv
  BY KindFacts DEF Init, FailedInv, Known
<1>4. HeldInv
  BY DEF Init, HeldInv
<1> QED
  BY <1>1, <1>2, <1>3, <1>4 DEF LoneInv, RedirectInv

LEMMA LoneNext == Serial /\ LoneInv /\ [Next]_vars => LoneInv'
BY TypeNext, SerialNext, RedirectNext, HeldNext DEF LoneInv, SerialInv, RedirectInv

\* For a lone administrator a redirector that waits for its stop signal can always
\* be given it, even when port 80 is taken or denied, the redirector fails at any
\* moment of a start or a stop, and earlier ones are still closing.
THEOREM RedirectorReached ==
    ASSUME Serial
    PROVE  Spec => []RedirectOwned
<1>1. LoneInv => RedirectOwned
  <2> SUFFICES ASSUME LoneInv, NEW i \in Ids, <<"redirect", i>> \in recv
               PROVE  \/ redirectStop = <<"redirect", i>>
                      \/ \E c \in Callers : made[c] = <<"redirect", i>>
    BY DEF RedirectOwned
  <2>1. <<"redirect", i>> \in Redirects
    BY DEF Redirects
  <2>2. \A c \in Callers : redirectStop = <<"redirect", i>> \/ made[c] = <<"redirect", i>>
    BY <2>1 DEF LoneInv, RedirectInv, FailedInv
  <2> QED
    BY <2>2, CallersAssumption
<1> QED
  BY <1>1, Serial, LoneInit, LoneNext, PTL DEF Spec

\* For a lone administrator, UpdateSecondaryListeners never holds the mutex while it
\* sends to a listener that has already gone, even when listeners and redirectors of
\* earlier starts fail and close in the meantime.
THEOREM LoneUpdateHeard ==
    ASSUME Serial
    PROVE  Spec => []HeldSendIsHeard
<1>1. LoneInv => HeldSendIsHeard
  BY DEF LoneInv, HeldInv, HeldSendIsHeard
<1> QED
  BY <1>1, Serial, LoneInit, LoneNext, PTL DEF Spec

-----------------------------------------------------------------------------
(* One administrator who does not edit endpoints: the secondary listeners *)

\* The maps are filled only while there is a server, and a Start finds them empty.
MapsInv ==
    /\ \A c \in Callers :
          pc[c] \in {"sec", "sec_store", "upd_lock", "upd_scan"} => server # None
    /\ \A c \in Callers : server = None /\ pc[c] # "stop_clear"
          => \A a \in Addrs : secondary[a] = None
    /\ \A c \in Callers : pc[c] \in Launching
          => \A a \in Addrs : secondary[a] = None
    /\ \A c \in Callers : pc[c] \in Creating \cup {"sleep"} => ~running

LEMMA MapsNext == Serial /\ TypeInv /\ ServerInv /\ MapsInv /\ [Next]_vars => MapsInv'
<1> SUFFICES ASSUME Serial, TypeInv, ServerInv, MapsInv, [Next]_vars PROVE MapsInv'
  OBVIOUS
<1> USE NoneAssumption DEF MapsInv, TypeInv, TypeOK, CurSet, Serial, ServerInv,
      RunningHasServer, Launching, Creating, Shutting, options,
      fields, goroutines, locals
<1>1. ASSUME NEW c \in Callers, Request(c) PROVE MapsInv'
  <2>1. CASE HandleOnOff(c)
    BY <2>1 DEF HandleOnOff, Begin, Goto
  <2>2. CASE HandleRestart(c)
    BY <2>2 DEF HandleRestart, Begin, Goto
  <2>3. CASE UpdateTLSSetting(c)
    BY <2>3 DEF UpdateTLSSetting, Begin, Goto
  <2>4. CASE UpdatePort80ListenerState(c)
    BY <2>4 DEF UpdatePort80ListenerState, Begin, Goto
  <2>5. CASE HandleSetListeningPorts(c)
    BY <2>5 DEF HandleSetListeningPorts, Begin, Goto
  <2>6. CASE EditEndpoint(c)
    BY <2>6 DEF EditEndpoint, Begin, Goto
  <2> QED
    BY <1>1, <2>1, <2>2, <2>3, <2>4, <2>5, <2>6 DEF Request
<1>2. ASSUME NEW c \in Callers, Restart(c) PROVE MapsInv'
  <2>1. CASE RestartCheck(c)
    <3>1. CASE restarting /\ Return(c)
      BY <2>1, <3>1 DEF RestartCheck, Return, Continue
    <3>2. CASE ~restarting /\ Continue(c, "restart_set")
      BY <2>1, <3>2 DEF RestartCheck, Return, Continue
    <3> QED
      BY <2>1, <3>1, <3>2 DEF RestartCheck
  <2>2. CASE RestartSet(c)
    BY <2>2 DEF RestartSet, Goto
  <2>3. CASE RestartRun(c)
    <3>1. CASE running
      BY <2>3, <3>1 DEF RestartRun, RestartTo, Goto
    <3>2. CASE ~running
      BY <2>3, <3>2 DEF RestartRun, RestartTo, Goto
    <3> QED
      BY <2>3, <3>1, <3>2 DEF RestartRun
  <2>4. CASE Sleep(c)
    BY <2>4 DEF Sleep, Goto
  <2> QED
    BY <1>2, <2>1, <2>2, <2>3, <2>4 DEF Restart
<1>3. ASSUME NEW c \in Callers, StartProxyService(c) PROVE MapsInv'
  <2>1. CASE StartCheck(c)
    <3>1. CASE server # None /\ Return(c)
      BY <2>1, <3>1 DEF StartCheck, Return, Continue
    <3>2. CASE server = None /\ Continue(c, "ticker")
      BY <2>1, <3>2 DEF StartCheck, Return, Continue
    <3> QED
      BY <2>1, <3>1, <3>2 DEF StartCheck
  <2>2. CASE TickerCheck(c)
    <3>1. CASE Return(c)
      BY <2>2, <3>1 DEF TickerCheck, Return, Continue
    <3>2. CASE rateStop = None /\ Continue(c, "ticker_set")
      BY <2>2, <3>2 DEF TickerCheck, Return, Continue
    <3> QED
      BY <2>2, <3>1, <3>2 DEF TickerCheck
  <2>3. CASE TickerSet(c)
    BY <2>3 DEF TickerSet, Goto
  <2>4. CASE Serve(c)
    BY <2>4 DEF Serve, Goto, MainState
  <2>5. CASE ConfigureHTTP2(c)
    <3>1. CASE Return(c)
      BY <2>5, <3>1 DEF ConfigureHTTP2, Return, Continue
    <3>2. CASE Continue(c, "run_tls")
      BY <2>5, <3>2 DEF ConfigureHTTP2, Return, Continue
    <3> QED
      BY <2>5, <3>1, <3>2 DEF ConfigureHTTP2
  <2>6. CASE RunPlain(c)
    BY <2>6 DEF RunPlain, Goto
  <2>7. CASE RunTLS(c)
    BY <2>7 DEF RunTLS, Spawn, Sock
  <2>8. CASE AssignRedirect(c)
    BY <2>8 DEF AssignRedirect, Goto
  <2>9. CASE Launch(c)
    BY <2>9 DEF Launch, LaunchFor, Goto, MainState
  <2>10. CASE SecCheck(c)
    BY <2>10 DEF SecCheck, Goto
  <2>11. CASE SecStore(c)
    BY <2>11 DEF SecStore, Goto, Spawn, Sock
  <2>12. CASE SecDone(c)
    BY <2>12 DEF SecDone, Return
  <2> QED
    BY <1>3, <2>1, <2>2, <2>3, <2>4, <2>5, <2>6, <2>7, <2>8, <2>9, <2>10, <2>11, <2>12 DEF StartProxyService
<1>4. ASSUME NEW c \in Callers, UpdateSecondaryListeners(c) PROVE MapsInv'
  <2>1. CASE UpdateCheck(c)
    <3>1. CASE running
      BY <2>1, <3>1 DEF UpdateCheck, Goto
    <3>2. CASE ~running
      BY <2>1, <3>2 DEF UpdateCheck, Goto
    <3> QED
      BY <2>1, <3>1, <3>2 DEF UpdateCheck
  <2>2. CASE UpdateLock(c)
    BY <2>2 DEF UpdateLock, Goto
  <2>3. CASE UpdateStop(c)
    BY <2>3 DEF UpdateStop, Told
  <2>4. CASE UpdateUnlock(c)
    BY <2>4 DEF UpdateUnlock, Goto
  <2> QED
    BY <1>4, <2>1, <2>2, <2>3, <2>4 DEF UpdateSecondaryListeners
<1>5. ASSUME NEW c \in Callers, StopProxyService(c) PROVE MapsInv'
  <2>1. CASE StopCheck(c)
    <3>1. CASE NothingToStop /\ Return(c)
      BY <2>1, <3>1 DEF StopCheck, Return, Continue, NothingToStop
    <3>2. CASE ~NothingToStop /\ Continue(c, "stop_main")
      BY <2>1, <3>2 DEF StopCheck, Return, Continue, NothingToStop
    <3> QED
      BY <2>1, <3>1, <3>2 DEF StopCheck
  <2>2. CASE StopMain(c)
    BY <2>2 DEF StopMain, Stopper, Goto
  <2>3. CASE StopSecondaries(c)
    BY <2>3 DEF StopSecondaries, Goto
  <2>4. CASE StopRate(c)
    BY <2>4 DEF StopRate, StopAlso, Goto
  <2>5. CASE StopWaited(c)
    BY <2>5 DEF StopWaited, StopDone, Goto
  <2>6. CASE StopClear(c)
    BY <2>6 DEF StopClear, StopEnd, Goto
  <2> QED
    BY <1>5, <2>1, <2>2, <2>3, <2>4, <2>5, <2>6 DEF StopProxyService
<1>6. ASSUME NEW c \in Callers, Deliver(c) PROVE MapsInv'
  BY <1>6 DEF Deliver, Told
<1>7. ASSUME NEW c \in Callers, MainShutdown(c) PROVE MapsInv'
  BY <1>7 DEF MainShutdown
<1>8. ASSUME NEW s \in Servers, MainListen(s) PROVE MapsInv'
  BY <1>8 DEF MainListen
<1>9. ASSUME NEW ch \in Chan, ChanStep(ch) PROVE MapsInv'
  <2>1. CASE Listen(ch)
    BY <2>1 DEF Listen
  <2>2. CASE RedirectFailSend(ch)
    BY <2>2 DEF RedirectFailSend, Told
  <2>3. CASE RedirectFailReset(ch)
    BY <2>3 DEF RedirectFailReset
  <2>4. CASE WaiterShutdown(ch)
    BY <2>4 DEF WaiterShutdown
  <2>5. CASE TickerStop(ch)
    BY <2>5 DEF TickerStop
  <2> QED
    BY <1>9, <2>1, <2>2, <2>3, <2>4, <2>5 DEF ChanStep
<1>10. CASE UNCHANGED vars
  BY <1>10 DEF vars
<1> QED
  BY <1>1, <1>2, <1>3, <1>4, <1>5, <1>6, <1>7, <1>8, <1>9, <1>10 DEF Next, CallerStep

\* What listens, with what startSecondaryListeners has still to do, is what the
\* router last read.
PortsInv ==
    /\ \A c \in Callers :
          running /\ pc[c] \in {"idle", "restart", "restart_set", "restart_run",
                                "start", "stop"}
          => Listening = known
    /\ \A c \in Callers : pc[c] = "sec" => Listening \cup todo[c] = known
    /\ \A c \in Callers : pc[c] = "sec_store"
          => Listening \cup todo[c] \cup {cur[c]} = known
    /\ \A c \in Callers : pc[c] \in {"upd_lock", "upd_scan"} => todo[c] = ports

LEMMA PortsNext == Serial /\ TypeInv /\ ServerInv /\ MapsInv /\ PortsInv /\ [Next]_vars => PortsInv'
<1> SUFFICES ASSUME Serial, TypeInv, ServerInv, MapsInv, PortsInv, [Next]_vars PROVE PortsInv'
  OBVIOUS
<1> USE NoneAssumption DEF PortsInv, Listening, MapsInv, TypeInv, TypeOK, CurSet, Serial, ServerInv,
      RunningHasServer, Launching, Creating, Shutting, options,
      fields, goroutines, locals
<1>1. ASSUME NEW c \in Callers, Request(c) PROVE PortsInv'
  <2>1. CASE HandleOnOff(c)
    BY <2>1 DEF HandleOnOff, Begin, Goto
  <2>2. CASE HandleRestart(c)
    BY <2>2 DEF HandleRestart, Begin, Goto
  <2>3. CASE UpdateTLSSetting(c)
    BY <2>3 DEF UpdateTLSSetting, Begin, Goto
  <2>4. CASE UpdatePort80ListenerState(c)
    BY <2>4 DEF UpdatePort80ListenerState, Begin, Goto
  <2>5. CASE HandleSetListeningPorts(c)
    BY <2>5 DEF HandleSetListeningPorts, Begin, Goto
  <2>6. CASE EditEndpoint(c)
    BY <2>6 DEF EditEndpoint, Begin, Goto
  <2> QED
    BY <1>1, <2>1, <2>2, <2>3, <2>4, <2>5, <2>6 DEF Request
<1>2. ASSUME NEW c \in Callers, Restart(c) PROVE PortsInv'
  <2>1. CASE RestartCheck(c)
    <3>1. CASE restarting /\ Return(c)
      BY <2>1, <3>1 DEF RestartCheck, Return, Continue
    <3>2. CASE ~restarting /\ Continue(c, "restart_set")
      BY <2>1, <3>2 DEF RestartCheck, Return, Continue
    <3> QED
      BY <2>1, <3>1, <3>2 DEF RestartCheck
  <2>2. CASE RestartSet(c)
    BY <2>2 DEF RestartSet, Goto
  <2>3. CASE RestartRun(c)
    <3>1. CASE running
      BY <2>3, <3>1 DEF RestartRun, RestartTo, Goto
    <3>2. CASE ~running
      BY <2>3, <3>2 DEF RestartRun, RestartTo, Goto
    <3> QED
      BY <2>3, <3>1, <3>2 DEF RestartRun
  <2>4. CASE Sleep(c)
    BY <2>4 DEF Sleep, Goto
  <2> QED
    BY <1>2, <2>1, <2>2, <2>3, <2>4 DEF Restart
<1>3. ASSUME NEW c \in Callers, StartProxyService(c) PROVE PortsInv'
  <2>1. CASE StartCheck(c)
    <3>1. CASE server # None /\ Return(c)
      BY <2>1, <3>1 DEF StartCheck, Return, Continue
    <3>2. CASE server = None /\ Continue(c, "ticker")
      BY <2>1, <3>2 DEF StartCheck, Return, Continue
    <3> QED
      BY <2>1, <3>1, <3>2 DEF StartCheck
  <2>2. CASE TickerCheck(c)
    <3>1. CASE Return(c)
      BY <2>2, <3>1 DEF TickerCheck, Return, Continue
    <3>2. CASE rateStop = None /\ Continue(c, "ticker_set")
      BY <2>2, <3>2 DEF TickerCheck, Return, Continue
    <3> QED
      BY <2>2, <3>1, <3>2 DEF TickerCheck
  <2>3. CASE TickerSet(c)
    BY <2>3 DEF TickerSet, Goto
  <2>4. CASE Serve(c)
    BY <2>4 DEF Serve, Goto, MainState
  <2>5. CASE ConfigureHTTP2(c)
    <3>1. CASE Return(c)
      BY <2>5, <3>1 DEF ConfigureHTTP2, Return, Continue
    <3>2. CASE Continue(c, "run_tls")
      BY <2>5, <3>2 DEF ConfigureHTTP2, Return, Continue
    <3> QED
      BY <2>5, <3>1, <3>2 DEF ConfigureHTTP2
  <2>6. CASE RunPlain(c)
    BY <2>6 DEF RunPlain, Goto
  <2>7. CASE RunTLS(c)
    BY <2>7 DEF RunTLS, Spawn, Sock
  <2>8. CASE AssignRedirect(c)
    BY <2>8 DEF AssignRedirect, Goto
  <2>9. CASE Launch(c)
    BY <2>9 DEF Launch, LaunchFor, Goto, MainState
  <2>10. CASE SecCheck(c)
    BY <2>10 DEF SecCheck, Goto
  <2>11. CASE SecStore(c)
    <3>1. PICK ch \in {cur[c]} \X Ids :
              secondary' = [secondary EXCEPT ![cur[c]] = ch]
      BY <2>11 DEF SecStore
    <3>2. cur[c] \in Addrs /\ ch # None /\ ch \in Chan
      BY <2>11, <3>1, ChanKinds DEF SecStore, Goto
    <3>3. Listening' = Listening \cup {cur[c]}
      BY <3>1, <3>2
    <3>4. pc[c] = "sec_store" /\ pc' = [pc EXCEPT ![c] = "sec"] /\ UNCHANGED <<todo, ports, known, running>>
      BY <2>11 DEF SecStore, Goto
    <3> QED
      BY <3>3, <3>4
  <2>12. CASE SecDone(c)
    BY <2>12 DEF SecDone, Return
  <2> QED
    BY <1>3, <2>1, <2>2, <2>3, <2>4, <2>5, <2>6, <2>7, <2>8, <2>9, <2>10, <2>11, <2>12 DEF StartProxyService
<1>4. ASSUME NEW c \in Callers, UpdateSecondaryListeners(c) PROVE PortsInv'
  <2>1. CASE UpdateCheck(c)
    <3>1. CASE running
      BY <2>1, <3>1 DEF UpdateCheck, Goto
    <3>2. CASE ~running
      BY <2>1, <3>2 DEF UpdateCheck, Goto
    <3> QED
      BY <2>1, <3>1, <3>2 DEF UpdateCheck
  <2>2. CASE UpdateLock(c)
    BY <2>2 DEF UpdateLock, Goto
  <2>3. CASE UpdateStop(c)
    BY <2>3 DEF UpdateStop, Told
  <2>4. CASE UpdateUnlock(c)
    BY <2>4 DEF UpdateUnlock, Goto
  <2> QED
    BY <1>4, <2>1, <2>2, <2>3, <2>4 DEF UpdateSecondaryListeners
<1>5. ASSUME NEW c \in Callers, StopProxyService(c) PROVE PortsInv'
  <2>1. CASE StopCheck(c)
    <3>1. CASE NothingToStop /\ Return(c)
      BY <2>1, <3>1 DEF StopCheck, Return, Continue, NothingToStop
    <3>2. CASE ~NothingToStop /\ Continue(c, "stop_main")
      BY <2>1, <3>2 DEF StopCheck, Return, Continue, NothingToStop
    <3> QED
      BY <2>1, <3>1, <3>2 DEF StopCheck
  <2>2. CASE StopMain(c)
    BY <2>2 DEF StopMain, Stopper, Goto
  <2>3. CASE StopSecondaries(c)
    BY <2>3 DEF StopSecondaries, Goto
  <2>4. CASE StopRate(c)
    BY <2>4 DEF StopRate, StopAlso, Goto
  <2>5. CASE StopWaited(c)
    BY <2>5 DEF StopWaited, StopDone, Goto
  <2>6. CASE StopClear(c)
    BY <2>6 DEF StopClear, StopEnd, Goto
  <2> QED
    BY <1>5, <2>1, <2>2, <2>3, <2>4, <2>5, <2>6 DEF StopProxyService
<1>6. ASSUME NEW c \in Callers, Deliver(c) PROVE PortsInv'
  BY <1>6 DEF Deliver, Told
<1>7. ASSUME NEW c \in Callers, MainShutdown(c) PROVE PortsInv'
  BY <1>7 DEF MainShutdown
<1>8. ASSUME NEW s \in Servers, MainListen(s) PROVE PortsInv'
  BY <1>8 DEF MainListen
<1>9. ASSUME NEW ch \in Chan, ChanStep(ch) PROVE PortsInv'
  <2>1. CASE Listen(ch)
    BY <2>1 DEF Listen
  <2>2. CASE RedirectFailSend(ch)
    BY <2>2 DEF RedirectFailSend, Told
  <2>3. CASE RedirectFailReset(ch)
    BY <2>3 DEF RedirectFailReset
  <2>4. CASE WaiterShutdown(ch)
    BY <2>4 DEF WaiterShutdown
  <2>5. CASE TickerStop(ch)
    BY <2>5 DEF TickerStop
  <2> QED
    BY <1>9, <2>1, <2>2, <2>3, <2>4, <2>5 DEF ChanStep
<1>10. CASE UNCHANGED vars
  BY <1>10 DEF vars
<1> QED
  BY <1>1, <1>2, <1>3, <1>4, <1>5, <1>6, <1>7, <1>8, <1>9, <1>10 DEF Next, CallerStep

\* For a lone administrator a running router that answers no request has a
\* secondary listener for each address it last read from the endpoints and for no
\* other, whatever starts, restarts that were refused or that failed, stops, edits of
\* endpoints and changes of listening ports, saved or not, came before.
THEOREM ListenersAsConfigured ==
    ASSUME Serial
    PROVE  Spec => []ListensAsRead
<1> DEFINE IInv == LoneInv /\ MapsInv /\ PortsInv
<1>1. Init => IInv
  BY LoneInit DEF Init, MapsInv, PortsInv, Launching, Creating
<1>2. IInv /\ [Next]_vars => IInv'
  BY Serial, LoneNext, MapsNext, PortsNext DEF LoneInv, SerialInv
<1>3. IInv => ListensAsRead
  BY CallersAssumption DEF PortsInv, ListensAsRead, Listening, Idle
<1> HIDE DEF IInv
<1> QED
  BY <1>1, <1>2, <1>3, PTL DEF Spec

-----------------------------------------------------------------------------
(* One quiet administrator, and port 80 to itself: stopping *)

\* What a stop leaves closing is gone before the next start, so that the
\* redirector and the ticker in use are the only ones, a port is never held by
\* an earlier listener, and whatever a field holds has a receiver until a Stop
\* has sent to it.
HeardInv ==
    /\ recv \cap closing = {}
    /\ \A ch \in Chan : sock[ch] \notin {"failed", "told"}
    /\ \A ch \in Chan : sock[ch] # "none" => ch \in (recv \cup closing) \ Tickers
    /\ \A c \in Callers :
          pc[c] \in {"ticker", "ticker_set", "serve"} \cup Launching => closing = {}
    /\ \A ch, other \in Redirects \cap (recv \cup closing) : ch = other
    /\ \A ch, other \in Tickers \cap (recv \cup closing) : ch = other
    /\ \A ch \in Tickers \cap recv : rateStop = ch
    /\ \A c \in Callers : server = None /\ pc[c] # "serve" => rateStop = None
    /\ \A c \in Callers : pc[c] = "stop_wait" /\ rateStop \in recv
          => rateStop \in sends[c]
    /\ \A c \in Callers : pc[c] \in Shutting \/ redirectStop \in recv \cup {None}
    /\ \A c \in Callers : made[c] \in recv \cup {None}
    /\ \A c \in Callers : pc[c] = "stop_wait" \/ rateStop \in recv \cup {None}
    /\ SendsAreHeard
    /\ \A c \in Callers : pc[c] = "stop_rate" => sends[c] \cap Tickers = {}

LEMMA HeardNext == Serial /\ Settled /\ ~Port80MayFail /\ TypeInv /\ ServerInv /\ ListenerInv /\ KnownInv /\ FailedInv /\ HeldInv /\ HeardInv /\ [Next]_vars => HeardInv'
<1> SUFFICES ASSUME Serial, Settled, ~Port80MayFail, TypeInv, ServerInv, ListenerInv, KnownInv, FailedInv, HeldInv, HeardInv, [Next]_vars PROVE HeardInv'
  OBVIOUS
<1> USE NoneAssumption, KindFacts DEF HeardInv, HeldInv, SendsAreHeard, ListenerInv, KnownInv, FailedInv, Known, TypeInv,
      TypeOK, CurSet, Serial, ServerInv, Launching, Creating, Shutting, Quiet, Free, options,
      fields, goroutines, locals
<1>1. ASSUME NEW c \in Callers, Request(c) PROVE HeardInv'
  <2>1. CASE HandleOnOff(c)
    BY <2>1 DEF HandleOnOff, Begin, Goto
  <2>2. CASE HandleRestart(c)
    BY <2>2 DEF HandleRestart, Begin, Goto
  <2>3. CASE UpdateTLSSetting(c)
    BY <2>3 DEF UpdateTLSSetting, Begin, Goto
  <2>4. CASE UpdatePort80ListenerState(c)
    BY <2>4 DEF UpdatePort80ListenerState, Begin, Goto
  <2>5. CASE HandleSetListeningPorts(c)
    BY <2>5 DEF HandleSetListeningPorts, Begin, Goto
  <2>6. CASE EditEndpoint(c)
    BY <2>6 DEF EditEndpoint, Begin, Goto
  <2> QED
    BY <1>1, <2>1, <2>2, <2>3, <2>4, <2>5, <2>6 DEF Request
<1>2. ASSUME NEW c \in Callers, Restart(c) PROVE HeardInv'
  <2>1. CASE RestartCheck(c)
    <3>1. CASE restarting /\ Return(c)
      BY <2>1, <3>1 DEF RestartCheck, Return, Continue
    <3>2. CASE ~restarting /\ Continue(c, "restart_set")
      BY <2>1, <3>2 DEF RestartCheck, Return, Continue
    <3> QED
      BY <2>1, <3>1, <3>2 DEF RestartCheck
  <2>2. CASE RestartSet(c)
    BY <2>2 DEF RestartSet, Goto
  <2>3. CASE RestartRun(c)
    <3>1. CASE running
      BY <2>3, <3>1 DEF RestartRun, RestartTo, Goto
    <3>2. CASE ~running
      BY <2>3, <3>2 DEF RestartRun, RestartTo, Goto
    <3> QED
      BY <2>3, <3>1, <3>2 DEF RestartRun
  <2>4. CASE Sleep(c)
    BY <2>4 DEF Sleep, Goto
  <2> QED
    BY <1>2, <2>1, <2>2, <2>3, <2>4 DEF Restart
<1>3. ASSUME NEW c \in Callers, StartProxyService(c) PROVE HeardInv'
  <2>1. CASE StartCheck(c)
    <3>1. CASE server # None /\ Return(c)
      BY <2>1, <3>1 DEF StartCheck, Return, Continue
    <3>2. CASE server = None /\ Continue(c, "ticker")
      BY <2>1, <3>2 DEF StartCheck, Return, Continue
    <3> QED
      BY <2>1, <3>1, <3>2 DEF StartCheck
  <2>2. CASE TickerCheck(c)
    <3>1. CASE Return(c)
      BY <2>2, <3>1 DEF TickerCheck, Return, Continue
    <3>2. CASE rateStop = None /\ Continue(c, "ticker_set")
      BY <2>2, <3>2 DEF TickerCheck, Return, Continue
    <3> QED
      BY <2>2, <3>1, <3>2 DEF TickerCheck
  <2>3. CASE TickerSet(c)
    BY <2>3 DEF TickerSet, Goto
  <2>4. CASE Serve(c)
    BY <2>4 DEF Serve, Goto, MainState
  <2>5. CASE ConfigureHTTP2(c)
    <3>1. CASE Return(c)
      BY <2>5, <3>1 DEF ConfigureHTTP2, Return, Continue
    <3>2. CASE Continue(c, "run_tls")
      BY <2>5, <3>2 DEF ConfigureHTTP2, Return, Continue
    <3> QED
      BY <2>5, <3>1, <3>2 DEF ConfigureHTTP2
  <2>6. CASE RunPlain(c)
    BY <2>6 DEF RunPlain, Goto
  <2>7. CASE RunTLS(c)
    <3>1. CASE pc' = [pc EXCEPT ![c] = "launch"] /\ UNCHANGED <<recv, sock, made>>
      BY <2>7, <3>1 DEF RunTLS
    <3>2. CASE /\ pc' = [pc EXCEPT ![c] = "assign"]
               /\ \E ch \in {"redirect"} \X Ids :
                     Free(ch) /\ Spawn(ch, "starting") /\ made' = [made EXCEPT ![c] = ch]
      <4>1. PICK ch \in {"redirect"} \X Ids : Free(ch) /\ Spawn(ch, "starting")
        BY <3>2
      <4>2. \A other \in Redirects : other \notin recv \cup closing
        <5>1. pc[c] = "run_tls"
          BY <2>7 DEF RunTLS
        <5>2. redirectStop = None /\ made[c] = None /\ closing = {}
          BY <5>1
        <5>3. \A other \in Redirects : other # None
          BY KindFacts, NoneAssumption
        <5> QED
          BY <5>2, <5>3
      <4> QED
        BY <2>7, <3>2, <4>1, <4>2 DEF RunTLS, Spawn, Sock
    <3> QED
      BY <2>7, <3>1, <3>2 DEF RunTLS
  <2>8. CASE AssignRedirect(c)
    BY <2>8 DEF AssignRedirect, Goto
  <2>9. CASE Launch(c)
    BY <2>9 DEF Launch, LaunchFor, Goto, MainState
  <2>10. CASE SecCheck(c)
    BY <2>10 DEF SecCheck, Goto
  <2>11. CASE SecStore(c)
    BY <2>11 DEF SecStore, Goto, Spawn, Sock
  <2>12. CASE SecDone(c)
    BY <2>12 DEF SecDone, Return
  <2> HIDE DEF HeardInv
  <2> QED
    BY <1>3, <2>1, <2>2, <2>3, <2>4, <2>5, <2>6, <2>7, <2>8, <2>9, <2>10, <2>11, <2>12 DEF StartProxyService
<1>4. ASSUME NEW c \in Callers, UpdateSecondaryListeners(c) PROVE HeardInv'
  <2>1. CASE UpdateCheck(c)
    <3>1. CASE running
      BY <2>1, <3>1 DEF UpdateCheck, Goto
    <3>2. CASE ~running
      BY <2>1, <3>2 DEF UpdateCheck, Goto
    <3> QED
      BY <2>1, <3>1, <3>2 DEF UpdateCheck
  <2>2. CASE UpdateLock(c)
    BY <2>2 DEF UpdateLock, Goto
  <2>3. CASE UpdateStop(c)
    BY <2>3 DEF UpdateStop, Told
  <2>4. CASE UpdateUnlock(c)
    BY <2>4 DEF UpdateUnlock, Goto
  <2> QED
    BY <1>4, <2>1, <2>2, <2>3, <2>4 DEF UpdateSecondaryListeners
<1>5. ASSUME NEW c \in Callers, StopProxyService(c) PROVE HeardInv'
  <2>1. CASE StopCheck(c)
    <3>1. CASE NothingToStop /\ Return(c)
      BY <2>1, <3>1 DEF StopCheck, Return, Continue, NothingToStop
    <3>2. CASE ~NothingToStop /\ Continue(c, "stop_main")
      BY <2>1, <3>2 DEF StopCheck, Return, Continue, NothingToStop
    <3> QED
      BY <2>1, <3>1, <3>2 DEF StopCheck
  <2>2. CASE StopMain(c)
    BY <2>2 DEF StopMain, Stopper, Goto
  <2>3. CASE StopSecondaries(c)
    BY <2>3 DEF StopSecondaries, Goto
  <2>4. CASE StopRate(c)
    BY <2>4 DEF StopRate, StopAlso, Goto
  <2>5. CASE StopWaited(c)
    BY <2>5 DEF StopWaited, StopDone, Goto
  <2>6. CASE StopClear(c)
    BY <2>6 DEF StopClear, StopEnd, Goto
  <2> QED
    BY <1>5, <2>1, <2>2, <2>3, <2>4, <2>5, <2>6 DEF StopProxyService
<1>6. ASSUME NEW c \in Callers, Deliver(c) PROVE HeardInv'
  BY <1>6 DEF Deliver, Told
<1>7. ASSUME NEW c \in Callers, MainShutdown(c) PROVE HeardInv'
  BY <1>7 DEF MainShutdown
<1>8. ASSUME NEW s \in Servers, MainListen(s) PROVE HeardInv'
  BY <1>8 DEF MainListen
<1>9. ASSUME NEW ch \in Chan, ChanStep(ch) PROVE HeardInv'
  <2>1. CASE Listen(ch)
    <3>1. ch \in recv \cup closing /\ ch \notin Tickers
      BY <2>1 DEF Listen
    <3>2. ch \in Redirects => ~Bound("redirect")
      <4> SUFFICES ASSUME ch \in Redirects, NEW i \in Ids,
                          sock[<<"redirect", i>>] = "bound"
                   PROVE  FALSE
        BY DEF Bound
      <4>1. <<"redirect", i>> \in Redirects
        BY DEF Redirects
      <4>2. <<"redirect", i>> \in recv \cup closing
        BY <4>1
      <4>3. <<"redirect", i>> = ch
        BY <3>1, <4>1, <4>2
      <4> QED
        BY <2>1, <4>3 DEF Listen
    <3>3. PICK state \in {"bound", "none"} : sock' = [sock EXCEPT ![ch] = state]
      <4>1. PICK state \in {"bound", IF ch[1] = "redirect" THEN "failed" ELSE "none"} :
               /\ state = "failed" => Port80MayFail \/ Bound(ch[1])
               /\ sock' = [sock EXCEPT ![ch] = state]
        BY <2>1 DEF Listen
      <4>2. state # "failed"
        BY <3>2, <4>1
      <4> QED
        BY <4>1, <4>2
    <3> QED
      BY <2>1, <3>1, <3>3 DEF Listen
  <2>2. CASE RedirectFailSend(ch)
    BY <2>2 DEF RedirectFailSend, Told
  <2>3. CASE RedirectFailReset(ch)
    BY <2>3 DEF RedirectFailReset
  <2>4. CASE WaiterShutdown(ch)
    <3>1. ch \notin Tickers /\ ch \notin recv
      BY <2>4 DEF WaiterShutdown
    <3>2. sock[ch] \in {"none", "starting", "bound"}
      BY DEF Sock
    <3>3. \A other \in Chan :
             sock'[other] = IF other = ch THEN "none" ELSE sock[other]
      BY <2>4, <3>2 DEF WaiterShutdown
    <3> QED
      BY <2>4, <3>1, <3>3 DEF WaiterShutdown
  <2>5. CASE TickerStop(ch)
    BY <2>5 DEF TickerStop
  <2> QED
    BY <1>9, <2>1, <2>2, <2>3, <2>4, <2>5 DEF ChanStep
<1>10. CASE UNCHANGED vars
  BY <1>10 DEF vars
<1> HIDE DEF HeardInv
<1> QED
  BY <1>1, <1>2, <1>3, <1>4, <1>5, <1>6, <1>7, <1>8, <1>9, <1>10 DEF Next, CallerStep

\* For a lone administrator who waits between two clicks, and when nothing else
\* takes port 80: whatever StopProxyService sends to has a receiver, so that it
\* cannot hang, and a stopped router keeps no socket, no waiter and no ticker.
THEOREM StopsCleanly ==
    ASSUME Serial, Settled, ~Port80MayFail
    PROVE  Spec => [](SendsAreHeard /\ StopLeavesNothing)
<1> DEFINE IInv == LoneInv /\ MapsInv /\ HeardInv
<1>1. Init => IInv
  BY LoneInit, NoneAssumption
     DEF Init, MapsInv, HeardInv, SendsAreHeard, Launching, Creating
<1>2. IInv /\ [Next]_vars => IInv'
  BY Serial, Settled, ~Port80MayFail, LoneNext, MapsNext, HeardNext
     DEF LoneInv, SerialInv, RedirectInv
<1>3. IInv => StopLeavesNothing
  <2> SUFFICES ASSUME IInv, Idle, server = None, Quiet
               PROVE  recv = {} /\ \A ch \in Chan : sock[ch] = "none"
    BY DEF StopLeavesNothing
  <2> PICK c \in Callers : pc[c] = "idle"
    BY CallersAssumption DEF Idle
  <2>1. redirectStop = None /\ made[c] = None /\ rateStop = None
    BY DEF LoneInv, RedirectInv, KnownInv, HeardInv
  <2>2. \A a \in Addrs : secondary[a] = None
    BY DEF MapsInv
  <2>3. (Redirects \cup Tickers) \cap recv = {}
    BY <2>1, KindFacts DEF LoneInv, RedirectInv, FailedInv, HeardInv
  <2>4. \A a \in Addrs, i \in Ids : <<a, i>> \notin recv
    <3> SUFFICES ASSUME NEW a \in Addrs, NEW i \in Ids, <<a, i>> \in recv
                 PROVE  FALSE
      OBVIOUS
    <3>1. secondary[a] = <<a, i>>
      BY DEF LoneInv, SerialInv, ListenerInv, ListenersOwned
    <3>2. <<a, i>> \in Chan
      BY ChanKinds
    <3> QED
      BY <2>2, <3>1, <3>2, NoneAssumption
  <2>5. recv = {}
    BY <2>3, <2>4 DEF LoneInv, TypeInv, TypeOK, Chan, Kinds, Redirects, Tickers
  <2> QED
    BY <2>5 DEF HeardInv, Quiet
<1>4. IInv => SendsAreHeard
  BY DEF HeardInv
<1> HIDE DEF IInv
<1> QED
  BY <1>1, <1>2, <1>3, <1>4, PTL DEF Spec

-----------------------------------------------------------------------------
(* Any number of concurrent requests, none of which stops the router *)

NoStops == \A c \in Callers : Ops[c] \subseteq {"start", "ports", "edit"}

StartAndUpdate ==
    {"idle", "start", "ticker", "ticker_set", "serve", "http2", "run_tls",
     "run_plain", "assign", "launch", "sec", "sec_store",
     "upd", "upd_lock", "upd_scan"}

\* The maps only hold channels with a receiver: nobody but the holder of the
\* mutex tells a secondary listener to stop.
UpdaterInv ==
    /\ \A c \in Callers : pc[c] \in StartAndUpdate /\ sends[c] = {}
    /\ \A a \in Addrs : secondary[a] \in ({a} \X Ids) \cup {None}
    /\ \A a \in Addrs : secondary[a] \in recv \cup {None}
    /\ \A ch \in Chan : sock[ch] \in {"failed", "told"} => ch[1] = "redirect"

LEMMA UpdaterNext == NoStops /\ TypeInv /\ UpdaterInv /\ [Next]_vars => UpdaterInv'
<1> SUFFICES ASSUME NoStops, TypeInv, UpdaterInv, [Next]_vars PROVE UpdaterInv'
  OBVIOUS
<1> USE NoneAssumption, KindsAssumption, ChanKinds DEF UpdaterInv, TypeInv,
      TypeOK, NoStops, StartAndUpdate, options, fields, goroutines, locals
<1>1. ASSUME NEW c \in Callers, Request(c) PROVE UpdaterInv'
  <2>1. CASE HandleOnOff(c)
    BY <2>1 DEF HandleOnOff, Begin, Goto
  <2>2. CASE HandleRestart(c)
    BY <2>2 DEF HandleRestart, Begin, Goto
  <2>3. CASE UpdateTLSSetting(c)
    BY <2>3 DEF UpdateTLSSetting, Begin, Goto
  <2>4. CASE UpdatePort80ListenerState(c)
    BY <2>4 DEF UpdatePort80ListenerState, Begin, Goto
  <2>5. CASE HandleSetListeningPorts(c)
    BY <2>5 DEF HandleSetListeningPorts, Begin, Goto
  <2>6. CASE EditEndpoint(c)
    BY <2>6 DEF EditEndpoint, Begin, Goto
  <2> QED
    BY <1>1, <2>1, <2>2, <2>3, <2>4, <2>5, <2>6 DEF Request
<1>2. ASSUME NEW c \in Callers, Restart(c) PROVE UpdaterInv'
  <2>1. CASE RestartCheck(c)
    <3>1. CASE restarting /\ Return(c)
      BY <2>1, <3>1 DEF RestartCheck, Return, Continue
    <3>2. CASE ~restarting /\ Continue(c, "restart_set")
      BY <2>1, <3>2 DEF RestartCheck, Return, Continue
    <3> QED
      BY <2>1, <3>1, <3>2 DEF RestartCheck
  <2>2. CASE RestartSet(c)
    BY <2>2 DEF RestartSet, Goto
  <2>3. CASE RestartRun(c)
    <3>1. CASE running
      BY <2>3, <3>1 DEF RestartRun, RestartTo, Goto
    <3>2. CASE ~running
      BY <2>3, <3>2 DEF RestartRun, RestartTo, Goto
    <3> QED
      BY <2>3, <3>1, <3>2 DEF RestartRun
  <2>4. CASE Sleep(c)
    BY <2>4 DEF Sleep, Goto
  <2> QED
    BY <1>2, <2>1, <2>2, <2>3, <2>4 DEF Restart
<1>3. ASSUME NEW c \in Callers, StartProxyService(c) PROVE UpdaterInv'
  <2>1. CASE StartCheck(c)
    <3>1. CASE server # None /\ Return(c)
      BY <2>1, <3>1 DEF StartCheck, Return, Continue
    <3>2. CASE server = None /\ Continue(c, "ticker")
      BY <2>1, <3>2 DEF StartCheck, Return, Continue
    <3> QED
      BY <2>1, <3>1, <3>2 DEF StartCheck
  <2>2. CASE TickerCheck(c)
    <3>1. CASE Return(c)
      BY <2>2, <3>1 DEF TickerCheck, Return, Continue
    <3>2. CASE Continue(c, "ticker_set")
      BY <2>2, <3>2 DEF TickerCheck, Return, Continue
    <3> QED
      BY <2>2, <3>1, <3>2 DEF TickerCheck
  <2>3. CASE TickerSet(c)
    BY <2>3 DEF TickerSet, Goto
  <2>4. CASE Serve(c)
    BY <2>4 DEF Serve, Goto, MainState
  <2>5. CASE ConfigureHTTP2(c)
    <3>1. CASE Return(c)
      BY <2>5, <3>1 DEF ConfigureHTTP2, Return, Continue
    <3>2. CASE Continue(c, "run_tls")
      BY <2>5, <3>2 DEF ConfigureHTTP2, Return, Continue
    <3> QED
      BY <2>5, <3>1, <3>2 DEF ConfigureHTTP2
  <2>6. CASE RunPlain(c)
    BY <2>6 DEF RunPlain, Goto
  <2>7. CASE RunTLS(c)
    BY <2>7 DEF RunTLS, Spawn, Sock
  <2>8. CASE AssignRedirect(c)
    BY <2>8 DEF AssignRedirect, Goto
  <2>9. CASE Launch(c)
    BY <2>9 DEF Launch, LaunchFor, Goto, MainState
  <2>10. CASE SecCheck(c)
    BY <2>10 DEF SecCheck, Goto
  <2>11. CASE SecStore(c)
    BY <2>11 DEF SecStore, Goto, Spawn, Sock
  <2>12. CASE SecDone(c)
    BY <2>12 DEF SecDone, Return
  <2> QED
    BY <1>3, <2>1, <2>2, <2>3, <2>4, <2>5, <2>6, <2>7, <2>8, <2>9, <2>10, <2>11, <2>12 DEF StartProxyService
<1>4. ASSUME NEW c \in Callers, UpdateSecondaryListeners(c) PROVE UpdaterInv'
  <2>1. CASE UpdateCheck(c)
    <3>1. CASE running
      BY <2>1, <3>1 DEF UpdateCheck, Goto
    <3>2. CASE ~running
      BY <2>1, <3>2 DEF UpdateCheck, Goto
    <3> QED
      BY <2>1, <3>1, <3>2 DEF UpdateCheck
  <2>2. CASE UpdateLock(c)
    BY <2>2 DEF UpdateLock, Goto
  <2>3. CASE UpdateStop(c)
    BY <2>3 DEF UpdateStop, Told
  <2>4. CASE UpdateUnlock(c)
    BY <2>4 DEF UpdateUnlock, Goto
  <2> QED
    BY <1>4, <2>1, <2>2, <2>3, <2>4 DEF UpdateSecondaryListeners
<1>5. ASSUME NEW c \in Callers, StopProxyService(c) PROVE UpdaterInv'
  <2>1. CASE StopCheck(c)
    <3>1. CASE NothingToStop /\ Return(c)
      BY <2>1, <3>1 DEF StopCheck, Return, Continue, NothingToStop
    <3>2. CASE ~NothingToStop /\ Continue(c, "stop_main")
      BY <2>1, <3>2 DEF StopCheck, Return, Continue, NothingToStop
    <3> QED
      BY <2>1, <3>1, <3>2 DEF StopCheck
  <2>2. CASE StopMain(c)
    BY <2>2 DEF StopMain, Stopper, Goto
  <2>3. CASE StopSecondaries(c)
    BY <2>3 DEF StopSecondaries, Goto
  <2>4. CASE StopRate(c)
    BY <2>4 DEF StopRate, StopAlso, Goto
  <2>5. CASE StopWaited(c)
    BY <2>5 DEF StopWaited, StopDone, Goto
  <2>6. CASE StopClear(c)
    BY <2>6 DEF StopClear, StopEnd, Goto
  <2> QED
    BY <1>5, <2>1, <2>2, <2>3, <2>4, <2>5, <2>6 DEF StopProxyService
<1>6. ASSUME NEW c \in Callers, Deliver(c) PROVE UpdaterInv'
  BY <1>6 DEF Deliver, Told
<1>7. ASSUME NEW c \in Callers, MainShutdown(c) PROVE UpdaterInv'
  BY <1>7 DEF MainShutdown
<1>8. ASSUME NEW s \in Servers, MainListen(s) PROVE UpdaterInv'
  BY <1>8 DEF MainListen
<1>9. ASSUME NEW ch \in Chan, ChanStep(ch) PROVE UpdaterInv'
  <2>1. CASE Listen(ch)
    BY <2>1 DEF Listen
  <2>2. CASE RedirectFailSend(ch)
    BY <2>2 DEF RedirectFailSend, Told
  <2>3. CASE RedirectFailReset(ch)
    BY <2>3 DEF RedirectFailReset
  <2>4. CASE WaiterShutdown(ch)
    BY <2>4 DEF WaiterShutdown
  <2>5. CASE TickerStop(ch)
    BY <2>5 DEF TickerStop
  <2> QED
    BY <1>9, <2>1, <2>2, <2>3, <2>4, <2>5 DEF ChanStep
<1>10. CASE UNCHANGED vars
  BY <1>10 DEF vars
<1> QED
  BY <1>1, <1>2, <1>3, <1>4, <1>5, <1>6, <1>7, <1>8, <1>9, <1>10 DEF Next, CallerStep

\* However many callers start the router, change listening ports and edit
\* endpoints at once, the send UpdateSecondaryListeners makes with the mutex
\* held always finds its receiver, as long as nobody stops the router.
THEOREM UpdatersNeverBlock ==
    ASSUME NoStops
    PROVE  Spec => []HeldSendIsHeard
<1>1. Init => TypeInv /\ UpdaterInv
  <2>1. Init => UpdaterInv
    BY DEF Init, UpdaterInv, StartAndUpdate
  <2> QED
    BY <2>1, TypeInit
<1>2. TypeInv /\ UpdaterInv /\ [Next]_vars => (TypeInv /\ UpdaterInv)'
  BY NoStops, TypeNext, UpdaterNext
<1>3. UpdaterInv => HeldSendIsHeard
  BY DEF UpdaterInv, HeldSendIsHeard
<1> QED
  BY <1>1, <1>2, <1>3, PTL DEF Spec

-----------------------------------------------------------------------------
(* Any number of concurrent requests of any kind *)

\* secMutex is locked exactly while its holder scans the maps.
MutexInv == \A c \in Callers : pc[c] = "upd_scan" <=> secMutex = c

\* How far the function a caller runs is from its return.  Listening on an
\* address (sec, sec_store) goes round once per address still to do.
Rank(p) ==
    CASE p = "restart" -> 20 [] p = "restart_set" -> 19
      [] p = "restart_run" -> 18 [] p = "stop" -> 17 [] p = "stop_main" -> 16
      [] p = "stop_sec" -> 15 [] p = "stop_rate" -> 14 [] p = "stop_wait" -> 13
      [] p = "stop_clear" -> 12 [] p = "sleep" -> 11 [] p = "start" -> 10
      [] p = "ticker" -> 9 [] p = "ticker_set" -> 8 [] p = "serve" -> 7
      [] p = "http2" -> 6 [] p = "run_tls" -> 5 [] p = "run_plain" -> 5
      [] p = "assign" -> 4 [] p = "launch" -> 3 [] p = "upd" -> 4
      [] p = "upd_lock" -> 3 [] p = "upd_scan" -> 2
      [] p \in {"sec", "sec_store"} -> 1 [] p = "idle" -> 0

\* The listeners UpdateSecondaryListeners has still to tell to stop.
Unwanted(c) == {a \in Addrs \ todo[c] : secondary[a] # None}

\* c comes nearer to the return: it goes on in the function, or takes one
\* address, or one listener, less round a loop.
Nearer(c) ==
    \/ Rank(pc'[c]) < Rank(pc[c])
    \/ /\ pc[c] = "sec" /\ pc'[c] \in {"sec", "sec_store"}
       /\ todo'[c] \subseteq todo[c] /\ todo'[c] # todo[c]
    \/ pc[c] = "sec_store" /\ pc'[c] = "sec" /\ todo'[c] = todo[c]
    \/ /\ pc[c] = "upd_scan" /\ pc'[c] = "upd_scan" /\ todo'[c] = todo[c]
       /\ Unwanted(c)' \subseteq Unwanted(c) /\ Unwanted(c)' # Unwanted(c)

\* c is no further from it: nobody adds a listener for it to stop, or a
\* goroutine for it to wait for.
NoFurther(c) ==
    /\ pc'[c] = pc[c] /\ todo'[c] = todo[c]
    /\ pc[c] = "upd_scan" => Unwanted(c)' \subseteq Unwanted(c)
    /\ pc[c] = "stop_wait"
         => sends'[c] \subseteq sends[c] /\ shut'[c] \in {shut[c], None}

LEMMA Ranks ==
    /\ Rank("restart") = 20 /\ Rank("restart_set") = 19 /\ Rank("restart_run") = 18
    /\ Rank("stop") = 17 /\ Rank("stop_main") = 16 /\ Rank("stop_sec") = 15
    /\ Rank("stop_rate") = 14 /\ Rank("stop_wait") = 13 /\ Rank("stop_clear") = 12
    /\ Rank("sleep") = 11 /\ Rank("start") = 10 /\ Rank("ticker") = 9
    /\ Rank("ticker_set") = 8 /\ Rank("serve") = 7 /\ Rank("http2") = 6
    /\ Rank("run_tls") = 5 /\ Rank("run_plain") = 5 /\ Rank("assign") = 4
    /\ Rank("launch") = 3 /\ Rank("upd") = 4 /\ Rank("upd_lock") = 3
    /\ Rank("upd_scan") = 2 /\ Rank("sec") = 1 /\ Rank("sec_store") = 1
    /\ Rank("idle") = 0
BY DEF Rank

\* What the step of one caller leaves alone: the other callers, and, unless the
\* mutex is free, the maps, which only lose entries.
OthersKept(c) ==
    \A d \in Callers \ {c} : /\ pc'[d] = pc[d] /\ todo'[d] = todo[d]
                             /\ sends'[d] = sends[d] /\ shut'[d] = shut[d]
MapsShrink ==
    secMutex = None \/ \A a \in Addrs : secondary'[a] \in {secondary[a], None}
MutexStep(c) ==
    \/ secMutex' = secMutex /\ (pc'[c] = "upd_scan" <=> pc[c] = "upd_scan")
    \/ secMutex = None /\ secMutex' = c /\ pc'[c] = "upd_scan"
    \/ pc[c] = "upd_scan" /\ pc'[c] # "upd_scan" /\ secMutex' = None
Local(c) == OthersKept(c) /\ MapsShrink /\ MutexStep(c)

LEMMA RequestLocal ==
    ASSUME TypeInv, NEW c \in Callers, Request(c)
    PROVE  Local(c)
<1> USE DEF TypeInv, TypeOK, fields, locals, Begin, Goto, Local, OthersKept,
      MapsShrink, MutexStep
<1>1. CASE HandleOnOff(c)
  BY <1>1 DEF HandleOnOff
<1>2. CASE HandleRestart(c)
  BY <1>2 DEF HandleRestart
<1>3. CASE UpdateTLSSetting(c)
  BY <1>3 DEF UpdateTLSSetting
<1>4. CASE UpdatePort80ListenerState(c)
  BY <1>4 DEF UpdatePort80ListenerState
<1>5. CASE HandleSetListeningPorts(c)
  BY <1>5 DEF HandleSetListeningPorts
<1>6. CASE EditEndpoint(c)
  BY <1>6 DEF EditEndpoint
<1> QED
  BY <1>1, <1>2, <1>3, <1>4, <1>5, <1>6 DEF Request

LEMMA ControlLocal ==
    ASSUME TypeInv, NEW c \in Callers, ControlOnly,
           NEW to, to # "upd_scan", pc[c] # "upd_scan",
           pc' = [pc EXCEPT ![c] = to]
    PROVE  Local(c) /\ pc'[c] = to
<1>1. pc'[c] = to /\ \A d \in Callers \ {c} : pc'[d] = pc[d]
  BY DEF TypeInv, TypeOK
<1> QED
  BY <1>1 DEF ControlOnly, Local, OthersKept, MapsShrink, MutexStep

LEMMA RestartLocal ==
    ASSUME TypeInv, NEW c \in Callers, Restart(c)
    PROVE  Local(c) /\ Nearer(c)
<1> USE NoneAssumption, Ranks DEF TypeInv, TypeOK, fields, locals, goroutines,
      Local, OthersKept, MapsShrink, MutexStep, Nearer
<1>1. CASE RestartCheck(c)
  <2>1. pc[c] = "restart" /\ ControlOnly
    BY <1>1 DEF RestartCheck, ControlOnly
  <2>2. \E to \in {"idle", "restart_set"} : pc' = [pc EXCEPT ![c] = to]
    BY <1>1 DEF RestartCheck, Return, Continue
  <2>3. PICK to \in {"idle", "restart_set"} : pc' = [pc EXCEPT ![c] = to]
    BY <2>2
  <2>4. to # "upd_scan" /\ pc[c] # "upd_scan"
    BY <2>1
  <2>5. Local(c) /\ pc'[c] = to
    BY ONLY <2>1, <2>3, <2>4, ControlLocal, TypeInv, c \in Callers
  <2>6. Nearer(c)
    BY <2>1, <2>5
  <2> QED
    BY <2>5, <2>6
<1>2. CASE RestartSet(c)
  <2>1. Local(c)
    BY <1>2 DEF RestartSet, Goto
  <2>2. Nearer(c)
    BY <1>2 DEF RestartSet, Goto
  <2> QED
    BY <2>1, <2>2
<1>3. CASE RestartRun(c)
  <2>1. Local(c)
    BY <1>3 DEF RestartRun, RestartTo, Goto
  <2>2. Nearer(c)
    BY <1>3 DEF RestartRun, RestartTo, Goto
  <2> QED
    BY <2>1, <2>2
<1>4. CASE Sleep(c)
  <2>1. Local(c)
    BY <1>4 DEF Sleep, Goto
  <2>2. Nearer(c)
    BY <1>4 DEF Sleep, Goto
  <2> QED
    BY <2>1, <2>2
<1> QED
  BY <1>1, <1>2, <1>3, <1>4 DEF Restart

LEMMA StartProxyServiceLocal ==
    ASSUME TypeInv, NEW c \in Callers, StartProxyService(c)
    PROVE  Local(c) /\ Nearer(c)
<1> USE NoneAssumption, Ranks DEF TypeInv, TypeOK, fields, locals, goroutines,
      Local, OthersKept, MapsShrink, MutexStep, Nearer
<1>1. CASE StartCheck(c)
  <2>1. pc[c] = "start" /\ ControlOnly
    BY <1>1 DEF StartCheck, ControlOnly
  <2>2. \E to \in {"idle", "ticker"} : pc' = [pc EXCEPT ![c] = to]
    BY <1>1 DEF StartCheck, Return, Continue
  <2>3. PICK to \in {"idle", "ticker"} : pc' = [pc EXCEPT ![c] = to]
    BY <2>2
  <2>4. to # "upd_scan" /\ pc[c] # "upd_scan"
    BY <2>1
  <2>5. Local(c) /\ pc'[c] = to
    BY ONLY <2>1, <2>3, <2>4, ControlLocal, TypeInv, c \in Callers
  <2>6. Nearer(c)
    BY <2>1, <2>5
  <2> QED
    BY <2>5, <2>6
<1>2. CASE TickerCheck(c)
  <2>1. pc[c] = "ticker" /\ ControlOnly
    BY <1>2 DEF TickerCheck, ControlOnly
  <2>2. \E to \in {"idle", "ticker_set"} : pc' = [pc EXCEPT ![c] = to]
    BY <1>2 DEF TickerCheck, Return, Continue
  <2>3. PICK to \in {"idle", "ticker_set"} : pc' = [pc EXCEPT ![c] = to]
    BY <2>2
  <2>4. to # "upd_scan" /\ pc[c] # "upd_scan"
    BY <2>1
  <2>5. Local(c) /\ pc'[c] = to
    BY ONLY <2>1, <2>3, <2>4, ControlLocal, TypeInv, c \in Callers
  <2>6. Nearer(c)
    BY <2>1, <2>5
  <2> QED
    BY <2>5, <2>6
<1>3. CASE TickerSet(c)
  <2>1. Local(c)
    BY <1>3 DEF TickerSet, Goto
  <2>2. Nearer(c)
    BY <1>3 DEF TickerSet, Goto
  <2> QED
    BY <2>1, <2>2
<1>4. CASE Serve(c)
  <2>1. Local(c)
    BY <1>4 DEF Serve, Goto
  <2>2. Nearer(c)
    BY <1>4 DEF Serve, Goto
  <2> QED
    BY <2>1, <2>2
<1>5. CASE ConfigureHTTP2(c)
  <2>1. pc[c] = "http2" /\ ControlOnly
    BY <1>5 DEF ConfigureHTTP2, ControlOnly
  <2>2. \E to \in {"idle", "run_tls"} : pc' = [pc EXCEPT ![c] = to]
    BY <1>5 DEF ConfigureHTTP2, Return, Continue
  <2>3. PICK to \in {"idle", "run_tls"} : pc' = [pc EXCEPT ![c] = to]
    BY <2>2
  <2>4. to # "upd_scan" /\ pc[c] # "upd_scan"
    BY <2>1
  <2>5. Local(c) /\ pc'[c] = to
    BY ONLY <2>1, <2>3, <2>4, ControlLocal, TypeInv, c \in Callers
  <2>6. Nearer(c)
    BY <2>1, <2>5
  <2> QED
    BY <2>5, <2>6
<1>6. CASE RunPlain(c)
  <2>1. Local(c)
    BY <1>6 DEF RunPlain, Goto
  <2>2. Nearer(c)
    BY <1>6 DEF RunPlain, Goto
  <2> QED
    BY <2>1, <2>2
<1>7. CASE RunTLS(c)
  <2>1. Local(c)
    BY <1>7 DEF RunTLS
  <2>2. Nearer(c)
    BY <1>7 DEF RunTLS
  <2> QED
    BY <2>1, <2>2
<1>8. CASE AssignRedirect(c)
  <2>1. Local(c)
    BY <1>8 DEF AssignRedirect, Goto
  <2>2. Nearer(c)
    BY <1>8 DEF AssignRedirect, Goto
  <2> QED
    BY <2>1, <2>2
<1>9. CASE Launch(c)
  <2>1. Local(c)
    BY <1>9 DEF Launch, LaunchFor, Goto
  <2>2. Nearer(c)
    BY <1>9 DEF Launch, LaunchFor, Goto
  <2> QED
    BY <2>1, <2>2
<1>10. CASE SecCheck(c)
  <2>1. Local(c)
    BY <1>10 DEF SecCheck, Goto
  <2>2. Nearer(c)
    BY <1>10 DEF SecCheck, Goto
  <2> QED
    BY <2>1, <2>2
<1>11. CASE SecStore(c)
  <2>1. Local(c)
    BY <1>11 DEF SecStore, Goto
  <2>2. Nearer(c)
    BY <1>11 DEF SecStore, Goto
  <2> QED
    BY <2>1, <2>2
<1>12. CASE SecDone(c)
  <2>1. Local(c)
    BY <1>12 DEF SecDone, Return
  <2>2. Nearer(c)
    BY <1>12 DEF SecDone, Return
  <2> QED
    BY <2>1, <2>2
<1> QED
  BY <1>1, <1>2, <1>3, <1>4, <1>5, <1>6, <1>7, <1>8, <1>9, <1>10, <1>11, <1>12 DEF StartProxyService

LEMMA UpdateSecondaryListenersLocal ==
    ASSUME TypeInv, NEW c \in Callers, UpdateSecondaryListeners(c)
    PROVE  Local(c) /\ Nearer(c)
<1> USE NoneAssumption, Ranks DEF TypeInv, TypeOK, fields, locals, goroutines,
      Local, OthersKept, MapsShrink, MutexStep, Nearer
<1>1. CASE UpdateCheck(c)
  <2>1. Local(c)
    BY <1>1 DEF UpdateCheck, Goto
  <2>2. Nearer(c)
    BY <1>1 DEF UpdateCheck, Goto
  <2> QED
    BY <2>1, <2>2
<1>2. CASE UpdateLock(c)
  <2>1. Local(c)
    BY <1>2 DEF UpdateLock, Goto
  <2>2. Nearer(c)
    BY <1>2 DEF UpdateLock, Goto
  <2> QED
    BY <2>1, <2>2
<1>3. CASE UpdateStop(c)
  <2>1. PICK a \in Addrs \ todo[c] :
            secondary[a] \in recv /\ secondary' = [secondary EXCEPT ![a] = None]
    BY <1>3 DEF UpdateStop
  <2>2. pc[c] = "upd_scan" /\ pc' = pc /\ todo' = todo /\ sends' = sends
        /\ shut' = shut /\ secMutex' = secMutex
    BY <1>3 DEF UpdateStop
  <2>3. a \in Unwanted(c) /\ a \notin Unwanted(c)'
    BY <2>1, <2>2 DEF Unwanted
  <2>4. Unwanted(c)' \subseteq Unwanted(c)
    BY <2>1, <2>2 DEF Unwanted
  <2>5. Nearer(c)
    BY <2>2, <2>3, <2>4
  <2>6. Local(c)
    BY <2>1, <2>2
  <2> QED
    BY <2>5, <2>6
<1>4. CASE UpdateUnlock(c)
  <2>1. Local(c)
    BY <1>4 DEF UpdateUnlock, Goto
  <2>2. Nearer(c)
    BY <1>4 DEF UpdateUnlock, Goto
  <2> QED
    BY <2>1, <2>2
<1> QED
  BY <1>1, <1>2, <1>3, <1>4 DEF UpdateSecondaryListeners

LEMMA StopProxyServiceLocal ==
    ASSUME TypeInv, NEW c \in Callers, StopProxyService(c)
    PROVE  Local(c) /\ Nearer(c)
<1> USE NoneAssumption, Ranks DEF TypeInv, TypeOK, fields, locals, goroutines,
      Local, OthersKept, MapsShrink, MutexStep, Nearer
<1>1. CASE StopCheck(c)
  <2>1. pc[c] = "stop" /\ ControlOnly
    BY <1>1 DEF StopCheck, ControlOnly
  <2>2. \E to \in {"idle", "stop_main"} : pc' = [pc EXCEPT ![c] = to]
    BY <1>1 DEF StopCheck, Return, Continue
  <2>3. PICK to \in {"idle", "stop_main"} : pc' = [pc EXCEPT ![c] = to]
    BY <2>2
  <2>4. to # "upd_scan" /\ pc[c] # "upd_scan"
    BY <2>1
  <2>5. Local(c) /\ pc'[c] = to
    BY ONLY <2>1, <2>3, <2>4, ControlLocal, TypeInv, c \in Callers
  <2>6. Nearer(c)
    BY <2>1, <2>5
  <2> QED
    BY <2>5, <2>6
<1>2. CASE StopMain(c)
  <2>1. Local(c)
    BY <1>2 DEF StopMain, Stopper, Goto
  <2>2. Nearer(c)
    BY <1>2 DEF StopMain, Stopper, Goto
  <2> QED
    BY <2>1, <2>2
<1>3. CASE StopSecondaries(c)
  <2>1. Local(c)
    BY <1>3 DEF StopSecondaries, Goto
  <2>2. Nearer(c)
    BY <1>3 DEF StopSecondaries, Goto
  <2> QED
    BY <2>1, <2>2
<1>4. CASE StopRate(c)
  <2>1. Local(c)
    BY <1>4 DEF StopRate, StopAlso, Goto
  <2>2. Nearer(c)
    BY <1>4 DEF StopRate, StopAlso, Goto
  <2> QED
    BY <2>1, <2>2
<1>5. CASE StopWaited(c)
  <2>1. Local(c)
    BY <1>5 DEF StopWaited, StopDone, Goto
  <2>2. Nearer(c)
    BY <1>5 DEF StopWaited, StopDone, Goto
  <2> QED
    BY <2>1, <2>2
<1>6. CASE StopClear(c)
  <2>1. Local(c)
    BY <1>6 DEF StopClear, StopEnd, Goto
  <2>2. Nearer(c)
    BY <1>6 DEF StopClear, StopEnd, Goto
  <2> QED
    BY <2>1, <2>2
<1> QED
  BY <1>1, <1>2, <1>3, <1>4, <1>5, <1>6 DEF StopProxyService

LEMMA CallerLocal ==
    ASSUME TypeInv, NEW c \in Callers, CallerStep(c)
    PROVE  Local(c) /\ Nearer(c)
BY RestartLocal, StartProxyServiceLocal, UpdateSecondaryListenersLocal,
   StopProxyServiceLocal DEF CallerStep

\* The steps nobody's function takes: the callers only see their waits shorten.
Aside ==
    /\ pc' = pc /\ todo' = todo /\ secondary' = secondary /\ secMutex' = secMutex
    /\ \A c \in Callers : /\ sends'[c] \subseteq sends[c]
                          /\ shut'[c] \in {shut[c], None}

LEMMA OtherSteps ==
    ASSUME TypeInv,
           \/ \E c \in Callers : Deliver(c) \/ MainShutdown(c)
           \/ \E s \in Servers : MainListen(s)
           \/ \E ch \in Chan : ChanStep(ch)
           \/ UNCHANGED vars
    PROVE  Aside
<1> USE DEF Aside, TypeInv, TypeOK, fields, locals
<1>1. ASSUME NEW c \in Callers, Deliver(c) PROVE Aside
  BY <1>1 DEF Deliver
<1>2. ASSUME NEW c \in Callers, MainShutdown(c) PROVE Aside
  BY <1>2 DEF MainShutdown
<1>3. ASSUME NEW s \in Servers, MainListen(s) PROVE Aside
  BY <1>3 DEF MainListen
<1>4. ASSUME NEW ch \in Chan, ChanStep(ch) PROVE Aside
  BY <1>4 DEF ChanStep, Listen, RedirectFailSend, RedirectFailReset,
     WaiterShutdown, TickerStop
<1>5. CASE UNCHANGED vars
  BY <1>5 DEF vars
<1> QED
  BY <1>1, <1>2, <1>3, <1>4, <1>5

LEMMA MutexNext == TypeInv /\ MutexInv /\ [Next]_vars => MutexInv'
<1> SUFFICES ASSUME TypeInv, MutexInv, [Next]_vars PROVE MutexInv'
  OBVIOUS
<1>1. ASSUME NEW c \in Callers, Local(c) PROVE MutexInv'
  BY <1>1, NoneAssumption DEF MutexInv, Local, OthersKept, MutexStep
<1>2. ASSUME Aside PROVE MutexInv'
  BY <1>2 DEF MutexInv, Aside
<1> QED
  BY <1>1, <1>2, RequestLocal, CallerLocal, OtherSteps DEF Next

LEMMA WindsDown ==
    ASSUME TypeInv, MutexInv, [Next]_vars, NEW d \in Callers
    PROVE  /\ CallerStep(d) => Nearer(d)
           /\ Request(d) \/ Nearer(d) \/ NoFurther(d)
<1>1. CallerStep(d) => Nearer(d)
  BY CallerLocal
<1>2. ASSUME NEW c \in Callers, c # d, Local(c) PROVE NoFurther(d)
  BY <1>2, NoneAssumption
     DEF MutexInv, Local, OthersKept, MapsShrink, NoFurther, Unwanted
<1>3. ASSUME Aside PROVE NoFurther(d)
  BY <1>3 DEF Aside, NoFurther, Unwanted
<1> QED
  BY <1>1, <1>2, <1>3, RequestLocal, CallerLocal, OtherSteps DEF Next

\* The mutex of the secondary listeners is held by one caller at a time, and
\* only while that caller scans the maps: a request that waits for it waits for
\* a holder that will unlock it.
THEOREM MutexIsReleased == Spec => []MutexInv
<1>1. Init => TypeInv /\ MutexInv
  BY TypeInit, NoneAssumption DEF Init, MutexInv
<1>2. TypeInv /\ MutexInv /\ [Next]_vars => (TypeInv /\ MutexInv)'
  BY TypeNext, MutexNext
<1> QED
  BY <1>1, <1>2, PTL DEF Spec

\* No request goes round in circles: every step of the function that serves it
\* brings it nearer to its return, and no other goroutine, another request's
\* included, ever takes it further away or gives it more to wait for.  (The half
\* of RequestReturns that needs no fairness.)
THEOREM RequestsWindDown ==
    Spec => [][\A c \in Callers : /\ CallerStep(c) => Nearer(c)
                                  /\ Request(c) \/ Nearer(c) \/ NoFurther(c)]_vars
<1>1. Init => TypeInv /\ MutexInv
  BY TypeInit, NoneAssumption DEF Init, MutexInv
<1>2. TypeInv /\ MutexInv /\ [Next]_vars => (TypeInv /\ MutexInv)'
  BY TypeNext, MutexNext
<1>3. TypeInv /\ MutexInv /\ [Next]_vars
        => \A c \in Callers : /\ CallerStep(c) => Nearer(c)
                              /\ Request(c) \/ Nearer(c) \/ NoFurther(c)
  BY WindsDown
<1> QED
  BY <1>1, <1>2, <1>3, PTL DEF Spec

=============================================================================
