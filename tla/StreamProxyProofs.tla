-------------------------- MODULE StreamProxyProofs --------------------------
(***************************************************************************)
(* What StreamProxy promises for any number of rules and stop channels,    *)
(* whichever rules fail to listen.                                         *)
(***************************************************************************)
EXTENDS StreamProxy, TLAPS

LEMMA FirstOf ==
  ASSUME NEW ps \in SUBSET Protos
  PROVE  First(ps) \in Protos /\ (ps # {} => First(ps) \in ps)
BY DEF First, Protos

LEMMA Chans == \A ch \in Chan :
    /\ ch[1] \in Rules /\ ch[2] \in Protos /\ ch[3] \in Ids
    /\ ch = <<ch[1], ch[2], ch[3]>> /\ <<ch[1], ch[2]>> \in Rules \X Protos
    /\ ch \in {ch[1]} \X {ch[2]} \X Ids
BY DEF Chan

\* TypeOK is not inductive alone: a request that is under way has its rule.
HasRule == \A c \in Procs : pc[c] \notin {"idle", "boot"} => rule[c] \in Rules
TypeInv == TypeOK /\ HasRule

LEMMA TypeInit == Init => TypeInv
<1> SUFFICES ASSUME Init PROVE TypeInv
  OBVIOUS
<1>1. /\ mode \in [Rules -> SUBSET Protos] /\ run \in [Rules -> BOOLEAN]
      /\ stop \in [Rules \X Protos -> Chan \cup {None}]
      /\ disk \in [Rules -> Config \cup {Empty, Torn, None}]
  BY DEF Init
<1>2. /\ sock \in [Chan -> Sock]
      /\ left \in [Threads -> SUBSET Rules]
      /\ buf \in [Threads -> Buffer \cup {None}]
  BY DEF Init, Sock
<1>3. /\ pc \in [Procs -> PC] /\ rule \in [Procs -> Rules \cup {None}]
      /\ after \in [Procs -> PC]
  BY DEF Init, PC
<1>4. /\ todo \in [Procs -> SUBSET Protos]
      /\ sending \in [Procs -> Chan \cup {None}]
  BY DEF Init
<1> QED
  BY <1>1, <1>2, <1>3, <1>4 DEF Init, TypeOK, TypeInv, HasRule

\* What a readable file says has the types of the rule's fields.
LEMMA LoadedType ==
  ASSUME TypeOK, NEW r \in Rules
  PROVE  Loaded(r).run \in BOOLEAN /\ Loaded(r).mode \in SUBSET Protos
<1>1. CASE r \in Readable
  BY <1>1 DEF Loaded, Readable, Config
<1>2. CASE r \notin Readable
  BY <1>2 DEF Loaded
<1> QED
  BY <1>1, <1>2

\* A new process has a well-typed state.
LEMMA TypeCrash == TypeInv /\ Crash => TypeInv'
<1> SUFFICES ASSUME TypeInv, Crash PROVE TypeInv'
  OBVIOUS
<1>1. /\ mode' \in [Rules -> SUBSET Protos] /\ run' \in [Rules -> BOOLEAN]
  BY LoadedType DEF Crash, TypeInv
<1>2. /\ stop' \in [Rules \X Protos -> Chan \cup {None}]
      /\ disk' \in [Rules -> Config \cup {Empty, Torn, None}]
  BY DEF Crash, TypeInv, TypeOK
<1>3. /\ sock' \in [Chan -> Sock]
      /\ left' \in [Threads -> SUBSET Rules]
      /\ buf' \in [Threads -> Buffer \cup {None}]
  BY DEF Crash, Sock
<1>4. /\ pc' \in [Procs -> PC] /\ rule' \in [Procs -> Rules \cup {None}]
      /\ after' \in [Procs -> PC]
      /\ \A c \in Procs : pc'[c] \in {"idle", "boot"}
  BY DEF Crash, PC
<1>5. /\ todo' \in [Procs -> SUBSET Protos]
      /\ sending' \in [Procs -> Chan \cup {None}]
  BY DEF Crash
<1>6. /\ listed' \subseteq Rules /\ recv' \subseteq Chan /\ closing' \subseteq Chan
      /\ leaked' \subseteq Rules /\ boot' \subseteq Rules
  BY DEF Crash, Readable
<1> QED
  BY <1>1, <1>2, <1>3, <1>4, <1>5, <1>6 DEF TypeOK, TypeInv, HasRule

\* A write leaves no file where there was none, and else what it wrote or part
\* of it.
LEMMA Written ==
  ASSUME TypeOK, NEW t \in Threads, SaveWrite(t)
  PROVE  /\ buf[t] \in Buffer /\ buf[t].rule \in Rules /\ buf[t].config \in Config
         /\ \E content \in {None, buf[t].config, Torn} :
               /\ content = None => disk[buf[t].rule] = None
               /\ disk' = [disk EXCEPT ![buf[t].rule] = content]
<1>1. buf[t] \in Buffer
  BY DEF TypeOK, SaveWrite
<1>2. buf[t].rule \in Rules /\ buf[t].config \in Config
  BY <1>1 DEF Buffer
<1>3. CASE disk[buf[t].rule] = None
  BY <1>1, <1>2, <1>3 DEF SaveWrite
<1>4. CASE disk[buf[t].rule] # None
  <2>1. PICK content \in {buf[t].config, Torn} :
           disk' = [disk EXCEPT ![buf[t].rule] = content]
    BY <1>4 DEF SaveWrite
  <2> QED
    BY <1>1, <1>2, <2>1, NoneAssumption
<1> QED
  BY <1>3, <1>4

LEMMA TypeNext == TypeInv /\ [Next]_vars => TypeInv'
<1> SUFFICES ASSUME TypeInv, [Next]_vars PROVE TypeInv'
  OBVIOUS
<1> USE DEF TypeInv, TypeOK, HasRule, vars, fields, goroutines, saves, locals, PC
<1>1. ASSUME NEW c \in Callers, Request(c) PROVE TypeInv'
  <2> USE DEF Begin, Goto, Refuse, Named, Running, Saving, Procs
  <2>1. CASE HandleStartProxy(c)
    BY <2>1 DEF HandleStartProxy
  <2>2. CASE HandleStopProxy(c)
    <3>1. PICK r \in listed :
             \/ /\ IsRunning(r) /\ Begin(c, r, "stop", "idle")
                /\ todo' = [todo EXCEPT ![c] = Protos] /\ UNCHANGED run
             \/ /\ ~IsRunning(r) /\ Refuse(c)
                /\ Running(r, FALSE) /\ UNCHANGED todo
      BY <2>2 DEF HandleStopProxy, Named
    <3>2. CASE IsRunning(r)
      BY <2>2, <3>1, <3>2 DEF HandleStopProxy
    <3>3. CASE ~IsRunning(r)
      BY <2>2, <3>1, <3>3 DEF HandleStopProxy
    <3> QED
      BY <3>2, <3>3
  <2>3. CASE HandleAddProxyConfig(c)
    <3>1. PICK r \in Rules \ listed :
              /\ Begin(c, r, "save", "idle")
              /\ listed' = listed \cup {r} /\ Running(r, FALSE)
              /\ \E m \in Modes[r] : mode' = [mode EXCEPT ![r] = m]
      BY <2>3 DEF HandleAddProxyConfig, AddConfig
    <3>2. mode' \in [Rules -> SUBSET Protos]
      <4>1. PICK m \in Modes[r] : mode' = [mode EXCEPT ![r] = m]
        BY <3>1
      <4>2. m \in SUBSET Protos
        BY RulesAssumption
      <4> QED
        BY <4>1, <4>2
    <3>3. left' \in [Threads -> SUBSET Rules]
      BY <2>3, <3>1 DEF HandleAddProxyConfig, AddConfig, Threads
    <3> QED
      BY <2>3, <3>1, <3>2, <3>3 DEF HandleAddProxyConfig, AddConfig
  <2>4. CASE HandleEditProxyConfigs(c)
    <3>1. PICK r \in listed :
              /\ \E m \in Modes[r] : mode' = [mode EXCEPT ![r] = m]
              /\ \/ Refuse(c) /\ UNCHANGED left
                 \/ Begin(c, r, "save", "edited") /\ Saving(c, listed)
      BY <2>4 DEF HandleEditProxyConfigs, Named
    <3>2. mode' \in [Rules -> SUBSET Protos]
      <4>1. PICK m \in Modes[r] : mode' = [mode EXCEPT ![r] = m]
        BY <3>1
      <4>2. m \in SUBSET Protos
        BY RulesAssumption
      <4> QED
        BY <4>1, <4>2
    <3>3. left' \in [Threads -> SUBSET Rules]
      BY <3>1 DEF Threads
    <3>4. UNCHANGED <<listed, run, stop, disk, goroutines, buf, todo, sending, boot>>
      BY <2>4 DEF HandleEditProxyConfigs
    <3>5. CASE Refuse(c)
      BY <3>2, <3>3, <3>4, <3>5
    <3>6. CASE Begin(c, r, "save", "edited")
      BY <3>2, <3>3, <3>4, <3>6
    <3> QED
      BY <3>1, <3>5, <3>6
  <2>5. CASE HandleRemoveProxy(c)
    <3>1. UNCHANGED <<listed, mode, stop, goroutines, saves, todo, sending, boot>>
      BY <2>5 DEF HandleRemoveProxy
    <3>2. PICK r \in listed :
             \/ Refuse(c) /\ Running(r, FALSE) /\ UNCHANGED disk
             \/ Refuse(c) /\ UNCHANGED <<run, disk>>
             \/ /\ Begin(c, r, "unlist", "idle")
                /\ disk' = [disk EXCEPT ![r] = None] /\ UNCHANGED run
      BY <2>5 DEF HandleRemoveProxy
    <3>3. CASE Refuse(c)
      <4>1. run' \in [Rules -> BOOLEAN] /\ disk' \in [Rules -> Config \cup {Empty, Torn, None}]
        BY <3>2
      <4> QED
        BY <3>1, <3>3, <4>1
    <3>4. CASE /\ Begin(c, r, "unlist", "idle")
               /\ disk' = [disk EXCEPT ![r] = None] /\ UNCHANGED run
      BY <3>1, <3>4
    <3> QED
      BY <3>2, <3>3, <3>4
  <2> QED
    BY <1>1, <2>1, <2>2, <2>3, <2>4, <2>5 DEF Request
<1>2. ASSUME NEW t \in Threads, Save(t) PROVE TypeInv'
  <2>1. CASE SaveOpen(t)
    <3>1. PICK r \in left[t] :
              /\ left' = [left EXCEPT ![t] = @ \ {r}]
              /\ \/ /\ buf' = [buf EXCEPT ![t] = [rule |-> r,
                                 config |-> [run |-> run[r], mode |-> mode[r]]]]
                    /\ disk' = [disk EXCEPT ![r] = Empty]
                 \/ /\ UNCHANGED buf
                    /\ disk' = [disk EXCEPT ![r] = IF @ = None THEN Torn ELSE @]
      BY <2>1 DEF SaveOpen
    <3>2. [run |-> run[r], mode |-> mode[r]] \in Config /\ r \in Rules
      BY <3>1 DEF Config
    <3>3. [rule |-> r, config |-> [run |-> run[r], mode |-> mode[r]]] \in Buffer
      BY <3>2 DEF Buffer
    <3> QED
      BY <2>1, <3>1, <3>2, <3>3 DEF SaveOpen
  <2>2. CASE SaveWrite(t)
    <3>1. disk' \in [Rules -> Config \cup {Empty, Torn, None}]
      BY <2>2, Written
    <3> QED
      BY <2>2, <3>1 DEF SaveWrite
  <2> QED
    BY <1>2, <2>1, <2>2 DEF Save
<1>3. ASSUME NEW c \in Procs, ProcStep(c) PROVE TypeInv'
  <2> USE DEF Goto, Return, Running, Saving
  <2>0. c \in Threads
    BY DEF Threads
  <2>1. CASE SaveReturn(c)
    BY <2>1 DEF SaveReturn
  <2>2. CASE Start(c)
    <3>1. CASE IsRunning(rule[c])
      <4>1. /\ run' = [run EXCEPT ![rule[c]] = TRUE] /\ Return(c) /\ UNCHANGED todo
            /\ rule[c] \in Rules
        BY <2>2, <3>1 DEF Start
      <4>2. UNCHANGED <<listed, mode, stop, disk, goroutines, saves, sending, boot>>
        BY <2>2 DEF Start
      <4> QED
        BY <4>1, <4>2
    <3>2. CASE ~IsRunning(rule[c])
      <4>1. /\ pc' = [pc EXCEPT ![c] = "start_next"] /\ todo' = [todo EXCEPT ![c] = Protos]
            /\ UNCHANGED <<run, rule, after>> /\ pc[c] = "start"
        BY <2>2, <3>2 DEF Start
      <4>2. UNCHANGED <<listed, mode, stop, disk, goroutines, saves, sending, boot>>
        BY <2>2 DEF Start
      <4> QED
        BY <4>1, <4>2
    <3> QED
      BY <3>1, <3>2
  <2>3. CASE StartNext(c)
    <3>1. stop' \in [Rules \X Protos -> Chan \cup {None}] /\ sock' \in [Chan -> Sock]
      <4>1. rule[c] \in Rules /\ First(todo[c]) \in Protos
        BY <2>3, FirstOf DEF StartNext
      <4>2. \A ch \in {rule[c]} \X {First(todo[c])} \X Ids : ch \in Chan
        BY <4>1 DEF Chan
      <4> QED
        <5>1. CASE UNCHANGED <<stop, sock>>
          BY <5>1
        <5>2. CASE \E ch \in {rule[c]} \X {First(todo[c])} \X Ids :
                      /\ stop' = [stop EXCEPT ![<<rule[c], First(todo[c])>>] = ch]
                      /\ sock' = [sock EXCEPT ![ch] = "starting"]
          <6>1. PICK ch \in Chan :
                    /\ stop' = [stop EXCEPT ![<<rule[c], First(todo[c])>>] = ch]
                    /\ sock' = [sock EXCEPT ![ch] = "starting"]
            BY <4>2, <5>2
          <6>2. "starting" \in Sock /\ stop \in [Rules \X Protos -> Chan \cup {None}]
                /\ sock \in [Chan -> Sock]
            BY DEF Sock, TypeInv, TypeOK
          <6> HIDE DEF TypeInv, TypeOK
          <6> QED
            BY <6>1, <6>2
        <5> QED
          BY <2>3, <5>1, <5>2 DEF StartNext
    <3> QED
      BY <2>3, <3>1 DEF StartNext
  <2>4. CASE StartEnd(c)
    BY <2>0, <2>4 DEF StartEnd
  <2>5. CASE Edited(c)
    <3>1. UNCHANGED <<fields, disk, goroutines, saves, todo, sending, boot>> /\ pc[c] = "edited"
      BY <2>5 DEF Edited
    <3>2. CASE Return(c)
      BY <3>1, <3>2
    <3>3. CASE Goto(c, "edited", "restart") /\ UNCHANGED <<rule, after>>
      BY <3>1, <3>3
    <3> QED
      BY <2>5, <3>2, <3>3 DEF Edited
  <2>6. CASE Restart(c)
    BY <2>6 DEF Restart
  <2>7. CASE Sleep(c)
    BY <2>7 DEF Sleep
  <2>8. CASE Unlist(c)
    BY <2>0, <2>8 DEF Unlist
  <2>9. CASE StopCheck(c)
    BY <2>9 DEF StopCheck
  <2>10. CASE StopEval(c)
    <3>1. stop[<<rule[c], First(todo[c])>>] \in Chan \cup {None}
      BY <2>10, FirstOf DEF StopEval
    <3> QED
      BY <2>10, <3>1 DEF StopEval
  <2>11. CASE StopSend(c)
    BY <2>11 DEF StopSend, StopSendTo
  <2>12. CASE StopEnd(c)
    BY <2>0, <2>12 DEF StopEnd
  <2>13. CASE Save(c)
    BY <1>2, <2>0, <2>13
  <2> QED
    BY <1>3, <2>1, <2>2, <2>3, <2>4, <2>5, <2>6, <2>7, <2>8, <2>9, <2>10,
       <2>11, <2>12, <2>13 DEF ProcStep
<1>4. ASSUME NEW ch \in Chan, ListenerStep(ch) PROVE TypeInv'
  <2>0. ch \in Threads
    BY DEF Threads
  <2>1. CASE Listen(ch)
    <3>1. ch[1] \in Rules
      BY Chans
    <3>2. UNCHANGED <<fields, disk, closing, saves, pc, locals>>
      BY <2>1 DEF Listen, ListenThen
    <3>3. sock' \in [Chan -> Sock] /\ recv' \subseteq Chan
      BY <2>1 DEF Listen, ListenThen, Sock
    <3>4. leaked' \subseteq Rules
      BY <2>1, <3>1 DEF Listen, ListenThen
    <3> QED
      BY <3>2, <3>3, <3>4
  <2>2. CASE Failed(ch)
    <3>1. ch[1] \in Rules
      BY Chans
    <3>2. /\ stop' \in [Rules \X Protos -> Chan \cup {None}]
          /\ run' \in [Rules -> BOOLEAN] /\ left' \in [Threads -> SUBSET Rules]
      <4>1. CASE UNCHANGED <<run, stop, left>>
        BY <4>1
      <4>2. CASE /\ run' = [run EXCEPT ![ch[1]] = FALSE]
                 /\ stop' = [rp \in DOMAIN stop |->
                               IF rp \in {ch[1]} \X {ch[2]} THEN None ELSE stop[rp]]
                 /\ left' = [left EXCEPT ![ch] = listed]
        <5>1. DOMAIN stop = Rules \X Protos
          OBVIOUS
        <5>2. stop' \in [Rules \X Protos -> Chan \cup {None}]
          BY <4>2, <5>1
        <5> QED
          BY <2>0, <3>1, <4>2, <5>2
      <4> QED
        BY <2>2, <4>1, <4>2 DEF Failed, FailedClears, Running, Saving
    <3>3. sock' \in [Chan -> Sock]
      BY <2>2 DEF Failed, FailedClears, Sock
    <3> QED
      BY <2>2, <3>2, <3>3 DEF Failed, FailedClears
  <2>3. CASE FailureSaved(ch)
    BY <2>3 DEF FailureSaved, Sock
  <2>4. CASE CloseListener(ch)
    BY <2>4 DEF CloseListener, Sock
  <2>5. CASE Save(ch)
    BY <1>2, <2>0, <2>5
  <2> QED
    BY <1>4, <2>1, <2>2, <2>3, <2>4, <2>5 DEF ListenerStep
<1>5. CASE Crash
  BY <1>5, TypeCrash
<1>6. CASE Resume
  BY <1>6 DEF Resume, Procs
<1>7. CASE Booted
  BY <1>7 DEF Booted, Goto, Procs, Readable
<1>8. CASE UNCHANGED vars
  BY <1>8
<1> QED
  BY <1>1, <1>3, <1>4, <1>5, <1>6, <1>7, <1>8 DEF Next

\* Every variable keeps its type, for every choice of the constants.
THEOREM TypeCorrect == Spec => []TypeOK
<1>1. Spec => []TypeInv
  BY TypeInit, TypeNext, PTL DEF Spec
<1> QED
  BY <1>1, PTL DEF TypeInv

-----------------------------------------------------------------------------
(* One administrator: at most one request is being served. *)

OneCaller == \A c, d \in Callers : c = d

\* The request that is served is the only one, start-up included, and a Start,
\* a Stop or a save returns to a place where nothing is half done.
OneActive == \A c, d \in Procs : pc[c] # "idle" /\ pc[d] # "idle" => c = d
Returns == \A c \in Procs : after[c] \in {"idle", "boot", "edited", "sleep"}
ControlInv == OneActive /\ Returns

LEMMA ControlInit == Init => ControlInv
BY DEF Init, ControlInv, OneActive, Returns

\* A request begins when nothing else is active.
LEMMA BeginControl ==
  ASSUME OneCaller, TypeInv, ControlInv, NEW c \in Callers, NEW r, NEW to \in PC,
         NEW next \in {"idle", "edited"}, Begin(c, r, to, next)
  PROVE  ControlInv'
<1>1. pc' = [pc EXCEPT ![c] = to] /\ after' = [after EXCEPT ![c] = next]
  BY DEF Begin, Goto
<1>2. \A d \in Procs : pc[d] = "idle"
  BY DEF OneCaller, Begin, Goto, Procs, ControlInv, OneActive
<1>3. \A d \in Procs : d # c => pc'[d] = "idle"
  BY <1>1, <1>2 DEF TypeInv, TypeOK
<1> QED
  BY <1>1, <1>3 DEF TypeInv, TypeOK, ControlInv, OneActive, Returns

\* An active process goes on, and may return.
LEMMA StepControl ==
  ASSUME TypeInv, ControlInv, NEW c \in Procs, pc[c] # "idle",
         \E to \in PC : pc' = [pc EXCEPT ![c] = to],
         \/ UNCHANGED after
         \/ \E next \in {"idle", "sleep", "boot"} : after' = [after EXCEPT ![c] = next]
  PROVE  ControlInv'
<1>1. \A d \in Procs : d # c => pc'[d] = "idle"
  BY DEF TypeInv, TypeOK, ControlInv, OneActive
<1>2. OneActive'
  BY <1>1 DEF OneActive
<1>3. Returns'
  BY DEF TypeInv, TypeOK, ControlInv, Returns
<1> QED
  BY <1>2, <1>3 DEF ControlInv

LEMMA ControlNext ==
  OneCaller /\ TypeInv /\ ControlInv /\ [Next]_vars => ControlInv'
<1> SUFFICES ASSUME OneCaller, TypeInv, ControlInv, [Next]_vars PROVE ControlInv'
  OBVIOUS
<1>0. ASSUME UNCHANGED <<pc, after>> PROVE ControlInv'
  BY <1>0 DEF ControlInv, OneActive, Returns
<1>1. ASSUME NEW c \in Callers, Request(c) PROVE ControlInv'
  <2>1. \/ UNCHANGED <<pc, after>>
        \/ \E r \in Rules, to \in PC, next \in {"idle", "edited"} : Begin(c, r, to, next)
    <3> USE DEF Refuse, Named, PC, TypeInv, TypeOK
    <3>1. CASE HandleStartProxy(c)
      BY <3>1 DEF HandleStartProxy
    <3>2. CASE HandleStopProxy(c)
      BY <3>2 DEF HandleStopProxy
    <3>3. CASE HandleAddProxyConfig(c)
      BY <3>3 DEF HandleAddProxyConfig, AddConfig
    <3>4. CASE HandleEditProxyConfigs(c)
      BY <3>4 DEF HandleEditProxyConfigs
    <3>5. CASE HandleRemoveProxy(c)
      BY <3>5 DEF HandleRemoveProxy
    <3> QED
      BY <1>1, <3>1, <3>2, <3>3, <3>4, <3>5 DEF Request
  <2> QED
    BY <1>0, <2>1, BeginControl
<1>2. ASSUME NEW t \in Threads, Save(t) PROVE ControlInv'
  BY <1>0, <1>2 DEF Save, SaveOpen, SaveWrite, locals
<1>3. ASSUME NEW c \in Procs, ProcStep(c) PROVE ControlInv'
  <2>0. CASE Save(c)
    BY <1>2, <2>0 DEF Threads
  <2>1. CASE StartNext(c)
    BY <1>0, <2>1 DEF StartNext
  <2>2. CASE ~Save(c) /\ ~StartNext(c)
    <3>1. /\ pc[c] # "idle"
          /\ \E to \in PC : pc' = [pc EXCEPT ![c] = to]
          /\ \/ UNCHANGED after
             \/ \E next \in {"idle", "sleep"} : after' = [after EXCEPT ![c] = next]
      <4> USE DEF Goto, Return, PC, TypeInv, TypeOK
      <4>1. CASE SaveReturn(c)
        BY <4>1 DEF SaveReturn
      <4>2. CASE Start(c)
        BY <4>2 DEF Start
      <4>3. CASE StartEnd(c)
        BY <4>3 DEF StartEnd, locals
      <4>4. CASE Edited(c)
        BY <4>4 DEF Edited
      <4>5. CASE Restart(c)
        BY <4>5 DEF Restart
      <4>6. CASE Sleep(c)
        BY <4>6 DEF Sleep
      <4>7. CASE Unlist(c)
        BY <4>7 DEF Unlist, locals
      <4>8. CASE StopCheck(c)
        BY <4>8 DEF StopCheck
      <4>9. CASE StopEval(c)
        BY <4>9 DEF StopEval
      <4>10. CASE StopSend(c)
        BY <4>10 DEF StopSend, StopSendTo
      <4>11. CASE StopEnd(c)
        BY <4>11 DEF StopEnd, locals
      <4> QED
        BY <1>3, <2>2, <4>1, <4>2, <4>3, <4>4, <4>5, <4>6, <4>7, <4>8, <4>9,
           <4>10, <4>11 DEF ProcStep
    <3> QED
      BY <3>1, StepControl
  <2> QED
    BY <2>0, <2>1, <2>2
<1>4. ASSUME NEW ch \in Chan, ListenerStep(ch) PROVE ControlInv'
  BY <1>0, <1>2, <1>4 DEF ListenerStep, Threads, Listen, ListenThen, Failed,
     FailedClears, FailureSaved, CloseListener, locals
<1>5. CASE Crash
  <2>1. \A d \in Procs : d # Main => pc'[d] = "idle"
    BY <1>5 DEF Crash
  <2> QED
    BY <1>5, <2>1 DEF Crash, ControlInv, OneActive, Returns
<1>6. CASE Resume
  <2>1. CASE UNCHANGED <<pc, after>>
    BY <1>0, <2>1
  <2>2. CASE /\ pc' = [pc EXCEPT ![Main] = "start"]
             /\ after' = [after EXCEPT ![Main] = "boot"]
    BY <1>6, <2>2, StepControl DEF Resume, Procs, PC
  <2> QED
    BY <1>6, <2>1, <2>2 DEF Resume
<1>7. CASE Booted
  BY <1>7, StepControl DEF Booted, Goto, Procs, PC, locals
<1>8. CASE UNCHANGED vars
  BY <1>0, <1>8 DEF vars, locals
<1> QED
  BY <1>1, <1>3, <1>4, <1>5, <1>6, <1>7, <1>8 DEF Next

-----------------------------------------------------------------------------
(* What a rule's fields say of its listeners. *)

\* The field of its rule that a stop channel is, or was, stored in; and a field
\* holds a channel made for it.
Field(ch) == stop[<<ch[1], ch[2]>>]
FieldsOfRule == \A r \in Rules, p \in Protos :
    stop[<<r, p>>] \in ({r} \X {p} \X Ids) \cup {None}

\* A listener that is to come, that failed or that can be stopped is the one in
\* the field; one that is closing, or whose failure is being saved, is not; and
\* an open socket has a stop handler.
SocketOf(ch) ==
    /\ sock[ch] \in {"starting", "failed"} \/ ch \in recv => Field(ch) = ch
    /\ ch \in closing \/ sock[ch] = "saving" => Field(ch) # ch
    /\ ch \in recv \cup closing <=> sock[ch] = "bound"
    /\ ch[2] = "tcp" /\ Field(ch) = ch => sock[ch] # "off"
Sockets == FieldsOfRule /\ \A ch \in Chan : SocketOf(ch)

\* A Start finds empty the fields it has still to set; a Stop has taken its
\* channel from the field of the protocol it is at.
StartFrom(c) == pc[c] = "start_next"
    => \A p \in todo[c] : stop[<<rule[c], p>>] = None
StopAt(c) ==
    /\ pc[c] \in {"stop_eval", "stop_send"} => todo[c] # {}
    /\ pc[c] = "stop_send" =>
          sending[c] \in ({rule[c]} \X {First(todo[c])} \X Ids) \cup {None}
ServeInv == Sockets /\ \A c \in Procs : StartFrom(c) /\ StopAt(c)

LEMMA ServeInit == Init => ServeInv
<1> SUFFICES ASSUME Init PROVE ServeInv
  OBVIOUS
<1>1. \A ch \in Chan : Field(ch) = None /\ ch # None
  BY Chans, NoneAssumption DEF Init, Field
<1> QED
  BY <1>1 DEF Init, ServeInv, Sockets, FieldsOfRule, SocketOf, StartFrom, StopAt

\* What a step must not disturb.
LEMMA SocketsKept ==
  ASSUME Sockets, UNCHANGED <<stop, recv, closing, sock>>
  PROVE  Sockets'
BY DEF Sockets, FieldsOfRule, SocketOf, Field

\* A process that does not move keeps its part, when fields are only cleared.
LEMMA ProcKept ==
  ASSUME TypeInv, ServeInv, NEW c \in Procs,
         \A rp \in Rules \X Protos : stop'[rp] \in {stop[rp], None},
         pc'[c] = pc[c], rule'[c] = rule[c], todo'[c] = todo[c],
         sending'[c] = sending[c]
  PROVE  StartFrom(c)' /\ StopAt(c)'
<1>1. StopAt(c)'
  BY DEF ServeInv, StopAt
<1>2. StartFrom(c)'
  <2> SUFFICES ASSUME pc[c] = "start_next", NEW p \in todo[c]
               PROVE  stop'[<<rule[c], p>>] = None
    BY DEF StartFrom
  <2>1. rule[c] \in Rules /\ p \in Protos /\ stop[<<rule[c], p>>] = None
    BY DEF TypeInv, TypeOK, HasRule, ServeInv, StartFrom
  <2> QED
    BY <2>1
<1> QED
  BY <1>1, <1>2

\* A process that is elsewhere has nothing to keep.
LEMMA ProcElsewhere ==
  ASSUME NEW c \in Procs, pc'[c] \notin {"start_next", "stop_eval", "stop_send"}
  PROVE  StartFrom(c)' /\ StopAt(c)'
BY DEF StartFrom, StopAt

\* Only one process is active: the others have nothing to keep.
LEMMA OthersIdle ==
  ASSUME TypeInv, ControlInv, NEW c \in Procs, pc[c] # "idle",
         \E to : pc' = [pc EXCEPT ![c] = to]
  PROVE  \A d \in Procs : d # c => StartFrom(d)' /\ StopAt(d)'
BY ProcElsewhere DEF TypeInv, TypeOK, ControlInv, OneActive

LEMMA StartNextServes ==
  ASSUME TypeInv, ControlInv, ServeInv, NEW c \in Procs, StartNext(c)
  PROVE  ServeInv'
<1> DEFINE r == rule[c]
           p == First(todo[c])
<1>1. /\ pc[c] = "start_next" /\ UNCHANGED <<pc, rule, sending, recv, closing>>
      /\ r \in Rules /\ p \in todo[c] /\ p \in Protos
      /\ todo' = [todo EXCEPT ![c] = @ \ {p}]
  BY FirstOf DEF StartNext, TypeInv, TypeOK, HasRule
<1>2. \A q \in todo[c] : stop[<<r, q>>] = None
  BY <1>1 DEF ServeInv, StartFrom
<1>3. \A d \in Procs : d # c => StartFrom(d)' /\ StopAt(d)'
  BY <1>1, ProcElsewhere DEF TypeInv, TypeOK, ControlInv, OneActive
<1>4. StopAt(c)'
  BY <1>1 DEF StopAt
<1>5. CASE UNCHANGED <<stop, sock>>
  <2>1. Sockets'
    BY <1>1, <1>5, SocketsKept DEF ServeInv
  <2>2. StartFrom(c)'
    BY <1>1, <1>2, <1>5 DEF StartFrom, TypeInv, TypeOK
  <2> QED
    BY <1>3, <1>4, <2>1, <2>2 DEF ServeInv
<1>6. ASSUME NEW ch \in {r} \X {p} \X Ids, Free(ch),
             stop' = [stop EXCEPT ![<<r, p>>] = ch],
             sock' = [sock EXCEPT ![ch] = "starting"]
      PROVE  ServeInv'
  <2>1. ch \in Chan /\ ch[1] = r /\ ch[2] = p
    BY <1>1, <1>6 DEF Chan
  <2>2. /\ stop'[<<r, p>>] = ch /\ stop[<<r, p>>] = None /\ ch # None
        /\ \A rp \in Rules \X Protos : rp # <<r, p>> => stop'[rp] = stop[rp]
    BY <1>1, <1>2, <1>6, <2>1, NoneAssumption DEF TypeInv, TypeOK
  <2>3. /\ sock'[ch] = "starting" /\ ch \notin recv \cup closing
        /\ \A e \in Chan : e # ch => sock'[e] = sock[e]
    BY <1>6, <2>1 DEF TypeInv, TypeOK, Free
  <2>4. FieldsOfRule'
    <3> SUFFICES ASSUME NEW s \in Rules, NEW q \in Protos
                 PROVE  stop'[<<s, q>>] \in ({s} \X {q} \X Ids) \cup {None}
      BY DEF FieldsOfRule
    <3>1. CASE <<s, q>> = <<r, p>>
      BY <1>6, <2>2, <3>1
    <3>2. CASE <<s, q>> # <<r, p>>
      BY <2>2, <3>2 DEF ServeInv, Sockets, FieldsOfRule
    <3> QED
      BY <3>1, <3>2
  <2>5. ASSUME NEW e \in Chan PROVE SocketOf(e)'
    <3>0. SocketOf(e) /\ <<e[1], e[2]>> \in Rules \X Protos /\ e # None
      BY Chans, NoneAssumption DEF ServeInv, Sockets
    <3>1. CASE e = ch
      BY <1>1, <2>1, <2>2, <2>3, <3>0, <3>1 DEF SocketOf, Field
    <3>2. CASE e # ch /\ <<e[1], e[2]>> = <<r, p>>
      BY <1>1, <2>2, <2>3, <3>0, <3>2 DEF SocketOf, Field
    <3>3. CASE <<e[1], e[2]>> # <<r, p>>
      BY <1>1, <2>1, <2>2, <2>3, <3>0, <3>3 DEF SocketOf, Field
    <3> QED
      BY <3>1, <3>2, <3>3
  <2>6. StartFrom(c)'
    <3>1. \A q \in todo'[c] : q \in Protos /\ q # p /\ stop[<<r, q>>] = None
      BY <1>1, <1>2 DEF TypeInv, TypeOK
    <3>2. \A q \in todo'[c] : stop'[<<r, q>>] = None
      BY <1>1, <2>2, <3>1
    <3> QED
      BY <1>1, <3>2 DEF StartFrom
  <2> QED
    BY <1>3, <1>4, <2>4, <2>5, <2>6 DEF ServeInv, Sockets
<1> QED
  BY <1>1, <1>5, <1>6 DEF StartNext

LEMMA StopSendServes ==
  ASSUME TypeInv, ControlInv, ServeInv, NEW c \in Procs, StopSend(c)
  PROVE  ServeInv'
<1> DEFINE r == rule[c]
           p == First(todo[c])
           ch == sending[c]
<1>1. /\ pc[c] = "stop_send" /\ pc' = [pc EXCEPT ![c] = "stop"]
      /\ ch \in recv /\ recv' = recv \ {ch} /\ closing' = closing \cup {ch}
      /\ stop' = [stop EXCEPT ![<<r, p>>] = None] /\ UNCHANGED sock
      /\ r \in Rules /\ p \in Protos /\ ch \in Chan
  BY FirstOf DEF StopSend, StopSendTo, Goto, TypeInv, TypeOK, HasRule
<1>2. ch[1] = r /\ ch[2] = p /\ Field(ch) = ch
  <2>1. ch # None
    BY <1>1, NoneAssumption
  <2>2. ch \in {r} \X {p} \X Ids
    BY <1>1, <2>1 DEF ServeInv, StopAt
  <2>3. SocketOf(ch)
    BY <1>1 DEF ServeInv, Sockets
  <2> QED
    BY <1>1, <2>2, <2>3 DEF SocketOf
<1>3. /\ stop'[<<r, p>>] = None /\ stop[<<r, p>>] = ch
      /\ \A rp \in Rules \X Protos : rp # <<r, p>> => stop'[rp] = stop[rp]
  BY <1>1, <1>2 DEF TypeInv, TypeOK, Field
<1>4. FieldsOfRule'
  <2> SUFFICES ASSUME NEW s \in Rules, NEW q \in Protos
               PROVE  stop'[<<s, q>>] \in ({s} \X {q} \X Ids) \cup {None}
    BY DEF FieldsOfRule
  <2> QED
    BY <1>3 DEF ServeInv, Sockets, FieldsOfRule
<1>5. ASSUME NEW e \in Chan PROVE SocketOf(e)'
  <2>0. SocketOf(e) /\ <<e[1], e[2]>> \in Rules \X Protos /\ e # None
    BY Chans, NoneAssumption DEF ServeInv, Sockets
  <2>1. CASE e = ch
    BY <1>1, <1>2, <1>3, <2>0, <2>1 DEF SocketOf, Field
  <2>2. CASE e # ch /\ <<e[1], e[2]>> = <<r, p>>
    BY <1>1, <1>3, <2>0, <2>2 DEF SocketOf, Field
  <2>3. CASE <<e[1], e[2]>> # <<r, p>>
    BY <1>1, <1>2, <1>3, <2>0, <2>3 DEF SocketOf, Field
  <2> QED
    BY <2>1, <2>2, <2>3
<1>6. \A d \in Procs : StartFrom(d)' /\ StopAt(d)'
  BY <1>1, OthersIdle, ProcElsewhere DEF TypeInv, TypeOK
<1> QED
  BY <1>4, <1>5, <1>6 DEF ServeInv, Sockets

LEMMA FailedServes ==
  ASSUME TypeInv, ControlInv, ServeInv, NEW ch \in Chan, Failed(ch)
  PROVE  ServeInv'
<1>1. /\ sock[ch] = "failed" /\ UNCHANGED <<recv, closing, pc, rule, todo, sending>>
  BY DEF Failed, FailedClears, locals
<1>2. SocketOf(ch) /\ Field(ch) = ch /\ ch[1] \in Rules /\ ch[2] \in Protos
      /\ ch # None
  BY <1>1, Chans, NoneAssumption DEF ServeInv, Sockets, SocketOf
<1>3. \A e \in Chan : /\ SocketOf(e) /\ <<e[1], e[2]>> \in Rules \X Protos
                      /\ e # None
  BY Chans, NoneAssumption DEF ServeInv, Sockets
<1>4. CASE /\ ch[2] = "udp" /\ sock' = [sock EXCEPT ![ch] = "off"]
           /\ UNCHANGED stop
  <2>1. ASSUME NEW e \in Chan PROVE SocketOf(e)'
    <3>1. CASE e = ch
      BY <1>1, <1>2, <1>4, <3>1 DEF SocketOf, Field, TypeInv, TypeOK
    <3>2. CASE e # ch
      BY <1>1, <1>3, <1>4, <3>2 DEF SocketOf, Field, TypeInv, TypeOK
    <3> QED
      BY <3>1, <3>2
  <2>2. \A d \in Procs : StartFrom(d)' /\ StopAt(d)'
    BY <1>1, <1>4, ProcKept
  <2> QED
    BY <1>4, <2>1, <2>2 DEF ServeInv, Sockets, FieldsOfRule
<1>5. CASE /\ sock' = [sock EXCEPT ![ch] = "saving"]
           /\ stop' = [rp \in DOMAIN stop |->
                         IF rp \in {ch[1]} \X {ch[2]} THEN None ELSE stop[rp]]
  <2>1. /\ DOMAIN stop = Rules \X Protos
        /\ stop'[<<ch[1], ch[2]>>] = None
        /\ \A rp \in Rules \X Protos :
              stop'[rp] = IF rp = <<ch[1], ch[2]>> THEN None ELSE stop[rp]
    BY <1>2, <1>5 DEF TypeInv, TypeOK
  <2>2. ASSUME NEW e \in Chan PROVE SocketOf(e)'
    <3>1. CASE e = ch
      BY <1>1, <1>2, <1>5, <2>1, <3>1 DEF SocketOf, Field, TypeInv, TypeOK
    <3>2. CASE e # ch
      BY <1>1, <1>2, <1>3, <1>5, <2>1, <3>2 DEF SocketOf, Field, TypeInv, TypeOK
    <3> QED
      BY <3>1, <3>2
  <2>3. \A d \in Procs : StartFrom(d)' /\ StopAt(d)'
    BY <1>1, <2>1, ProcKept
  <2>4. FieldsOfRule'
    BY <2>1 DEF ServeInv, Sockets, FieldsOfRule
  <2> QED
    BY <2>2, <2>3, <2>4 DEF ServeInv, Sockets
<1> QED
  BY <1>4, <1>5 DEF Failed, FailedClears

LEMMA ServeNext ==
  OneCaller /\ TypeInv /\ ControlInv /\ ServeInv /\ [Next]_vars => ServeInv'
<1> SUFFICES ASSUME OneCaller, TypeInv, ControlInv, ServeInv, [Next]_vars
             PROVE  ServeInv'
  OBVIOUS
<1>0. ASSUME UNCHANGED <<stop, recv, closing, sock, pc, rule, todo, sending>>
      PROVE  ServeInv'
  BY <1>0, SocketsKept, ProcKept DEF ServeInv
<1>1. ASSUME NEW c \in Callers, Request(c) PROVE ServeInv'
  <2>1. /\ pc[Main] = "idle" /\ pc[c] = "idle"
        /\ UNCHANGED <<stop, recv, closing, sock>>
        /\ \/ UNCHANGED pc
           \/ \E to \in {"start", "stop", "save", "unlist"} : pc' = [pc EXCEPT ![c] = to]
    <3> USE DEF Begin, Goto, Refuse, goroutines, fields
    <3>1. CASE HandleStartProxy(c)
      BY <3>1 DEF HandleStartProxy
    <3>2. CASE HandleStopProxy(c)
      BY <3>2 DEF HandleStopProxy
    <3>3. CASE HandleAddProxyConfig(c)
      BY <3>3 DEF HandleAddProxyConfig, AddConfig
    <3>4. CASE HandleEditProxyConfigs(c)
      BY <3>4 DEF HandleEditProxyConfigs
    <3>5. CASE HandleRemoveProxy(c)
      BY <3>5 DEF HandleRemoveProxy
    <3> QED
      BY <1>1, <3>1, <3>2, <3>3, <3>4, <3>5 DEF Request
  <2>2. \A d \in Procs : pc'[d] \in {"idle", "start", "stop", "save", "unlist"}
    BY <2>1 DEF OneCaller, Procs, TypeInv, TypeOK
  <2> QED
    BY <2>1, <2>2, SocketsKept, ProcElsewhere DEF ServeInv
<1>2. ASSUME NEW t \in Threads, Save(t) PROVE ServeInv'
  BY <1>0, <1>2 DEF Save, SaveOpen, SaveWrite, fields, goroutines, locals
<1>3. ASSUME NEW c \in Procs, ProcStep(c) PROVE ServeInv'
  <2>0. CASE Save(c)
    BY <1>2, <2>0 DEF Threads
  <2>1. CASE StartNext(c)
    BY <2>1, StartNextServes
  <2>2. CASE StopSend(c)
    BY <2>2, StopSendServes
  <2>3. ASSUME NEW to, pc[c] # "idle", pc' = [pc EXCEPT ![c] = to],
               to \notin {"start_next", "stop_eval", "stop_send"},
               UNCHANGED <<stop, recv, closing, sock>>
        PROVE  ServeInv'
    <3>1. StartFrom(c)' /\ StopAt(c)'
      BY <2>3, ProcElsewhere DEF TypeInv, TypeOK
    <3> QED
      BY <2>3, <3>1, OthersIdle, SocketsKept DEF ServeInv
  <2>4. CASE SaveReturn(c)
    BY <2>3, <2>4 DEF SaveReturn, Return, ControlInv, Returns, fields, goroutines
  <2>5. CASE Start(c)
    <3>1. UNCHANGED <<stop, recv, closing, sock>> /\ pc[c] = "start" /\ rule[c] \in Rules
      BY <2>5 DEF Start, goroutines, TypeInv, HasRule
    <3>2. CASE IsRunning(rule[c])
      BY <2>3, <2>5, <3>1, <3>2 DEF Start, Return, ControlInv, Returns
    <3>3. CASE ~IsRunning(rule[c])
      <4>1. pc' = [pc EXCEPT ![c] = "start_next"] /\ UNCHANGED rule
        BY <2>5, <3>3 DEF Start
      <4>2. StartFrom(c)'
        <5>1. \A p \in Protos : stop[<<rule[c], p>>] = None
          BY <3>3 DEF IsRunning
        <5>2. todo' = [todo EXCEPT ![c] = Protos] /\ todo'[c] = Protos
          BY <2>5, <3>3 DEF Start, TypeInv, TypeOK
        <5>3. rule'[c] = rule[c] /\ stop' = stop
          BY <3>1, <4>1
        <5> QED
          BY <5>1, <5>2, <5>3 DEF StartFrom
      <4>3. StopAt(c)'
        BY <4>1 DEF StopAt, TypeInv, TypeOK
      <4> QED
        BY <3>1, <4>1, <4>2, <4>3, OthersIdle, SocketsKept DEF ServeInv
    <3> QED
      BY <3>2, <3>3
  <2>6. CASE StartEnd(c)
    BY <2>3, <2>6 DEF StartEnd, Goto, goroutines
  <2>7. CASE Edited(c)
    BY <2>3, <2>7 DEF Edited, Goto, Return, ControlInv, Returns, fields, goroutines
  <2>8. CASE Restart(c)
    BY <2>3, <2>8 DEF Restart, fields, goroutines
  <2>9. CASE Sleep(c)
    BY <2>3, <2>9 DEF Sleep, Goto, fields, goroutines
  <2>10. CASE Unlist(c)
    BY <2>3, <2>10 DEF Unlist, Goto, goroutines
  <2>11. CASE StopCheck(c)
    <3>1. /\ UNCHANGED <<stop, recv, closing, sock>> /\ pc[c] = "stop"
          /\ todo[c] # {}
      BY <2>11 DEF StopCheck, fields, goroutines
    <3>2. CASE UNCHANGED pc
      BY <2>3, <3>1, <3>2 DEF TypeInv, TypeOK
    <3>3. CASE pc' = [pc EXCEPT ![c] = "stop_eval"] /\ UNCHANGED todo
      <4>1. StartFrom(c)' /\ StopAt(c)'
        BY <3>1, <3>3 DEF StartFrom, StopAt, TypeInv, TypeOK
      <4> QED
        BY <3>1, <3>3, <4>1, OthersIdle, SocketsKept DEF ServeInv
    <3> QED
      BY <2>11, <3>2, <3>3 DEF StopCheck
  <2>12. CASE StopEval(c)
    <3>1. /\ UNCHANGED <<stop, recv, closing, sock, rule, todo>>
          /\ pc[c] = "stop_eval" /\ pc' = [pc EXCEPT ![c] = "stop_send"]
          /\ sending'[c] = stop[<<rule[c], First(todo[c])>>]
          /\ rule[c] \in Rules /\ First(todo[c]) \in Protos /\ todo[c] # {}
      BY <2>12, FirstOf DEF StopEval, Goto, fields, goroutines, TypeInv, TypeOK,
         HasRule, ServeInv, StopAt
    <3>2. StopAt(c)'
      BY <3>1 DEF ServeInv, Sockets, FieldsOfRule, StopAt
    <3>3. StartFrom(c)'
      BY <3>1 DEF StartFrom, TypeInv, TypeOK
    <3> QED
      BY <3>1, <3>2, <3>3, OthersIdle, SocketsKept DEF ServeInv
  <2>13. CASE StopEnd(c)
    BY <2>3, <2>13 DEF StopEnd, Goto, goroutines
  <2> QED
    BY <1>3, <2>0, <2>1, <2>2, <2>4, <2>5, <2>6, <2>7, <2>8, <2>9, <2>10, <2>11,
       <2>12, <2>13 DEF ProcStep
<1>4. ASSUME NEW ch \in Chan, ListenerStep(ch) PROVE ServeInv'
  <2>1. CASE Failed(ch)
    BY <2>1, FailedServes
  <2>2. CASE Save(ch)
    BY <1>2, <2>2 DEF Threads
  <2>3. CASE Listen(ch) \/ FailureSaved(ch) \/ CloseListener(ch)
    <3>1. UNCHANGED <<stop, pc, rule, todo, sending>>
      BY <2>3 DEF Listen, ListenThen, FailureSaved, CloseListener, fields, locals
    <3>2. \A d \in Procs : StartFrom(d)' /\ StopAt(d)'
      BY <3>1, ProcKept
    <3>3. ASSUME NEW e \in Chan PROVE SocketOf(e)'
      <4>1. SocketOf(e) /\ SocketOf(ch)
        BY DEF ServeInv, Sockets
      <4>2. CASE Listen(ch)
        BY <3>1, <4>1, <4>2 DEF Listen, ListenThen, SocketOf, Field, TypeInv, TypeOK
      <4>3. CASE FailureSaved(ch)
        BY <3>1, <4>1, <4>3 DEF FailureSaved, SocketOf, Field, TypeInv, TypeOK
      <4>4. CASE CloseListener(ch)
        BY <3>1, <4>1, <4>4 DEF CloseListener, SocketOf, Field, TypeInv, TypeOK
      <4> QED
        BY <2>3, <4>2, <4>3, <4>4
    <3> QED
      BY <3>1, <3>2, <3>3 DEF ServeInv, Sockets, FieldsOfRule
  <2> QED
    BY <1>4, <2>1, <2>2, <2>3 DEF ListenerStep
<1>5. CASE Crash
  <2>1. \A ch \in Chan : Field(ch)' = None /\ ch # None
    BY <1>5, Chans, NoneAssumption DEF Crash, Field
  <2>2. Sockets'
    <3>1. FieldsOfRule'
      BY <1>5 DEF Crash, FieldsOfRule
    <3>2. \A ch \in Chan : SocketOf(ch)'
      <4>1. recv' = {} /\ closing' = {} /\ \A ch \in Chan : sock'[ch] = "off"
        BY <1>5 DEF Crash
      <4> QED
        BY <2>1, <4>1 DEF SocketOf
    <3> QED
      BY <3>1, <3>2 DEF Sockets
  <2>3. \A d \in Procs : pc'[d] \in {"idle", "boot"}
    BY <1>5 DEF Crash
  <2> QED
    BY <2>2, <2>3, ProcElsewhere DEF ServeInv
<1>6. CASE Resume
  <2>1. CASE UNCHANGED <<pc, rule>>
    BY <1>0, <1>6, <2>1 DEF Resume, fields, goroutines
  <2>2. CASE pc' = [pc EXCEPT ![Main] = "start"]
    <3>1. Main \in Procs /\ pc[Main] = "boot" /\ UNCHANGED <<stop, recv, closing, sock>>
      BY <1>6 DEF Resume, Procs, fields, goroutines
    <3> QED
      BY <2>2, <3>1, OthersIdle, ProcElsewhere, SocketsKept DEF ServeInv, TypeInv, TypeOK
  <2> QED
    BY <1>6, <2>1, <2>2 DEF Resume
<1>7. CASE Booted
  <2>1. /\ Main \in Procs /\ pc[Main] = "boot" /\ pc' = [pc EXCEPT ![Main] = "idle"]
        /\ UNCHANGED <<stop, recv, closing, sock>>
    BY <1>7 DEF Booted, Goto, Procs, goroutines
  <2> QED
    BY <2>1, OthersIdle, ProcElsewhere, SocketsKept DEF ServeInv, TypeInv, TypeOK
<1>8. CASE UNCHANGED vars
  BY <1>0, <1>8 DEF vars, fields, goroutines, locals
<1> QED
  BY <1>1, <1>3, <1>4, <1>5, <1>6, <1>7, <1>8 DEF Next

LEMMA ServeImplies ==
  TypeInv /\ ServeInv => ListenersOwned /\ StoppedServesNobody /\ TcpFieldIsCurrent
<1> SUFFICES ASSUME TypeInv, ServeInv
             PROVE  ListenersOwned /\ StoppedServesNobody /\ TcpFieldIsCurrent
  OBVIOUS
<1>0. \A ch \in Chan : SocketOf(ch) /\ ch # None /\ ch[1] \in Rules /\ ch[2] \in Protos
  BY Chans, NoneAssumption DEF ServeInv, Sockets
<1>1. ListenersOwned
  BY <1>0 DEF ListenersOwned, SocketOf, Field, TypeInv, TypeOK
<1>2. StoppedServesNobody
  BY <1>0 DEF StoppedServesNobody, IsRunning, SocketOf, Field
<1>3. ASSUME NEW r \in Rules, stop[<<r, "tcp">>] # None
      PROVE  sock[stop[<<r, "tcp">>]] \in {"starting", "failed", "bound"}
  <2> DEFINE ch == stop[<<r, "tcp">>]
  <2>1. ch \in {r} \X {"tcp"} \X Ids
    BY <1>3 DEF ServeInv, Sockets, FieldsOfRule, Protos
  <2>2. ch \in Chan /\ ch[1] = r /\ ch[2] = "tcp"
    BY <2>1 DEF Chan, Protos
  <2>3. SocketOf(ch) /\ Field(ch) = ch /\ sock[ch] \in Sock
    BY <1>0, <2>2 DEF Field, TypeInv, TypeOK
  <2> QED
    BY <2>2, <2>3 DEF SocketOf, Sock
<1>4. TcpFieldIsCurrent
  BY <1>3 DEF TcpFieldIsCurrent
<1> QED
  BY <1>1, <1>2, <1>4

\* With one request at a time, and whichever rules fail to listen, when they
\* are edited or when the process ends: no listener is lost, a rule that is not
\* running holds no port, and a TCP field means a listener.
THEOREM ServeCorrect ==
  OneCaller /\ Spec => [](ListenersOwned /\ StoppedServesNobody /\ TcpFieldIsCurrent)
<1> DEFINE IInv == OneCaller /\ TypeInv /\ ControlInv /\ ServeInv
<1>1. OneCaller /\ Init => IInv
  BY TypeInit, ControlInit, ServeInit
<1>2. IInv /\ [Next]_vars => IInv'
  <2>1. OneCaller => OneCaller'
    BY DEF OneCaller
  <2> QED
    BY <2>1, TypeNext, ControlNext, ServeNext
<1>3. IInv => ListenersOwned /\ StoppedServesNobody /\ TcpFieldIsCurrent
  BY ServeImplies
<1> HIDE DEF IInv
<1> QED
  BY <1>1, <1>2, <1>3, PTL DEF Spec

-----------------------------------------------------------------------------
(* The rules whose ports are free, when a rule starts only after its last  *)
(* listeners have closed.                                                  *)

\* Their listeners do not fail: while one is to come none is closing, and a
\* channel in a field has, or is about to have, a receiver.
SoundSocket(ch) == ch[1] \in Sound =>
    /\ sock[ch] \notin {"failed", "saving"}
    /\ sock[ch] = "starting" =>
          \A d \in closing : <<d[1], d[2]>> # <<ch[1], ch[2]>>
    /\ Field(ch) = ch => sock[ch] \in {"starting", "bound"}
SoundSockets == leaked \cap Sound = {} /\ \A ch \in Chan : SoundSocket(ch)

\* While a rule starts, none of its listeners is closing; and a Stop of such a
\* rule goes on with the channel it has seen.
SettledAt(c) == pc[c] = "start_next" => \A d \in closing : d[1] # rule[c]
HeardAt(c) == rule[c] \in Sound =>
    /\ pc[c] = "stop_eval" => stop[<<rule[c], First(todo[c])>>] # None
    /\ pc[c] = "stop_send" => /\ sending[c] = stop[<<rule[c], First(todo[c])>>]
                              /\ sending[c] # None
SoundInv == SoundSockets /\ \A c \in Procs : SettledAt(c) /\ HeardAt(c)

LEMMA SoundInit == Init => SoundInv
<1> SUFFICES ASSUME Init PROVE SoundInv
  OBVIOUS
<1>1. \A ch \in Chan : Field(ch) = None /\ ch # None
  BY Chans, NoneAssumption DEF Init, Field
<1> QED
  BY <1>1 DEF Init, SoundInv, SoundSockets, SoundSocket, SettledAt, HeardAt

LEMMA SoundKept ==
  ASSUME SoundSockets, UNCHANGED <<stop, closing, sock, leaked>>
  PROVE  SoundSockets'
BY DEF SoundSockets, SoundSocket, Field, Sound

LEMMA HeardElsewhere ==
  ASSUME NEW c \in Procs, pc'[c] \notin {"start_next", "stop_eval", "stop_send"}
  PROVE  SettledAt(c)' /\ HeardAt(c)'
BY DEF SettledAt, HeardAt

\* A process that does not move keeps its part when no listener starts closing
\* and the fields of these rules stay.
LEMMA HeardKept ==
  ASSUME TypeInv, SoundInv, NEW c \in Procs, closing' \subseteq closing,
         \A r \in Sound, q \in Protos : stop'[<<r, q>>] = stop[<<r, q>>],
         UNCHANGED <<pc, rule, todo, sending>>
  PROVE  SettledAt(c)' /\ HeardAt(c)'
<1>1. SettledAt(c)'
  BY DEF SoundInv, SettledAt
<1>2. First(todo[c]) \in Protos
  BY FirstOf DEF TypeInv, TypeOK
<1>3. HeardAt(c)'
  BY <1>2 DEF SoundInv, HeardAt, Sound
<1> QED
  BY <1>1, <1>3

LEMMA OthersHeard ==
  ASSUME TypeInv, ControlInv, NEW c \in Procs, pc[c] # "idle",
         \E to : pc' = [pc EXCEPT ![c] = to]
  PROVE  \A d \in Procs : d # c => SettledAt(d)' /\ HeardAt(d)'
BY HeardElsewhere DEF TypeInv, TypeOK, ControlInv, OneActive

\* The port of a rule whose ports are free is not occupied when it listens.
LEMMA SoundListens ==
  ASSUME TypeInv, ServeInv, SoundInv, NEW ch \in Chan, ch[1] \in Sound,
         sock[ch] = "starting"
  PROVE  ~Bound(ch[1], ch[2]) /\ ch[1] \notin leaked /\ <<ch[1], ch[2]>> \notin Fails
<1>1. SocketOf(ch) /\ SoundSocket(ch) /\ ch[1] \in Rules /\ ch[2] \in Protos
  BY Chans DEF ServeInv, Sockets, SoundInv, SoundSockets
<1>2. SUFFICES ASSUME NEW i \in Ids, sock[<<ch[1], ch[2], i>>] = "bound"
               PROVE  FALSE
  BY <1>1 DEF SoundInv, SoundSockets, Sound, Bound
<1> DEFINE e == <<ch[1], ch[2], i>>
<1>3. e \in Chan /\ e[1] = ch[1] /\ e[2] = ch[2] /\ SocketOf(e)
  BY <1>1 DEF Chan, ServeInv, Sockets
<1>4. CASE e \in recv
  BY <1>1, <1>2, <1>3, <1>4 DEF SocketOf, Field
<1>5. CASE e \in closing
  BY <1>1, <1>3, <1>5 DEF SoundSocket
<1> QED
  BY <1>2, <1>3, <1>4, <1>5 DEF SocketOf

LEMMA SoundStartNext ==
  ASSUME TypeInv, ControlInv, ServeInv, SoundInv, NEW c \in Procs, StartNext(c)
  PROVE  SoundInv'
<1> DEFINE r == rule[c]
           p == First(todo[c])
<1>1. /\ pc[c] = "start_next" /\ UNCHANGED <<pc, rule, sending, recv, closing, leaked>>
      /\ r \in Rules /\ p \in Protos
  BY FirstOf DEF StartNext, TypeInv, TypeOK, HasRule
<1>2. \A d \in Procs : SettledAt(d)' /\ HeardAt(d)'
  <2>1. \A d \in Procs : d # c => pc'[d] = "idle"
    BY <1>1 DEF ControlInv, OneActive
  <2>2. SettledAt(c)' /\ HeardAt(c)'
    BY <1>1 DEF SoundInv, SettledAt, HeardAt
  <2> QED
    BY <2>1, <2>2, HeardElsewhere
<1>3. CASE UNCHANGED <<stop, sock>>
  BY <1>1, <1>2, <1>3, SoundKept DEF SoundInv
<1>4. ASSUME NEW ch \in {r} \X {p} \X Ids, Free(ch),
             stop' = [stop EXCEPT ![<<r, p>>] = ch],
             sock' = [sock EXCEPT ![ch] = "starting"]
      PROVE  SoundInv'
  <2>1. ch \in Chan /\ ch[1] = r /\ ch[2] = p
    BY <1>1, <1>4 DEF Chan
  <2>2. \A d \in closing : d[1] # r
    BY <1>1 DEF SoundInv, SettledAt
  <2>3. ASSUME NEW e \in Chan PROVE SoundSocket(e)'
    <3>0. SoundSocket(e) /\ <<e[1], e[2]>> \in Rules \X Protos
      BY Chans DEF SoundInv, SoundSockets
    <3>1. CASE e = ch
      BY <1>1, <1>4, <2>1, <2>2, <3>0, <3>1 DEF SoundSocket, Sound, TypeInv, TypeOK
    <3>2. CASE e # ch
      <4>1. sock'[e] = sock[e] /\ (Field(e)' = e => Field(e) = e)
        BY <1>1, <1>4, <2>1, <3>0, <3>2 DEF Field, TypeInv, TypeOK
      <4> QED
        BY <1>1, <3>0, <4>1 DEF SoundSocket, Sound
    <3> QED
      BY <3>1, <3>2
  <2> QED
    BY <1>1, <1>2, <2>3 DEF SoundInv, SoundSockets, Sound
<1> QED
  BY <1>1, <1>3, <1>4 DEF StartNext

LEMMA SoundStopSend ==
  ASSUME TypeInv, ControlInv, ServeInv, SoundInv, NEW c \in Procs, StopSend(c)
  PROVE  SoundInv'
<1> DEFINE r == rule[c]
           p == First(todo[c])
           ch == sending[c]
<1>1. /\ pc[c] = "stop_send" /\ pc' = [pc EXCEPT ![c] = "stop"]
      /\ ch \in recv /\ closing' = closing \cup {ch}
      /\ stop' = [stop EXCEPT ![<<r, p>>] = None] /\ UNCHANGED <<sock, leaked>>
      /\ ch \in Chan /\ ch # None
  BY NoneAssumption DEF StopSend, StopSendTo, Goto, TypeInv, TypeOK
<1>2. SocketOf(ch) /\ Field(ch) = ch
  BY <1>1 DEF ServeInv, Sockets, SocketOf
<1>3. ASSUME NEW e \in Chan PROVE SoundSocket(e)'
  <2>0. SoundSocket(e) /\ SocketOf(e) /\ e # None /\ <<e[1], e[2]>> \in Rules \X Protos
    BY Chans, NoneAssumption DEF SoundInv, SoundSockets, ServeInv, Sockets
  <2>1. Field(e)' = e => Field(e) = e
    BY <1>1, <2>0 DEF Field, TypeInv, TypeOK
  <2>2. sock[e] = "starting" => <<ch[1], ch[2]>> # <<e[1], e[2]>>
    BY <1>1, <1>2, <2>0 DEF SocketOf, Field
  <2> QED
    BY <1>1, <2>0, <2>1, <2>2 DEF SoundSocket, Sound
<1>4. \A d \in Procs : SettledAt(d)' /\ HeardAt(d)'
  BY <1>1, OthersHeard, HeardElsewhere DEF TypeInv, TypeOK
<1> QED
  BY <1>1, <1>3, <1>4 DEF SoundInv, SoundSockets, Sound

LEMMA SoundListener ==
  ASSUME TypeInv, ServeInv, SoundInv, NEW ch \in Chan,
         Listen(ch) \/ Failed(ch) \/ FailureSaved(ch) \/ CloseListener(ch)
  PROVE  SoundInv'
<1>0. /\ UNCHANGED <<pc, rule, todo, sending>> /\ closing' \subseteq closing
      /\ SocketOf(ch) /\ SoundSocket(ch) /\ ch[1] \in Rules /\ ch[2] \in Protos
  BY Chans DEF Listen, ListenThen, Failed, FailedClears, FailureSaved,
     CloseListener, locals, ServeInv, Sockets, SoundInv, SoundSockets
<1>1. \A r \in Sound, q \in Protos : stop'[<<r, q>>] = stop[<<r, q>>]
  <2>1. CASE Failed(ch)
    <3>1. ch[1] \notin Sound
      BY <1>0, <2>1 DEF Failed, FailedClears, SoundSocket
    <3>2. CASE UNCHANGED stop
      BY <3>2
    <3>3. CASE stop' = [rp \in DOMAIN stop |->
                          IF rp \in {ch[1]} \X {ch[2]} THEN None ELSE stop[rp]]
      BY <3>1, <3>3 DEF TypeInv, TypeOK, Sound
    <3> QED
      BY <2>1, <3>2, <3>3 DEF Failed, FailedClears
  <2>2. CASE ~Failed(ch)
    BY <2>2 DEF Listen, ListenThen, FailureSaved, CloseListener, fields
  <2> QED
    BY <2>1, <2>2
<1>2. \A c \in Procs : SettledAt(c)' /\ HeardAt(c)'
  BY <1>0, <1>1, HeardKept
<1>3. leaked' \cap Sound = {}
  BY <1>0 DEF Listen, ListenThen, Failed, FailedClears, FailureSaved,
     CloseListener, SoundInv, SoundSockets, Sound
<1>4. \A e \in Chan : e # ch => sock'[e] = sock[e]
  BY DEF Listen, ListenThen, Failed, FailedClears, FailureSaved, CloseListener,
     TypeInv, TypeOK
<1>5. ASSUME NEW e \in Chan, e[1] \in Sound PROVE SoundSocket(e)'
  <2>0. /\ SoundSocket(e) /\ SocketOf(e) /\ e[2] \in Protos
        /\ Field(e)' = Field(e)
    BY <1>1, <1>5, Chans DEF SoundInv, SoundSockets, ServeInv, Sockets, Field
  <2>1. CASE e # ch
    BY <1>0, <1>4, <2>0, <2>1 DEF SoundSocket, Sound
  <2>2. CASE e = ch /\ Listen(ch)
    <3>1. sock[ch] = "starting"
      BY <2>2 DEF Listen, ListenThen
    <3>2. sock' = [sock EXCEPT ![ch] = "bound"]
      BY <1>5, <2>2, <3>1, SoundListens DEF Listen, ListenThen
    <3> QED
      BY <1>0, <2>0, <2>2, <3>2 DEF SoundSocket, Sound, TypeInv, TypeOK
  <2>3. CASE e = ch /\ (Failed(ch) \/ FailureSaved(ch))
    BY <1>5, <2>0, <2>3 DEF SoundSocket, Failed, FailedClears, FailureSaved
  <2>4. CASE e = ch /\ CloseListener(ch)
    BY <1>0, <2>0, <2>4 DEF CloseListener, SoundSocket, SocketOf, Sound, TypeInv, TypeOK
  <2> QED
    BY <2>1, <2>2, <2>3, <2>4
<1>6. \A e \in Chan : SoundSocket(e)'
  BY <1>5 DEF SoundSocket, Sound
<1> QED
  BY <1>2, <1>3, <1>6 DEF SoundInv, SoundSockets, Sound

LEMMA SoundNext ==
  /\ OneCaller /\ Settled
  /\ TypeInv /\ ControlInv /\ ServeInv /\ SoundInv /\ [Next]_vars
  => SoundInv'
<1> SUFFICES ASSUME OneCaller, Settled, TypeInv, ControlInv, ServeInv, SoundInv,
                    [Next]_vars
             PROVE  SoundInv'
  OBVIOUS
<1>0. ASSUME UNCHANGED <<stop, closing, sock, leaked, pc, rule, todo, sending>>
      PROVE  SoundInv'
  BY <1>0, SoundKept, HeardKept DEF SoundInv
<1>1. ASSUME NEW c \in Callers, Request(c) PROVE SoundInv'
  <2>1. /\ pc[Main] = "idle" /\ pc[c] = "idle"
        /\ UNCHANGED <<stop, closing, sock, leaked>>
        /\ \/ UNCHANGED pc
           \/ \E to \in {"start", "stop", "save", "unlist"} : pc' = [pc EXCEPT ![c] = to]
    <3> USE DEF Begin, Goto, Refuse, goroutines, fields
    <3>1. CASE HandleStartProxy(c)
      BY <3>1 DEF HandleStartProxy
    <3>2. CASE HandleStopProxy(c)
      BY <3>2 DEF HandleStopProxy
    <3>3. CASE HandleAddProxyConfig(c)
      BY <3>3 DEF HandleAddProxyConfig, AddConfig
    <3>4. CASE HandleEditProxyConfigs(c)
      BY <3>4 DEF HandleEditProxyConfigs
    <3>5. CASE HandleRemoveProxy(c)
      BY <3>5 DEF HandleRemoveProxy
    <3> QED
      BY <1>1, <3>1, <3>2, <3>3, <3>4, <3>5 DEF Request
  <2>2. \A d \in Procs : pc'[d] \in {"idle", "start", "stop", "save", "unlist"}
    BY <2>1 DEF OneCaller, Procs, TypeInv, TypeOK
  <2> QED
    BY <2>1, <2>2, SoundKept, HeardElsewhere DEF SoundInv
<1>2. ASSUME NEW t \in Threads, Save(t) PROVE SoundInv'
  BY <1>0, <1>2 DEF Save, SaveOpen, SaveWrite, fields, goroutines, locals
<1>3. ASSUME NEW c \in Procs, ProcStep(c) PROVE SoundInv'
  <2>0. CASE Save(c)
    BY <1>2, <2>0 DEF Threads
  <2>1. CASE StartNext(c)
    BY <2>1, SoundStartNext
  <2>2. CASE StopSend(c)
    BY <2>2, SoundStopSend
  <2>3. ASSUME NEW to, pc[c] # "idle", pc' = [pc EXCEPT ![c] = to],
               to \notin {"start_next", "stop_eval", "stop_send"},
               UNCHANGED <<stop, closing, sock, leaked>>
        PROVE  SoundInv'
    <3>1. SettledAt(c)' /\ HeardAt(c)'
      BY <2>3, HeardElsewhere DEF TypeInv, TypeOK
    <3> QED
      BY <2>3, <3>1, OthersHeard, SoundKept DEF SoundInv
  <2>4. CASE SaveReturn(c)
    BY <2>3, <2>4 DEF SaveReturn, Return, ControlInv, Returns, fields, goroutines
  <2>5. CASE Start(c)
    <3>1. /\ UNCHANGED <<stop, closing, sock, leaked>> /\ pc[c] = "start"
          /\ \A ch \in closing : ch[1] # rule[c]
      BY <2>5 DEF Start, goroutines
    <3>2. CASE IsRunning(rule[c])
      BY <2>3, <2>5, <3>1, <3>2 DEF Start, Return, ControlInv, Returns
    <3>3. CASE ~IsRunning(rule[c])
      <4>1. pc' = [pc EXCEPT ![c] = "start_next"] /\ UNCHANGED rule
        BY <2>5, <3>3 DEF Start
      <4>2. SettledAt(c)' /\ HeardAt(c)'
        BY <3>1, <4>1 DEF SettledAt, HeardAt, TypeInv, TypeOK
      <4> QED
        BY <3>1, <4>1, <4>2, OthersHeard, SoundKept DEF SoundInv
    <3> QED
      BY <3>2, <3>3
  <2>6. CASE StartEnd(c)
    BY <2>3, <2>6 DEF StartEnd, Goto, goroutines
  <2>7. CASE Edited(c)
    BY <2>3, <2>7 DEF Edited, Goto, Return, ControlInv, Returns, fields, goroutines
  <2>8. CASE Restart(c)
    BY <2>3, <2>8 DEF Restart, fields, goroutines
  <2>9. CASE Sleep(c)
    BY <2>3, <2>9 DEF Sleep, Goto, fields, goroutines
  <2>10. CASE Unlist(c)
    BY <2>3, <2>10 DEF Unlist, Goto, goroutines
  <2>11. CASE StopCheck(c)
    <3>1. UNCHANGED <<stop, closing, sock, leaked, rule>> /\ pc[c] = "stop"
      BY <2>11 DEF StopCheck, fields, goroutines
    <3>2. CASE UNCHANGED pc
      BY <2>3, <3>1, <3>2 DEF TypeInv, TypeOK
    <3>3. CASE /\ stop[<<rule[c], First(todo[c])>>] # None
               /\ pc' = [pc EXCEPT ![c] = "stop_eval"] /\ UNCHANGED todo
      <4>1. SettledAt(c)' /\ HeardAt(c)'
        BY <3>1, <3>3 DEF SettledAt, HeardAt, TypeInv, TypeOK
      <4> QED
        BY <3>1, <3>3, <4>1, OthersHeard, SoundKept DEF SoundInv
    <3> QED
      BY <2>11, <3>2, <3>3 DEF StopCheck
  <2>12. CASE StopEval(c)
    <3>1. /\ UNCHANGED <<stop, closing, sock, leaked, rule, todo>>
          /\ pc[c] = "stop_eval" /\ pc' = [pc EXCEPT ![c] = "stop_send"]
          /\ sending'[c] = stop[<<rule[c], First(todo[c])>>]
      BY <2>12 DEF StopEval, Goto, fields, goroutines, TypeInv, TypeOK
    <3>2. SettledAt(c)' /\ HeardAt(c)'
      BY <3>1 DEF SettledAt, HeardAt, SoundInv, Sound, TypeInv, TypeOK
    <3> QED
      BY <3>1, <3>2, OthersHeard, SoundKept DEF SoundInv
  <2>13. CASE StopEnd(c)
    BY <2>3, <2>13 DEF StopEnd, Goto, goroutines
  <2> QED
    BY <1>3, <2>0, <2>1, <2>2, <2>4, <2>5, <2>6, <2>7, <2>8, <2>9, <2>10, <2>11,
       <2>12, <2>13 DEF ProcStep
<1>4. ASSUME NEW ch \in Chan, ListenerStep(ch) PROVE SoundInv'
  BY <1>2, <1>4, SoundListener DEF ListenerStep, Threads
<1>5. CASE Crash
  <2>1. \A ch \in Chan : Field(ch)' = None /\ ch # None
    BY <1>5, Chans, NoneAssumption DEF Crash, Field
  <2>2. /\ closing' = {} /\ leaked' = {} /\ \A ch \in Chan : sock'[ch] = "off"
        /\ \A d \in Procs : pc'[d] \in {"idle", "boot"}
    BY <1>5 DEF Crash
  <2>3. SoundSockets'
    BY <2>1, <2>2 DEF SoundSockets, SoundSocket
  <2> QED
    BY <2>2, <2>3, HeardElsewhere DEF SoundInv
<1>6. CASE Resume
  <2>1. CASE UNCHANGED <<pc, rule>>
    BY <1>0, <1>6, <2>1 DEF Resume, fields, goroutines
  <2>2. CASE pc' = [pc EXCEPT ![Main] = "start"]
    <3>1. /\ Main \in Procs /\ pc[Main] = "boot"
          /\ UNCHANGED <<stop, closing, sock, leaked>>
      BY <1>6 DEF Resume, Procs, fields, goroutines
    <3> QED
      BY <2>2, <3>1, OthersHeard, HeardElsewhere, SoundKept DEF SoundInv, TypeInv, TypeOK
  <2> QED
    BY <1>6, <2>1, <2>2 DEF Resume
<1>7. CASE Booted
  <2>1. /\ Main \in Procs /\ pc[Main] = "boot" /\ pc' = [pc EXCEPT ![Main] = "idle"]
        /\ UNCHANGED <<stop, closing, sock, leaked>>
    BY <1>7 DEF Booted, Goto, Procs, goroutines
  <2> QED
    BY <2>1, OthersHeard, HeardElsewhere, SoundKept DEF SoundInv, TypeInv, TypeOK
<1>8. CASE UNCHANGED vars
  BY <1>0, <1>8 DEF vars, fields, goroutines, locals
<1> QED
  BY <1>1, <1>3, <1>4, <1>5, <1>6, <1>7, <1>8 DEF Next

LEMMA SoundImplies == TypeInv /\ ServeInv /\ SoundInv => SoundStopIsHeard
<1> SUFFICES ASSUME TypeInv, ServeInv, SoundInv, NEW r \in Sound, NEW c \in Procs,
                    pc[c] = "stop_send", rule[c] = r
             PROVE  /\ sending[c] # None
                    /\ sending[c] \in recv \/ sock[sending[c]] = "starting"
  BY DEF SoundStopIsHeard, StopIsHeard
<1> DEFINE p == First(todo[c])
           ch == sending[c]
<1>1. r \in Rules /\ p \in Protos
  BY FirstOf DEF Sound, TypeInv, TypeOK
<1>2. ch # None /\ ch = stop[<<r, p>>]
  BY DEF SoundInv, HeardAt
<1>3. ch \in {r} \X {p} \X Ids
  BY <1>1, <1>2 DEF ServeInv, Sockets, FieldsOfRule
<1>4. ch \in Chan /\ ch[1] = r /\ ch[2] = p
  BY <1>1, <1>3 DEF Chan
<1>5. SocketOf(ch) /\ SoundSocket(ch) /\ Field(ch) = ch
  BY <1>2, <1>4 DEF ServeInv, Sockets, SoundInv, SoundSockets, Field
<1> QED
  BY <1>2, <1>4, <1>5 DEF SocketOf, SoundSocket

\* A Stop of a rule whose ports are free always has, or is about to have, a
\* stop handler to send to, however the listeners of other rules fail: with one
\* request at a time, and rules that start after their last listeners closed.
THEOREM SoundStopHeard == OneCaller /\ Settled /\ Spec => []SoundStopIsHeard
<1> DEFINE IInv == /\ OneCaller /\ Settled
                   /\ TypeInv /\ ControlInv /\ ServeInv /\ SoundInv
<1>1. OneCaller /\ Settled /\ Init => IInv
  BY TypeInit, ControlInit, ServeInit, SoundInit
<1>2. IInv /\ [Next]_vars => IInv'
  <2>1. OneCaller /\ Settled => OneCaller' /\ Settled'
    BY DEF OneCaller
  <2> QED
    BY <2>1, TypeNext, ControlNext, ServeNext, SoundNext
<1>3. IInv => SoundStopIsHeard
  BY SoundImplies
<1> HIDE DEF IInv
<1> QED
  BY <1>1, <1>2, <1>3, PTL DEF Spec

-----------------------------------------------------------------------------
(* The files.  Whatever listeners fail and save at the same time, a file   *)
(* that is not there is about to be made, by whoever added the rule, or    *)
(* the rule is about to go; and one that is truncated is about to be       *)
(* written, well or badly.                                                 *)

Writing(t, r) == buf[t] # None /\ buf[t].rule = r
Making(c, r) ==
    \/ pc[c] = "save" /\ r \in left[c]
    \/ pc[c] = "unlist" /\ rule[c] = r
FileInv == \A r \in listed :
    /\ disk[r] = Empty => \E t \in Threads : Writing(t, r)
    /\ disk[r] = None => \E c \in Procs : Making(c, r)

LEMMA FileInit == Init => FileInv
BY DEF Init, FileInv

\* A step that changes no file, and of the processes at most one that makes none.
LEMMA FilesLeft ==
  ASSUME FileInv, UNCHANGED <<disk, buf>>, listed' \subseteq listed,
         \A c \in Procs, r \in listed' : Making(c, r) => Making(c, r)'
  PROVE  FileInv'
<1> SUFFICES ASSUME NEW r \in listed'
             PROVE  /\ disk[r] = Empty => \E t \in Threads : Writing(t, r)'
                    /\ disk[r] = None => \E c \in Procs : Making(c, r)'
  BY DEF FileInv
<1>1. \A t \in Threads : Writing(t, r) => Writing(t, r)'
  BY DEF Writing
<1> QED
  BY <1>1 DEF FileInv

LEMMA FilesSaved ==
  ASSUME TypeInv, FileInv, NEW t \in Threads, Save(t)
  PROVE  FileInv'
<1>0. /\ buf \in [Threads -> Buffer \cup {None}] /\ left \in [Threads -> SUBSET Rules]
      /\ disk \in [Rules -> Config \cup {Empty, Torn, None}] /\ listed \subseteq Rules
      /\ Procs \subseteq Threads
  BY DEF TypeInv, TypeOK, Threads
<1>1. UNCHANGED <<listed, pc, rule>>
  BY DEF Save, SaveOpen, SaveWrite, fields, locals
<1>2. CASE SaveOpen(t)
  <2>1. PICK r \in left[t] :
           /\ left' = [left EXCEPT ![t] = @ \ {r}]
           /\ \/ /\ buf' = [buf EXCEPT ![t] = [rule |-> r,
                              config |-> [run |-> run[r], mode |-> mode[r]]]]
                 /\ disk' = [disk EXCEPT ![r] = Empty]
              \/ /\ UNCHANGED buf
                 /\ disk' = [disk EXCEPT ![r] = IF @ = None THEN Torn ELSE @]
    BY <1>2 DEF SaveOpen
  <2>2. buf[t] = None /\ r \in Rules /\ Empty # None /\ Torn # None /\ Torn # Empty
    BY <1>0, <1>2, NoneAssumption DEF SaveOpen
  <2>3. \A q \in Rules : q # r => disk'[q] = disk[q]
    BY <1>0, <2>1
  <2>4. disk'[r] # None
    BY <1>0, <2>1, <2>2
  <2>5. \A u \in Threads, q \in Rules : Writing(u, q) => Writing(u, q)'
    BY <1>0, <2>1, <2>2 DEF Writing
  <2>6. disk'[r] = Empty => disk[r] = Empty \/ Writing(t, r)'
    <3>1. [rule |-> r, config |-> [run |-> run[r], mode |-> mode[r]]] \in Buffer
      BY <1>0, <2>1 DEF Buffer, Config, TypeInv, TypeOK
    <3>2. CASE UNCHANGED buf
      BY <1>0, <2>1, <2>2, <3>1, <3>2, NoneAssumption
    <3>3. CASE buf' = [buf EXCEPT ![t] = [rule |-> r,
                         config |-> [run |-> run[r], mode |-> mode[r]]]]
      BY <1>0, <3>1, <3>3, NoneAssumption DEF Writing
    <3> QED
      BY <2>1, <3>2, <3>3
  <2>7. ASSUME NEW q \in listed, disk'[q] = Empty PROVE \E u \in Threads : Writing(u, q)'
    BY <1>0, <2>3, <2>5, <2>6, <2>7 DEF FileInv
  <2>8. ASSUME NEW q \in listed, disk'[q] = None PROVE \E c \in Procs : Making(c, q)'
    <3>1. q # r /\ disk[q] = None
      BY <1>0, <2>3, <2>4, <2>8
    <3> QED
      BY <1>0, <1>1, <2>1, <3>1 DEF FileInv, Making
  <2> QED
    BY <1>1, <2>7, <2>8 DEF FileInv
<1>3. CASE SaveWrite(t)
  <2>1. buf' = [buf EXCEPT ![t] = None] /\ UNCHANGED left
    BY <1>3 DEF SaveWrite
  <2> DEFINE r == buf[t].rule
  <2>2. /\ r \in Rules
        /\ \A q \in Rules : q # r => disk'[q] = disk[q]
        /\ disk'[r] # Empty
        /\ disk'[r] = None => disk[r] = None
    BY <1>0, <1>3, Written, NoneAssumption DEF TypeInv
  <2>3. ASSUME NEW q \in listed, disk'[q] = Empty PROVE \E u \in Threads : Writing(u, q)'
    <3>1. q # r /\ disk[q] = Empty
      BY <1>0, <2>1, <2>2, <2>3, NoneAssumption
    <3> QED
      BY <1>0, <2>1, <3>1 DEF FileInv, Writing
  <2>4. ASSUME NEW q \in listed, disk'[q] = None PROVE \E c \in Procs : Making(c, q)'
    <3>1. disk[q] = None
      BY <1>0, <2>1, <2>2, <2>4, NoneAssumption
    <3> QED
      BY <1>1, <2>1, <3>1 DEF FileInv, Making
  <2> QED
    BY <1>1, <2>3, <2>4 DEF FileInv
<1> QED
  BY <1>2, <1>3 DEF Save

LEMMA FilesRequested ==
  ASSUME OneCaller, TypeInv, ControlInv, FileInv, NEW c \in Callers, Request(c)
  PROVE  FileInv'
<1>1. /\ \A d \in Procs : pc[d] = "idle"
      /\ c \in Procs /\ UNCHANGED buf
  BY DEF Request, HandleStartProxy, HandleStopProxy, HandleAddProxyConfig, AddConfig,
         HandleEditProxyConfigs, HandleRemoveProxy, Begin, Goto, Refuse, OneCaller, Procs, saves
<1>2. \A d \in Procs, r \in Rules : ~Making(d, r)
  BY <1>1 DEF Making
<1>3. CASE HandleStartProxy(c) \/ HandleStopProxy(c) \/ HandleEditProxyConfigs(c)
  BY <1>1, <1>2, <1>3, FilesLeft
     DEF HandleStartProxy, HandleStopProxy, HandleEditProxyConfigs, fields, TypeInv, TypeOK
<1>4. CASE HandleAddProxyConfig(c)
  <2>1. PICK r \in Rules \ listed :
           /\ disk[r] = None /\ listed' = listed \cup {r} /\ Begin(c, r, "save", "idle")
    BY <1>4 DEF HandleAddProxyConfig, AddConfig
  <2>2. /\ left'[c] = listed' /\ pc'[c] = "save" /\ UNCHANGED disk
    BY <1>1, <1>4, <2>1 DEF HandleAddProxyConfig, AddConfig, Begin, Goto, Saving, Threads,
                            TypeInv, TypeOK
  <2> QED
    BY <1>1, <2>1, <2>2, NoneAssumption DEF FileInv, Making, Writing
<1>5. CASE HandleRemoveProxy(c)
  <2>1. CASE UNCHANGED disk
    BY <1>1, <1>2, <1>5, <2>1, FilesLeft DEF HandleRemoveProxy, TypeInv, TypeOK
  <2>2. ASSUME NEW r \in listed, disk' = [disk EXCEPT ![r] = None], Begin(c, r, "unlist", "idle")
        PROVE  FileInv'
    <3>1. Making(c, r)' /\ UNCHANGED listed
      BY <1>1, <1>5, <2>2 DEF HandleRemoveProxy, Begin, Goto, Making, TypeInv, TypeOK
    <3>2. \A q \in listed : q # r => disk'[q] = disk[q] /\ disk[q] # None
      BY <1>2, <2>2 DEF FileInv, TypeInv, TypeOK
    <3> QED
      BY <1>1, <2>2, <3>1, <3>2, NoneAssumption DEF FileInv, Writing, TypeInv, TypeOK
  <2> QED
    BY <1>5, <2>1, <2>2 DEF HandleRemoveProxy, Named
<1> QED
  BY <1>3, <1>4, <1>5 DEF Request

\* The process that is active is the only one that could make a file.
LEMMA FilesPassed ==
  ASSUME TypeInv, ControlInv, FileInv, NEW c \in Procs, pc[c] # "idle",
         \A r \in Rules : ~Making(c, r), UNCHANGED <<listed, disk, buf>>
  PROVE  FileInv'
<1>1. \A d \in Procs, r \in Rules : ~Making(d, r)
  BY DEF ControlInv, OneActive, Making
<1> QED
  BY <1>1, FilesLeft DEF TypeInv, TypeOK

LEMMA FileNext ==
  OneCaller /\ TypeInv /\ ControlInv /\ FileInv /\ [Next]_vars => FileInv'
<1> SUFFICES ASSUME OneCaller, TypeInv, ControlInv, FileInv, [Next]_vars PROVE FileInv'
  OBVIOUS
<1>0. ASSUME UNCHANGED <<listed, disk, buf, left, pc, rule>> PROVE FileInv'
  BY <1>0, FilesLeft DEF Making
<1>1. ASSUME NEW c \in Procs, ProcStep(c) PROVE FileInv'
  <2>1. CASE Save(c)
    BY <2>1, FilesSaved DEF Threads
  <2>2. CASE StartNext(c)
    BY <1>0, <2>2 DEF StartNext, saves
  <2>3. CASE Unlist(c)
    <3>1. /\ listed' = listed \ {rule[c]} /\ pc[c] = "unlist"
          /\ UNCHANGED <<disk, buf>>
      BY <2>3 DEF Unlist, Goto
    <3>2. \A d \in Procs, r \in Rules : Making(d, r) => r = rule[c]
      BY <3>1 DEF ControlInv, OneActive, Making
    <3> QED
      BY <3>1, <3>2, FilesLeft DEF TypeInv, TypeOK
  <2>4. CASE SaveReturn(c)
    BY <2>4, FilesPassed DEF SaveReturn, Saved, Making, fields, saves
  <2>5. CASE \/ Start(c) \/ StartEnd(c) \/ Edited(c) \/ Restart(c) \/ Sleep(c)
             \/ StopCheck(c) \/ StopEval(c) \/ StopSend(c) \/ StopEnd(c)
    <3>1. /\ pc[c] \notin {"idle", "save", "unlist"} /\ UNCHANGED <<listed, disk, buf>>
      BY <2>5 DEF Start, StartEnd, Edited, Restart, Sleep, StopCheck, StopEval, StopSend,
                  StopSendTo, StopEnd, Goto, fields, saves
    <3> QED
      BY <3>1, FilesPassed DEF Making
  <2> QED
    BY <1>1, <2>1, <2>2, <2>3, <2>4, <2>5 DEF ProcStep
<1>2. ASSUME NEW ch \in Chan, ListenerStep(ch) PROVE FileInv'
  <2>1. CASE Save(ch)
    BY <2>1, FilesSaved DEF Threads
  <2>2. CASE Failed(ch)
    <3>1. UNCHANGED <<listed, disk, buf, pc, rule>> /\ \A c \in Procs : left'[c] = left[c]
      BY <2>2, ThreadsAssumption DEF Failed, FailedClears, Saving, locals, Threads, TypeInv, TypeOK
    <3> QED
      BY <3>1, FilesLeft DEF Making
  <2>3. CASE Listen(ch) \/ FailureSaved(ch) \/ CloseListener(ch)
    BY <1>0, <2>3 DEF Listen, ListenThen, FailureSaved, CloseListener, fields, saves, locals
  <2> QED
    BY <1>2, <2>1, <2>2, <2>3 DEF ListenerStep
<1>3. CASE Crash
  BY <1>3 DEF Crash, FileInv
<1>4. CASE Resume
  BY <1>4, FilesPassed DEF Resume, Making, fields, saves, Procs
<1>5. CASE Booted
  BY <1>5, NoneAssumption DEF Booted, Readable, FileInv
<1>6. CASE UNCHANGED vars
  BY <1>0, <1>6 DEF vars, fields, saves, locals
<1> QED
  BY <1>1, <1>2, <1>3, <1>4, <1>5, <1>6, FilesRequested DEF Next

\* With one request at a time, a rule that is listed has a whole file when nobody
\* writes: whichever rules fail to listen and save meanwhile, however many
\* crashes there were, and wherever a save was cut off.
THEOREM ListedRulesHaveFiles == OneCaller /\ Spec => []ListedHaveFiles
<1> DEFINE IInv == OneCaller /\ TypeInv /\ ControlInv /\ FileInv
<1>1. OneCaller /\ Init => IInv
  BY TypeInit, ControlInit, FileInit
<1>2. IInv /\ [Next]_vars => IInv'
  <2>1. OneCaller => OneCaller'
    BY DEF OneCaller
  <2> QED
    BY <2>1, TypeNext, ControlNext, FileNext
<1>3. IInv => ListedHaveFiles
  BY DEF ListedHaveFiles, Idle, NoSaves, Saved, FileInv, Writing, Making, TypeInv, TypeOK
<1> HIDE DEF IInv
<1> QED
  BY <1>1, <1>2, <1>3, PTL DEF Spec

=============================================================================
