----------------------------- MODULE StreamProxy -----------------------------
(***************************************************************************)
(* The stream proxy (mod/streamproxy): rules that forward a TCP and/or a   *)
(* UDP port.  Management requests start, stop, edit, create and remove     *)
(* rules; the listening goroutines of a rule are stopped through unbuffered*)
(* channels and report a failure to listen by writing the rule's fields    *)
(* themselves; and whoever changes the status of one rule writes the files *)
(* of all of them.  At start-up the rules whose file says Running resume.  *)
(*                                                                         *)
(* Grain: one action per access to shared fields, channel operation or     *)
(* file operation.  What a UDP listener relays is not part of this module. *)
(***************************************************************************)
EXTENDS Naturals, FiniteSets

CONSTANTS
    Rules,      \* bound: the rules that may exist
    Modes,      \* Modes[r]: the values UseTCP and UseUDP may get in rule r
    Ops,        \* Ops[r]: the requests made about rule r
    Callers,    \* goroutines that serve management requests
    Main,       \* the goroutine that runs NewStreamProxy
    Ids,        \* bound: stop channels alive at once, per rule and protocol
    Fails,      \* <<r, p>>: listening may fail (occupied, denied, bad target)
    Settled,    \* TRUE: a rule starts after its last listeners have closed
    SavesFail,  \* TRUE: a file may fail to be opened or written
    Empty,      \* the content of a file that is truncated and not yet written
    Torn,       \* what a save that went wrong left: no file, or no whole one
    None        \* nil, or no file

Protos == {"tcp", "udp"}
OpNames == {"add", "start", "stop", "edit", "remove"}
Chan == Rules \X Protos \X Ids
Procs == Callers \cup {Main}
\* A listening goroutine is named by its stop channel.
Threads == Procs \cup Chan
Config == [run : BOOLEAN, mode : SUBSET Protos]
Buffer == [rule : Rules, config : Config]

ASSUME RulesAssumption ==
    /\ Rules # {} /\ Ids # {}
    /\ Modes \in [Rules -> SUBSET SUBSET Protos] /\ Ops \in [Rules -> SUBSET OpNames]
ASSUME FailsAssumption ==
    /\ Fails \subseteq Rules \X Protos
    /\ Settled \in BOOLEAN /\ SavesFail \in BOOLEAN
ASSUME ThreadsAssumption == Main \notin Callers /\ Procs \cap Chan = {}
ASSUME NoneAssumption ==
    /\ None \notin Rules \cup Chan \cup Config \cup Buffer
    /\ Torn \notin Config \cup {None} /\ Empty \notin Config \cup {None, Torn}

VARIABLES
    \* Manager.Configs, and the fields of each rule
    listed, run, mode, stop,
    \* the rules' files
    disk,
    \* the listening goroutines: stop handlers that wait, that were told, the
    \* sockets, and UDP sockets that nothing can close
    recv, closing, sock, leaked,
    \* SaveConfigToDatabase, in progress in any thread
    left, buf,
    \* requests and start-up: program counter, the rule, where a Start, a Stop
    \* or a save returns to, protocols still to do, the channel to send on,
    \* and the rules NewStreamProxy still has to resume
    pc, rule, after, todo, sending, boot

fields == <<listed, run, mode, stop>>
goroutines == <<recv, closing, sock, leaked>>
saves == <<left, buf>>
locals == <<rule, after, todo, sending, boot>>
vars == <<fields, disk, goroutines, saves, pc, locals>>

Sock == {"off", "starting", "bound", "failed", "saving"}
PC == {"idle", "boot", "start", "start_next", "stop", "stop_eval", "stop_send",
       "edited", "restart", "sleep", "unlist", "save"}

TypeOK ==
    /\ listed \subseteq Rules /\ run \in [Rules -> BOOLEAN]
    /\ mode \in [Rules -> SUBSET Protos]
    /\ stop \in [Rules \X Protos -> Chan \cup {None}]
    /\ disk \in [Rules -> Config \cup {Empty, Torn, None}]
    /\ recv \subseteq Chan /\ closing \subseteq Chan
    /\ sock \in [Chan -> Sock] /\ leaked \subseteq Rules
    /\ left \in [Threads -> SUBSET Rules]
    /\ buf \in [Threads -> Buffer \cup {None}]
    /\ pc \in [Procs -> PC] /\ rule \in [Procs -> Rules \cup {None}]
    /\ after \in [Procs -> PC] /\ todo \in [Procs -> SUBSET Protos]
    /\ sending \in [Procs -> Chan \cup {None}]
    /\ boot \subseteq Rules

\* A new installation: an empty folder, read by NewStreamProxy.
Init ==
    /\ listed = {} /\ run = [r \in Rules |-> FALSE]
    /\ mode = [r \in Rules |-> {}]
    /\ stop = [rp \in Rules \X Protos |-> None]
    /\ disk = [r \in Rules |-> None]
    /\ recv = {} /\ closing = {} /\ sock = [ch \in Chan |-> "off"]
    /\ leaked = {}
    /\ left = [t \in Threads |-> {}] /\ buf = [t \in Threads |-> None]
    /\ pc = [c \in Procs |-> "idle"] /\ rule = [c \in Procs |-> None]
    /\ after = [c \in Procs |-> "idle"] /\ todo = [c \in Procs |-> {}]
    /\ sending = [c \in Procs |-> None] /\ boot = {}

-----------------------------------------------------------------------------
(* Helpers *)

Goto(c, from, to) == pc[c] = from /\ pc' = [pc EXCEPT ![c] = to]
IsRunning(r) == \E p \in Protos : stop[<<r, p>>] # None
Running(r, b) == run' = [run EXCEPT ![r] = b]
\* Start and Stop do UDP first.
First(ps) == IF "udp" \in ps THEN "udp" ELSE "tcp"
Bound(r, p) == \E i \in Ids : sock[<<r, p, i>>] = "bound"
Free(ch) ==
    /\ sock[ch] = "off" /\ ch \notin recv \cup closing
    /\ stop[<<ch[1], ch[2]>>] # ch /\ \A c \in Procs : sending[c] # ch

\* A Start, a Stop or a save returns to the function that called it.
Return(c) ==
    /\ pc' = [pc EXCEPT ![c] = after[c]] /\ after' = [after EXCEPT ![c] = "idle"]
    /\ rule' = IF after[c] \in {"idle", "boot"} THEN [rule EXCEPT ![c] = None] ELSE rule

\* Thread t calls SaveConfigToDatabase: range takes the list as it is now.
Saving(t, rules) == left' = [left EXCEPT ![t] = rules]

-----------------------------------------------------------------------------
(* SaveConfigToDatabase: rule by rule, json.Marshal and os.WriteFile *)

\* The rule is marshalled and its file created, or truncated; if the file
\* cannot be opened that is logged, and the loop goes on ...
SaveOpen(t) ==
    /\ buf[t] = None
    /\ \E r \in left[t] :
          /\ left' = [left EXCEPT ![t] = @ \ {r}]
          /\ \/ /\ buf' = [buf EXCEPT ![t] = [rule |-> r,
                             config |-> [run |-> run[r], mode |-> mode[r]]]]
                /\ disk' = [disk EXCEPT ![r] = Empty]
             \/ /\ SavesFail /\ UNCHANGED buf
                /\ disk' = [disk EXCEPT ![r] = IF @ = None THEN Torn ELSE @]
    /\ UNCHANGED <<fields, goroutines, pc, locals>>

\* ... and written, in vain if it has been removed.  A write that fails, which
\* is only logged too, leaves part of it; so does one that meets what another
\* thread has written since the file was truncated, if that was longer.
SaveWrite(t) ==
    /\ buf[t] # None
    /\ LET before == disk[buf[t].rule]
           spoilt == SavesFail \/ before # Empty
       IN  \E content \in IF before = None THEN {None} ELSE
                          {buf[t].config} \cup (IF spoilt THEN {Torn} ELSE {}) :
              disk' = [disk EXCEPT ![buf[t].rule] = content]
    /\ buf' = [buf EXCEPT ![t] = None]
    /\ UNCHANGED <<fields, goroutines, left, pc, locals>>

Saved(t) == left[t] = {} /\ buf[t] = None

SaveReturn(c) ==
    /\ pc[c] = "save" /\ Saved(c) /\ Return(c)
    /\ UNCHANGED <<fields, disk, goroutines, saves, todo, sending, boot>>

-----------------------------------------------------------------------------
(* Start and Restart *)

Start(c) ==
    /\ pc[c] = "start"
    /\ Settled => \A ch \in closing : ch[1] # rule[c]
    /\ \/ /\ IsRunning(rule[c]) /\ Running(rule[c], TRUE) /\ Return(c)
          /\ UNCHANGED todo
       \/ /\ ~IsRunning(rule[c]) /\ pc' = [pc EXCEPT ![c] = "start_next"]
          /\ todo' = [todo EXCEPT ![c] = Protos] /\ UNCHANGED <<run, rule, after>>
    /\ UNCHANGED <<listed, mode, stop, disk, goroutines, saves, sending, boot>>

\* For each protocol in use: a new stop channel and a goroutine that listens.
StartNext(c) ==
    /\ pc[c] = "start_next" /\ todo[c] # {}
    /\ LET r == rule[c]
           p == First(todo[c])
       IN  /\ todo' = [todo EXCEPT ![c] = @ \ {p}]
           /\ \/ p \notin mode[r] /\ UNCHANGED <<stop, sock>>
              \/ /\ p \in mode[r]
                 /\ \E ch \in {r} \X {p} \X Ids :
                       /\ Free(ch)
                       /\ stop' = [stop EXCEPT ![<<r, p>>] = ch]
                       /\ sock' = [sock EXCEPT ![ch] = "starting"]
    /\ UNCHANGED <<listed, run, mode, disk, recv, closing, leaked, saves, pc,
                   rule, after, sending, boot>>

StartEnd(c) ==
    /\ Goto(c, "start_next", "save") /\ todo[c] = {}
    /\ Running(rule[c], TRUE) /\ Saving(c, listed)
    /\ UNCHANGED <<listed, mode, stop, disk, goroutines, buf, locals>>

\* EditConfig, after it has saved.
Edited(c) ==
    /\ pc[c] = "edited"
    /\ \/ ~IsRunning(rule[c]) /\ Return(c)
       \/ /\ IsRunning(rule[c]) /\ Goto(c, "edited", "restart")
          /\ UNCHANGED <<rule, after>>
    /\ UNCHANGED <<fields, disk, goroutines, saves, todo, sending, boot>>

Restart(c) ==
    /\ pc[c] = "restart"
    /\ LET running == IsRunning(rule[c])
       IN  /\ pc' = [pc EXCEPT ![c] = IF running THEN "stop" ELSE "sleep"]
           /\ todo' = [todo EXCEPT ![c] = IF running THEN Protos ELSE {}]
    /\ after' = [after EXCEPT ![c] = "sleep"]
    /\ UNCHANGED <<fields, disk, goroutines, saves, rule, sending, boot>>

\* Three seconds later, Restart starts the rule.
Sleep(c) ==
    /\ Goto(c, "sleep", "start") /\ after' = [after EXCEPT ![c] = "idle"]
    /\ UNCHANGED <<fields, disk, goroutines, saves, rule, todo, sending, boot>>

-----------------------------------------------------------------------------
(* Stop *)

StopCheck(c) ==
    /\ pc[c] = "stop" /\ todo[c] # {}
    /\ LET p == First(todo[c])
       IN  \/ /\ stop[<<rule[c], p>>] = None
              /\ todo' = [todo EXCEPT ![c] = @ \ {p}] /\ UNCHANGED pc
           \/ /\ stop[<<rule[c], p>>] # None
              /\ pc' = [pc EXCEPT ![c] = "stop_eval"] /\ UNCHANGED todo
    /\ UNCHANGED <<fields, disk, goroutines, saves, rule, after, sending, boot>>

\* The send reads the field again: it may have become nil since the check.
StopEval(c) ==
    /\ Goto(c, "stop_eval", "stop_send")
    /\ sending' = [sending EXCEPT ![c] = stop[<<rule[c], First(todo[c])>>]]
    /\ UNCHANGED <<fields, disk, goroutines, saves, rule, after, todo, boot>>

\* The send meets the stop handler, and the field is set to nil.
StopSendTo(c, told, field) ==
    /\ Goto(c, "stop_send", "stop") /\ sending[c] \in recv
    /\ recv' = recv \ {sending[c]} /\ closing' = closing \cup told
    /\ LET p == First(todo[c])
       IN  /\ stop' = [stop EXCEPT ![<<rule[c], p>>] = field]
           /\ todo' = [todo EXCEPT ![c] = @ \ {p}]
    /\ sending' = [sending EXCEPT ![c] = None]
    /\ UNCHANGED <<listed, run, mode, disk, sock, leaked, saves,
                   rule, after, boot>>
StopSend_NotHandled(c) == StopSendTo(c, {}, None)                   \* mutant
StopSend_KeepsField(c) == StopSendTo(c, {sending[c]}, sending[c])   \* mutant
StopSend(c) == StopSendTo(c, {sending[c]}, None)

StopEnd(c) ==
    /\ Goto(c, "stop", "save") /\ todo[c] = {}
    /\ Running(rule[c], FALSE) /\ Saving(c, listed)
    /\ UNCHANGED <<listed, mode, stop, disk, goroutines, buf, locals>>

-----------------------------------------------------------------------------
(* Management requests *)

\* The listed rules a request op may name.
Named(op) == {r \in listed : op \in Ops[r]}

\* The request ends without calling anything.
Refuse(c) == pc[Main] = "idle" /\ pc[c] = "idle" /\ UNCHANGED <<pc, rule, after>>

\* The request concerns rule r; it goes on at to, and after that at next.
Begin(c, r, to, next) ==
    /\ pc[Main] = "idle" /\ Goto(c, "idle", to)
    /\ rule' = [rule EXCEPT ![c] = r] /\ after' = [after EXCEPT ![c] = next]

HandleStartProxy(c) ==
    /\ \E r \in Named("start") : Begin(c, r, "start", "idle")
    /\ UNCHANGED <<fields, disk, goroutines, saves, todo, sending, boot>>

HandleStopProxy(c) ==
    /\ \E r \in Named("stop") :
          \/ /\ IsRunning(r) /\ Begin(c, r, "stop", "idle")
             /\ todo' = [todo EXCEPT ![c] = Protos] /\ UNCHANGED run
          \/ /\ ~IsRunning(r) /\ Refuse(c)
             /\ Running(r, FALSE) /\ UNCHANGED todo
    /\ UNCHANGED <<listed, mode, stop, disk, goroutines, saves, sending, boot>>

\* NewConfig, with a UUID never used before.  A new rule is not started.
AddConfig(c, saved) ==
    /\ \E r \in Rules \ listed :
          /\ "add" \in Ops[r] /\ disk[r] = None
          /\ \A p \in Protos, i \in Ids : Free(<<r, p, i>>)
          /\ \A d \in Procs : pc[d] # "idle" => rule[d] # r
          /\ \A t \in Threads : r \notin left[t] /\ (buf[t] # None => buf[t].rule # r)
          /\ Begin(c, r, "save", "idle")
          /\ listed' = listed \cup {r} /\ Running(r, FALSE)
          /\ \E m \in Modes[r] : mode' = [mode EXCEPT ![r] = m]
    /\ Saving(c, saved)
    /\ UNCHANGED <<stop, disk, goroutines, buf, todo, sending, boot>>
HandleAddProxyConfig_Unsaved(c) == AddConfig(c, {})  \* mutant
HandleAddProxyConfig(c) == AddConfig(c, listed')

\* EditConfig: a rejected edit has assigned the fields all the same, but is
\* neither saved nor applied.
HandleEditProxyConfigs(c) ==
    /\ \E r \in Named("edit") :
          /\ \E m \in Modes[r] : mode' = [mode EXCEPT ![r] = m]
          /\ \/ Refuse(c) /\ UNCHANGED left
             \/ Begin(c, r, "save", "edited") /\ Saving(c, listed)
    /\ UNCHANGED <<listed, run, stop, disk, goroutines, buf, todo, sending, boot>>

HandleRemoveProxy(c) ==
    /\ \E r \in Named("remove") :
          \/ /\ IsRunning(r) /\ Refuse(c)
             /\ Running(r, FALSE) /\ UNCHANGED disk
          \/ /\ ~IsRunning(r) /\ Refuse(c)  \* os.Remove fails
             /\ UNCHANGED <<run, disk>>
          \/ /\ ~IsRunning(r) /\ disk[r] # None /\ Begin(c, r, "unlist", "idle")
             /\ disk' = [disk EXCEPT ![r] = None] /\ UNCHANGED run
    /\ UNCHANGED <<listed, mode, stop, goroutines, saves, todo, sending, boot>>

\* RemoveConfig, after os.Remove.  The list is shifted in place: a save in
\* progress that has still to visit rules may miss some of them.
Unlist(c) ==
    /\ Goto(c, "unlist", "save")
    /\ listed' = listed \ {rule[c]}
    /\ \E missed \in SUBSET Rules :
          left' = [[t \in Threads |-> left[t] \ missed] EXCEPT ![c] = listed']
    /\ UNCHANGED <<run, mode, stop, disk, goroutines, buf, locals>>

Request(c) ==
    \/ HandleStartProxy(c) \/ HandleStopProxy(c) \/ HandleAddProxyConfig(c)
    \/ HandleEditProxyConfigs(c) \/ HandleRemoveProxy(c)

-----------------------------------------------------------------------------
(* The listening goroutines: Port2host and ForwardUDP *)

\* net.Listen; the stop handler is started only once that succeeded.  A UDP
\* target that does not resolve makes ForwardUDP give up a socket it has
\* opened: nothing closes it.
ListenThen(ch, handler) ==
    /\ sock[ch] = "starting"
    /\ LET r == ch[1]
           p == ch[2]
           occupied == Bound(r, p) \/ (p = "udp" /\ r \in leaked)
           fails == <<r, p>> \in Fails
       IN  \/ /\ ~occupied /\ recv' = recv \cup handler
              /\ sock' = [sock EXCEPT ![ch] = "bound"] /\ UNCHANGED leaked
           \/ /\ occupied \/ fails
              /\ sock' = [sock EXCEPT ![ch] = "failed"]
              /\ leaked' \in {leaked} \cup
                    IF p = "udp" /\ fails THEN {leaked \cup {r}} ELSE {}
              /\ UNCHANGED recv
    /\ UNCHANGED <<fields, disk, closing, saves, pc, locals>>

Listen_NoHandler(ch) == ListenThen(ch, {})  \* mutant
Listen(ch) == ListenThen(ch, {ch})

\* Start's goroutine: the listening function returned an error.  A UDP failure
\* is ignored if the rule forwards TCP as well.
FailedClears(ch, protos) ==
    /\ sock[ch] = "failed"
    /\ LET r == ch[1]
           p == ch[2]
           ignored == p = "udp" /\ "tcp" \in mode[r]
       IN  \/ /\ ignored /\ sock' = [sock EXCEPT ![ch] = "off"]
              /\ UNCHANGED <<run, stop, left>>
           \/ /\ ~ignored /\ sock' = [sock EXCEPT ![ch] = "saving"]
              /\ Running(r, FALSE) /\ stop' = [rp \in DOMAIN stop |->
                            IF rp \in {r} \X protos THEN None ELSE stop[rp]]
              /\ Saving(ch, listed)
    /\ UNCHANGED <<listed, mode, disk, recv, closing, leaked, buf, pc, locals>>
Failed_KeepsChan(ch) == FailedClears(ch, {})       \* mutant
Failed_ClearsBoth(ch) == FailedClears(ch, Protos)  \* mutant
Failed(ch) == FailedClears(ch, {ch[2]})

FailureSaved(ch) ==
    /\ sock[ch] = "saving" /\ Saved(ch)
    /\ sock' = [sock EXCEPT ![ch] = "off"]
    /\ UNCHANGED <<fields, disk, recv, closing, leaked, saves, pc, locals>>

\* The stop handler closes the listener, which ends the listening goroutine.
CloseListener(ch) ==
    /\ ch \in closing /\ closing' = closing \ {ch}
    /\ sock' = [sock EXCEPT ![ch] = "off"]
    /\ UNCHANGED <<fields, disk, recv, leaked, saves, pc, locals>>

-----------------------------------------------------------------------------
(* The process ends at any point, and NewStreamProxy reads the files *)

Readable == {r \in Rules : disk[r] \in Config}
Loaded_NoDefault(r) ==  \* mutant
    IF r \in Readable THEN disk[r] ELSE [run |-> None, mode |-> {}]
Loaded(r) == IF r \in Readable THEN disk[r] ELSE [run |-> FALSE, mode |-> {}]

Crash ==
    /\ listed' = {}
    /\ run' = [r \in Rules |-> Loaded(r).run]
    /\ mode' = [r \in Rules |-> Loaded(r).mode]
    /\ stop' = [rp \in Rules \X Protos |-> None]
    /\ recv' = {} /\ closing' = {} /\ sock' = [ch \in Chan |-> "off"]
    /\ leaked' = {}
    /\ left' = [t \in Threads |-> {}] /\ buf' = [t \in Threads |-> None]
    /\ pc' = [[c \in Procs |-> "idle"] EXCEPT ![Main] = "boot"]
    /\ rule' = [c \in Procs |-> None] /\ after' = [c \in Procs |-> "idle"]
    /\ todo' = [c \in Procs |-> {}] /\ sending' = [c \in Procs |-> None]
    /\ boot' = Readable
    /\ UNCHANGED disk

\* A rule that was running is started.
Resume ==
    /\ pc[Main] = "boot"
    /\ \E r \in boot :
          /\ boot' = boot \ {r}
          /\ \/ ~run[r] /\ UNCHANGED <<pc, rule, after>>
             \/ /\ run[r] /\ pc' = [pc EXCEPT ![Main] = "start"]
                /\ rule' = [rule EXCEPT ![Main] = r]
                /\ after' = [after EXCEPT ![Main] = "boot"]
    /\ UNCHANGED <<fields, disk, goroutines, saves, todo, sending>>

\* Only now the manager gets its list: what the resumed rules saved is nothing.
Booted ==
    /\ Goto(Main, "boot", "idle") /\ boot = {}
    /\ listed' = Readable
    /\ UNCHANGED <<run, mode, stop, disk, goroutines, saves, locals>>

-----------------------------------------------------------------------------

Save(t) == SaveOpen(t) \/ SaveWrite(t)
ProcStep(c) ==
    \/ Save(c) \/ SaveReturn(c) \/ Start(c) \/ StartNext(c) \/ StartEnd(c)
    \/ Edited(c) \/ Restart(c) \/ Sleep(c) \/ Unlist(c)
    \/ StopCheck(c) \/ StopEval(c) \/ StopSend(c) \/ StopEnd(c)
ListenerStep(ch) ==
    \/ Save(ch) \/ Listen(ch) \/ Failed(ch) \/ FailureSaved(ch) \/ CloseListener(ch)

Next ==
    \/ \E c \in Callers : Request(c)
    \/ \E c \in Procs : ProcStep(c)
    \/ \E ch \in Chan : ListenerStep(ch)
    \/ Crash \/ Resume \/ Booted

Spec == Init /\ [][Next]_vars

\* Goroutines are scheduled; nobody has to send a request, and the process does
\* not have to end.
Fairness ==
    /\ \A c \in Procs : WF_vars(ProcStep(c))
    /\ \A ch \in Chan : WF_vars(ListenerStep(ch))
    /\ WF_vars(Resume) /\ WF_vars(Booted)

FairSpec == Spec /\ Fairness

-----------------------------------------------------------------------------
(* Properties *)

Sound == {r \in Rules : \A p \in Protos : <<r, p>> \notin Fails}
Idle == \A c \in Procs : pc[c] = "idle"
NoSaves == \A t \in Threads : Saved(t)

\* Every stop handler that waits is the one Stop would send to: no listener
\* becomes unreachable and keeps its port, whatever Start, Stop, edits and
\* failing goroutines write into the rule's fields.
ListenersOwned == \A ch \in recv : stop[<<ch[1], ch[2]>>] = ch

\* A rule that is not running, by IsRunning, serves nobody for long: each of
\* its listeners that is open has been told to stop and is being closed.  (The
\* socket that ForwardUDP gives up when the target does not resolve is no
\* listener: it holds the port of a rule that may be stopped, and is not read.)
StoppedServesNobody ==
    \A ch \in Chan : sock[ch] = "bound" /\ ~IsRunning(ch[1]) => ch \in closing

\* A stop channel in a TCP field is that of a listener that is to come, that is
\* open, or that has just failed and whose goroutine has yet to clear the
\* field.  One that stayed there after its listener ended would have IsRunning
\* refuse every later start.  (It does not say that a stop is heard.)
TcpFieldIsCurrent ==
    \A r \in Rules : LET ch == stop[<<r, "tcp">>]
                     IN  ch # None => sock[ch] \in {"starting", "failed", "bound"}

\* What Stop sends to has, or is about to have, a receiver.
StopIsHeard(r) ==
    \A c \in Procs : pc[c] = "stop_send" /\ rule[c] = r
        => sending[c] # None /\ (sending[c] \in recv \/ sock[sending[c]] = "starting")
\* That holds of the rules whose ports are free, whatever happens to others...
SoundStopIsHeard == \A r \in Sound : StopIsHeard(r)
\* ... and should hold of every rule: "Stop a running proxy if running".
EveryStopIsHeard == \A r \in Rules : StopIsHeard(r)

\* Requests about those rules are answered.
SoundRequestReturns ==
    \A c \in Callers : pc[c] # "idle" /\ rule[c] \in Sound ~> pc[c] = "idle"

\* While nobody writes, the file of a listed rule is there and holds a whole
\* configuration, unless a save of that very rule went wrong, whatever crashes,
\* removals, failing listeners and stale copies of the list came before...
ListedHaveFiles ==
    \A r \in listed : Idle /\ NoSaves => disk[r] \in Config \cup {Torn}
\* ... and, if no file operation fails, it holds one in any case: "Save all
\* configs to ConfigStore folder".  The code does not keep this: two saves at a
\* time can leave a file that is neither.
ListedFilesAreWhole ==
    \A r \in listed : Idle /\ NoSaves => disk[r] \in Config

=============================================================================
