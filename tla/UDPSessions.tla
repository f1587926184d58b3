----------------------------- MODULE UDPSessions -----------------------------
(***************************************************************************)
(* The UDP sessions of one stream proxy rule (mod/streamproxy/udpprox.go). *)
(* A listener's loop gives each client address a socket to the server and  *)
(* a goroutine that relays the answers; sessions end when they are idle,   *)
(* when their socket fails or when the listener is gone.  The map from     *)
(* addresses to sessions belongs to the rule and outlives its listeners.   *)
(*                                                                         *)
(* Grain: one action per access to the map, socket call or goroutine start.*)
(***************************************************************************)
EXTENDS Naturals, FiniteSets

CONSTANTS
    Clients,    \* client addresses
    Sockets,    \* bound: sockets to the server
    Listeners,  \* bound: times the rule is started, 1 .. n
    Settled,    \* TRUE: a listener starts after the last one's loop has ended
    None        \* no session, no client

ASSUME ListenersAssumption == Listeners \in Nat /\ Settled \in BOOLEAN
ASSUME NoneAssumption == None \notin Clients \cup Sockets

Gen == 1..Listeners

VARIABLES
    listener,   \* what has become of each listening socket
    handler,    \* its stop handler
    toVisit,    \* addresses CloseAllUDPConnections has still to visit
    loop,       \* ForwardUDP of each listener: what it does next
    client,     \* the client of the packet it has read
    conn,       \* the session it works with
    sessions,   \* udpClientMap
    socket,     \* the sockets to the server
    owner,      \* the client and the listener each was made for
    relay       \* RunUDPConnectionRelay of each

listening == <<listener, handler, toVisit>>
forwarding == <<loop, client, conn>>
relaying == <<socket, owner, relay>>
vars == <<listening, forwarding, sessions, relaying>>

TypeOK ==
    /\ listener \in [Gen -> {"none", "open", "closed"}]
    /\ handler \in [Gen -> {"none", "waits", "told", "done"}]
    /\ toVisit \in [Gen -> SUBSET Clients]
    /\ loop \in [Gen -> {"none", "read", "load", "check", "store", "go", "forward", "ended"}]
    /\ client \in [Gen -> Clients \cup {None}] /\ conn \in [Gen -> Sockets \cup {None}]
    /\ sessions \in [Clients -> Sockets \cup {None}]
    /\ socket \in [Sockets -> {"none", "open", "closed"}]
    /\ owner \in [Sockets -> [client : Clients \cup {None}, gen : 0..Listeners]]
    /\ relay \in [Sockets -> {"none", "read", "write", "close", "delete", "done"}]
    \* The loop uses no session that does not exist.
    /\ \A g \in Gen :
          /\ loop[g] \in {"load", "check", "store", "go", "forward"} => client[g] \in Clients
          /\ loop[g] \in {"store", "go", "forward"} => conn[g] \in Sockets

Init ==
    /\ listener = [g \in Gen |-> "none"] /\ handler = [g \in Gen |-> "none"]
    /\ toVisit = [g \in Gen |-> {}]
    /\ loop = [g \in Gen |-> "none"] /\ client = [g \in Gen |-> None]
    /\ conn = [g \in Gen |-> None]
    /\ sessions = [c \in Clients |-> None]
    /\ socket = [s \in Sockets |-> "none"]
    /\ owner = [s \in Sockets |-> [client |-> None, gen |-> 0]]
    /\ relay = [s \in Sockets |-> "none"]

-----------------------------------------------------------------------------
(* Starting and stopping the rule *)

\* ForwardUDP listens; the port is free when the last listener is closed.
Listen(g) ==
    /\ listener[g] = "none"
    /\ \A h \in 1..(g - 1) : listener[h] = "closed" /\ (Settled => loop[h] = "ended")
    /\ listener' = [listener EXCEPT ![g] = "open"]
    /\ handler' = [handler EXCEPT ![g] = "waits"]
    /\ loop' = [loop EXCEPT ![g] = "read"]
    /\ UNCHANGED <<toVisit, client, conn, sessions, relaying>>

HandlerTo(g, from, to) == handler[g] = from /\ handler' = [handler EXCEPT ![g] = to]

\* Stop sends true; CloseAllUDPConnections goes through the addresses.
Stop(g) ==
    /\ HandlerTo(g, "waits", "told")
    /\ toVisit' = [toVisit EXCEPT ![g] = Clients]
    /\ UNCHANGED <<listener, forwarding, sessions, relaying>>

CloseOne(g) ==
    /\ handler[g] = "told"
    /\ \E c \in toVisit[g] :
          /\ toVisit' = [toVisit EXCEPT ![g] = @ \ {c}]
          /\ socket' = IF sessions[c] # None THEN [socket EXCEPT ![sessions[c]] = "closed"]
                       ELSE socket
    /\ UNCHANGED <<listener, handler, forwarding, sessions, owner, relay>>

CloseListener(g) ==
    /\ toVisit[g] = {} /\ HandlerTo(g, "told", "done")
    /\ listener' = [listener EXCEPT ![g] = "closed"]
    /\ UNCHANGED <<toVisit, forwarding, sessions, relaying>>

-----------------------------------------------------------------------------
(* The loop of ForwardUDP *)

LoopTo(g, from, to) == loop[g] = from /\ loop' = [loop EXCEPT ![g] = to]

ReadFromUDP(g) ==
    /\ \/ /\ listener[g] = "open" /\ LoopTo(g, "read", "load")
          /\ \E c \in Clients : client' = [client EXCEPT ![g] = c]
       \/ /\ listener[g] = "closed" /\ LoopTo(g, "read", "ended")
          /\ UNCHANGED client
    /\ UNCHANGED <<listening, conn, sessions, relaying>>

Load_Renews(g) ==  \* mutant
    /\ LoopTo(g, "load", "check")
    /\ conn' = [conn EXCEPT ![g] = None]
    /\ UNCHANGED <<listening, client, sessions, relaying>>

Load(g) ==
    /\ \/ LoopTo(g, "load", "forward") /\ sessions[client[g]] # None
       \/ LoopTo(g, "load", "check") /\ sessions[client[g]] = None
    /\ conn' = [conn EXCEPT ![g] = sessions[client[g]]]
    /\ UNCHANGED <<listening, client, sessions, relaying>>

CreateConn_Unchecked(g) ==  \* mutant
    /\ LoopTo(g, "check", "store")
    /\ UNCHANGED <<conn, socket, owner, listening, client, sessions, relay>>

\* The packet of a client that the access rule rejects, or that no socket can
\* be made for, is dropped; else createNewUDPConn makes one.
CreateConn(g) ==
    /\ \/ /\ LoopTo(g, "check", "read") /\ UNCHANGED <<conn, socket, owner>>
       \/ /\ LoopTo(g, "check", "store")
          /\ \E s \in Sockets :
                /\ socket[s] = "none"
                /\ conn' = [conn EXCEPT ![g] = s]
                /\ socket' = [socket EXCEPT ![s] = "open"]
                /\ owner' = [owner EXCEPT ![s] = [client |-> client[g], gen |-> g]]
    /\ UNCHANGED <<listening, client, sessions, relay>>

Store(g) ==
    /\ LoopTo(g, "store", "go")
    /\ sessions' = [sessions EXCEPT ![client[g]] = conn[g]]
    /\ UNCHANGED <<listening, client, conn, relaying>>

GoRelay(g) ==
    /\ LoopTo(g, "go", "forward")
    /\ relay' = [relay EXCEPT ![conn[g]] = "read"]
    /\ UNCHANGED <<listening, client, conn, sessions, socket, owner>>

\* SetReadDeadline and Write; a failure is ignored.
Forward(g) ==
    /\ LoopTo(g, "forward", "read")
    /\ client' = [client EXCEPT ![g] = None] /\ conn' = [conn EXCEPT ![g] = None]
    /\ UNCHANGED <<listening, sessions, relaying>>

-----------------------------------------------------------------------------
(* RunUDPConnectionRelay *)

RelayTo(s, from, to) == relay[s] = from /\ relay' = [relay EXCEPT ![s] = to]

Answer(s) ==
    /\ socket[s] = "open" /\ RelayTo(s, "read", "write")
    /\ UNCHANGED <<listening, forwarding, sessions, socket, owner>>

WriteToClient_Continues(s) ==  \* mutant
    /\ RelayTo(s, "write", "read")
    /\ UNCHANGED <<listening, forwarding, sessions, socket, owner>>

\* The answer goes through the listener the session was made with; another
\* failure than that it is closed is ignored.
WriteToClient(s) ==
    /\ \/ RelayTo(s, "write", "read") /\ listener[owner[s].gen] = "open"
       \/ RelayTo(s, "write", "close") /\ listener[owner[s].gen] = "closed"
    /\ UNCHANGED <<listening, forwarding, sessions, socket, owner>>

ReadFails_Leaks(s) ==  \* mutant
    /\ RelayTo(s, "read", "done")
    /\ UNCHANGED <<listening, forwarding, sessions, socket, owner>>

\* The socket was closed, or no packet came for the length of the timeout.
ReadFails(s) ==
    /\ RelayTo(s, "read", "close")
    /\ UNCHANGED <<listening, forwarding, sessions, socket, owner>>

\* The deferred calls.
CloseConn(s) ==
    /\ RelayTo(s, "close", "delete")
    /\ socket' = [socket EXCEPT ![s] = "closed"]
    /\ UNCHANGED <<listening, forwarding, sessions, owner>>

CompareAndDelete_Keeps(s) ==  \* mutant
    /\ RelayTo(s, "delete", "done")
    /\ UNCHANGED <<listening, forwarding, sessions, socket, owner>>

CompareAndDelete(s) ==
    /\ RelayTo(s, "delete", "done")
    /\ sessions' = IF sessions[owner[s].client] = s
                   THEN [sessions EXCEPT ![owner[s].client] = None] ELSE sessions
    /\ UNCHANGED <<listening, forwarding, socket, owner>>

-----------------------------------------------------------------------------
Handler(g) == CloseOne(g) \/ CloseListener(g)
Loop(g) == ReadFromUDP(g) \/ Load(g) \/ CreateConn(g) \/ Store(g) \/ GoRelay(g) \/ Forward(g)
Relay(s) == Answer(s) \/ WriteToClient(s) \/ ReadFails(s) \/ CloseConn(s) \/ CompareAndDelete(s)

Next ==
    \/ \E g \in Gen : Listen(g) \/ Stop(g) \/ Handler(g) \/ Loop(g)
    \/ \E s \in Sockets : Relay(s)

Spec == Init /\ [][Next]_vars

\* No loop is left that could move the deadline of a session.
Quiet == \A g \in Gen : loop[g] \in {"none", "ended"}

\* Goroutines run.  A read fails when the socket is closed; it times out
\* (udpIdleTimeout is never 0) unless packets of the client keep moving the
\* deadline.  Nobody has to answer, and nobody has to stop the rule.
FairSpec ==
    /\ Spec
    /\ \A g \in Gen : WF_vars(Handler(g)) /\ WF_vars(Loop(g))
    /\ \A s \in Sockets :
          /\ WF_vars(WriteToClient(s) \/ CloseConn(s) \/ CompareAndDelete(s))
          /\ WF_vars((socket[s] = "closed" \/ Quiet) /\ ReadFails(s))

-----------------------------------------------------------------------------
(* Properties *)

\* The loop that made a session is still setting it up.
BeingMade(s, steps) ==
    owner[s].gen \in Gen /\ loop[owner[s].gen] \in steps /\ conn[owner[s].gen] = s

\* Every open socket to the server belongs to a goroutine that will close it
\* (the leak of sessions that RunUDPConnectionRelay's deferred calls fix).
NoLeak ==
    \A s \in Sockets : socket[s] = "open" =>
        relay[s] \in {"read", "write", "close"} \/ BeingMade(s, {"store", "go"})

\* A client finds no session whose relay has ended: its packets would be
\* written to a closed socket for ever.
NoDeadEntry ==
    \A c \in Clients : sessions[c] # None =>
        /\ relay[sessions[c]] # "done" /\ owner[sessions[c]].client = c
        /\ relay[sessions[c]] = "none" => BeingMade(sessions[c], {"go"})

\* A client has one session at a time, the one in the map, so that its packets
\* come from one source address of the proxy and every answer reaches it.
OneSession ==
    \A s \in Sockets :
        socket[s] = "open" /\ relay[s] # "none" => sessions[owner[s].client] = s

\* After the rule is stopped for good no socket and no entry remains.
Drains == <>[]Quiet => <>[](\A s \in Sockets : socket[s] # "open" /\ relay[s] \in {"none", "done"})
                     /\ <>[](\A c \in Clients : sessions[c] = None)

\* Loops, relays and stop handlers, each with its own idea of which sessions there
\* are, come to a table of sessions that is changed in single steps, and in which
\* no session is replaced, and none forgotten while its socket is open.
Table == INSTANCE SessionTable WITH
    session <- sessions,
    open <- {s \in Sockets : socket[s] = "open"},
    used <- {s \in Sockets : socket[s] # "none"}
TableSpec == Table!TableSpec

==============================================================================
