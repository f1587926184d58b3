-------------------------- MODULE UDPSessionsProofs --------------------------
(* The sessions of a UDP rule, for any clients, sockets and listeners. *)
EXTENDS UDPSessions, TLAPS

(* A session being made belongs to the loop that makes it. *)
Making ==
    \A g \in Gen : loop[g] \in {"store", "go"} =>
        /\ owner[conn[g]] = [client |-> client[g], gen |-> g]
        /\ relay[conn[g]] = "none" /\ socket[conn[g]] # "none"

(* A relay runs for a socket that was opened, and ends by closing it. *)
Relaying ==
    \A s \in Sockets :
        /\ socket[s] = "none" => relay[s] = "none"
        /\ relay[s] \in {"delete", "done"} => socket[s] = "closed"

(* Listeners follow each other, and so do the loops of a settled rule. *)
InTurn ==
    \A g \in Gen, h \in Gen : h < g /\ listener[g] # "none" =>
        listener[h] = "closed" /\ (Settled => loop[h] = "ended")

Started == \A g \in Gen : listener[g] = "none" <=> loop[g] = "none"

Told == \A g \in Gen : handler[g] # "none" => listener[g] # "none"

IInv == TypeOK /\ Making /\ Relaying /\ InTurn /\ Started /\ Told /\ NoLeak /\ NoDeadEntry

(* What a settled rule adds: nobody else touches the entry of the client whose
   packet the loop works on. *)
OwnEntry ==
    /\ \A g \in Gen : loop[g] \in {"check", "store"} => sessions[client[g]] = None
    /\ \A g \in Gen : loop[g] = "go" => sessions[client[g]] = conn[g]

SInv == Settled => OwnEntry /\ OneSession

-----------------------------------------------------------------------------
USE ListenersAssumption, NoneAssumption DEF BeingMade

LEMMA InitInv == Init => IInv /\ SInv
BY DEF Init, IInv, SInv, TypeOK, Making, Relaying, InTurn, Started, Told, NoLeak, NoDeadEntry,
       OwnEntry, OneSession

(* What the loop and the map refer to exists. *)
LEMMA MadeByLoop ==
    ASSUME IInv, NEW g \in Gen, loop[g] \in {"store", "go"}
    PROVE  /\ conn[g] \in Sockets /\ client[g] \in Clients
           /\ owner[conn[g]].gen = g /\ owner[conn[g]].client = client[g]
           /\ relay[conn[g]] = "none" /\ socket[conn[g]] # "none"
<1>1. conn[g] \in Sockets /\ client[g] \in Clients
  BY DEF IInv, TypeOK
<1>2. /\ owner[conn[g]] = [client |-> client[g], gen |-> g]
      /\ relay[conn[g]] = "none" /\ socket[conn[g]] # "none"
  BY DEF IInv, Making
<1> QED
  BY <1>1, <1>2

LEMMA EntriesExist ==
    ASSUME IInv, NEW c \in Clients, sessions[c] # None
    PROVE  sessions[c] \in Sockets /\ socket[sessions[c]] # "none"
<1>1. sessions[c] \in Sockets
  BY DEF IInv, TypeOK
<1>2. CASE relay[sessions[c]] # "none"
  BY <1>1, <1>2 DEF IInv, Relaying
<1>3. CASE relay[sessions[c]] = "none"
  <2>1. BeingMade(sessions[c], {"go"})
    BY <1>3 DEF IInv, NoDeadEntry
  <2> QED
    BY <1>1, <2>1, MadeByLoop
<1> QED
  BY <1>1, <1>2, <1>3

LEMMA ListenInv == ASSUME IInv, SInv, NEW g \in Gen, Listen(g) PROVE IInv' /\ SInv'
<1>1. TypeOK'
  BY DEF IInv, TypeOK, Listen, relaying
<1>2. InTurn'
  BY DEF IInv, TypeOK, InTurn, Started, Listen, relaying, Gen
<1>3. (Making /\ Relaying /\ Started /\ Told)'
  BY DEF IInv, TypeOK, Making, Relaying, Started, Told, Listen, relaying
<1>4. /\ UNCHANGED <<conn, sessions, socket, owner, relay, client>>
      /\ loop[g] = "none"
      /\ \A h \in Gen : h # g => loop'[h] = loop[h]
      /\ loop'[g] = "read"
  BY DEF IInv, TypeOK, Started, Listen, relaying
<1>5. NoLeak'
  BY <1>4 DEF IInv, NoLeak
<1>6. NoDeadEntry'
  BY <1>4 DEF IInv, NoDeadEntry
<1>7. SInv'
  BY <1>4 DEF IInv, SInv, OwnEntry, OneSession
<1> QED
  BY <1>1, <1>2, <1>3, <1>5, <1>6, <1>7 DEF IInv

LEMMA HandlerInv ==
    ASSUME IInv, SInv, NEW g \in Gen, Stop(g) \/ Handler(g) PROVE IInv' /\ SInv'
<1>1. TypeOK' /\ UNCHANGED <<loop, client, conn, sessions, owner, relay>>
  <2>1. CASE Stop(g)
    BY <2>1 DEF IInv, TypeOK, Stop, HandlerTo, forwarding, relaying
  <2>2. CASE CloseOne(g)
    <3>1. toVisit' \in [Gen -> SUBSET Clients] /\ socket' \in [Sockets -> {"none", "open", "closed"}]
      BY <2>2 DEF IInv, TypeOK, CloseOne
    <3> QED
      BY <2>2, <3>1 DEF IInv, TypeOK, CloseOne, forwarding
  <2>3. CASE CloseListener(g)
    BY <2>3 DEF IInv, TypeOK, CloseListener, HandlerTo, forwarding, relaying
  <2> QED
    BY <2>1, <2>2, <2>3 DEF Handler
<1>2. \A s \in Sockets : socket'[s] = socket[s] \/ (socket[s] # "none" /\ socket'[s] = "closed")
  <2>1. CASE CloseOne(g)
    <3>1. PICK c \in Clients :
             socket' = IF sessions[c] # None THEN [socket EXCEPT ![sessions[c]] = "closed"]
                       ELSE socket
      BY <2>1 DEF IInv, TypeOK, CloseOne
    <3>2. sessions[c] # None => sessions[c] \in Sockets /\ socket[sessions[c]] # "none"
      BY EntriesExist
    <3> QED
      BY <3>1, <3>2 DEF IInv, TypeOK
  <2>2. CASE Stop(g) \/ CloseListener(g)
    BY <2>2 DEF Stop, CloseListener, relaying
  <2> QED
    BY <2>1, <2>2 DEF Handler
<1>3. \A h \in Gen : \/ listener'[h] = listener[h]
                     \/ listener[h] # "none" /\ listener'[h] = "closed"
  <2>1. CASE CloseListener(g)
    <3>1. listener[g] # "none"
      BY <2>1 DEF IInv, TypeOK, Told, CloseListener, HandlerTo
    <3> QED
      BY <2>1, <3>1 DEF IInv, TypeOK, CloseListener
  <2>2. CASE Stop(g) \/ CloseOne(g)
    BY <2>2 DEF Stop, CloseOne
  <2> QED
    BY <2>1, <2>2 DEF Handler
<1>4. Told'
  BY <1>3 DEF IInv, TypeOK, Told, Stop, Handler, CloseOne, CloseListener, HandlerTo
<1>5. (Making /\ Relaying)'
  BY <1>1, <1>2 DEF IInv, TypeOK, Making, Relaying
<1>6. (InTurn /\ Started)'
  BY <1>1, <1>3 DEF IInv, TypeOK, InTurn, Started
<1>7. (NoLeak /\ NoDeadEntry)' /\ SInv'
  BY <1>1, <1>2 DEF IInv, SInv, TypeOK, NoLeak, NoDeadEntry, OwnEntry, OneSession
<1> QED
  BY <1>1, <1>4, <1>5, <1>6, <1>7 DEF IInv

(* The steps of a loop that touch no session. *)
LEMMA ReadInv ==
    ASSUME IInv, SInv, NEW g \in Gen, ReadFromUDP(g) \/ Load(g) \/ Forward(g) PROVE IInv' /\ SInv'
<1>1. CASE ReadFromUDP(g)
  <2> USE <1>1 DEF ReadFromUDP, LoopTo, listening, relaying
  <2>1. TypeOK'
    <3>1. TypeOK
      BY DEF IInv
    <3>2. CASE loop' = [loop EXCEPT ![g] = "load"] /\ \E c \in Clients : client' = [client EXCEPT ![g] = c]
      BY <3>1, <3>2 DEF TypeOK
    <3>3. CASE loop' = [loop EXCEPT ![g] = "ended"] /\ UNCHANGED client
      BY <3>1, <3>3 DEF TypeOK
    <3> QED
      BY <3>2, <3>3
  <2>2. (Making /\ Relaying /\ InTurn /\ Started /\ Told)'
    BY DEF IInv, TypeOK, Making, Relaying, InTurn, Started, Told
  <2>3. (NoLeak /\ NoDeadEntry)' /\ SInv'
    BY DEF IInv, SInv, TypeOK, NoLeak, NoDeadEntry, OwnEntry, OneSession
  <2> QED
    BY <2>1, <2>2, <2>3 DEF IInv
<1>2. CASE Load(g)
  <2> USE <1>2 DEF Load, LoopTo, listening, relaying
  <2>1. client[g] \in Clients /\ sessions[client[g]] \in Sockets \cup {None}
    BY DEF IInv, TypeOK
  <2>2. /\ conn' \in [Gen -> Sockets \cup {None}]
        /\ loop' = [loop EXCEPT ![g] = "forward"] \/ loop' = [loop EXCEPT ![g] = "check"]
        /\ loop' \in [Gen -> {"none", "read", "load", "check", "store", "go", "forward", "ended"}]
    BY <2>1 DEF IInv, TypeOK
  <2>3. TypeOK'
    BY <2>1, <2>2 DEF IInv, TypeOK
  <2>4. (Making /\ Relaying /\ InTurn /\ Started /\ Told)'
    BY <2>2 DEF IInv, TypeOK, Making, Relaying, InTurn, Started, Told
  <2>5. (NoLeak /\ NoDeadEntry)'
    BY <2>2 DEF IInv, TypeOK, NoLeak, NoDeadEntry
  <2>6. SInv'
    BY <2>2 DEF IInv, SInv, TypeOK, OwnEntry, OneSession
  <2> QED
    BY <2>3, <2>4, <2>5, <2>6 DEF IInv
<1>3. CASE Forward(g)
  <2> USE <1>3 DEF Forward, LoopTo, listening, relaying
  <2>1. TypeOK'
    BY DEF IInv, TypeOK
  <2>2. (Making /\ Relaying /\ InTurn /\ Started /\ Told)'
    BY DEF IInv, TypeOK, Making, Relaying, InTurn, Started, Told
  <2>3. (NoLeak /\ NoDeadEntry)' /\ SInv'
    BY DEF IInv, SInv, TypeOK, NoLeak, NoDeadEntry, OwnEntry, OneSession
  <2> QED
    BY <2>1, <2>2, <2>3 DEF IInv
<1> QED
  BY <1>1, <1>2, <1>3

LEMMA CreateInv == ASSUME IInv, SInv, NEW g \in Gen, CreateConn(g) PROVE IInv' /\ SInv'
<1>1. /\ UNCHANGED <<listening, client, sessions, relay>>
      /\ loop[g] = "check" /\ g \in DOMAIN loop /\ client[g] \in Clients
  BY DEF CreateConn, LoopTo, IInv, TypeOK
<1>2. CASE loop' = [loop EXCEPT ![g] = "read"] /\ UNCHANGED <<conn, socket, owner>>
  <2> USE <1>1, <1>2 DEF listening
  <2>1. TypeOK'
    BY DEF IInv, TypeOK
  <2>2. (Making /\ Relaying /\ InTurn /\ Started /\ Told)'
    BY DEF IInv, TypeOK, Making, Relaying, InTurn, Started, Told
  <2>3. (NoLeak /\ NoDeadEntry)' /\ SInv'
    BY DEF IInv, SInv, TypeOK, NoLeak, NoDeadEntry, OwnEntry, OneSession
  <2> QED
    BY <2>1, <2>2, <2>3 DEF IInv
<1>3. ASSUME NEW s \in Sockets, socket[s] = "none", loop' = [loop EXCEPT ![g] = "store"],
             conn' = [conn EXCEPT ![g] = s], socket' = [socket EXCEPT ![s] = "open"],
             owner' = [owner EXCEPT ![s] = [client |-> client[g], gen |-> g]]
      PROVE IInv' /\ SInv'
  <2> USE <1>1, <1>3 DEF listening
  <2>1. relay[s] = "none" /\ \A c \in Clients : sessions[c] # s
    BY EntriesExist DEF IInv, Relaying
  <2>2. \A h \in Gen : h # g /\ loop[h] \in {"store", "go"} => conn[h] # s
    BY DEF IInv, Making
  <2>3. owner' \in [Sockets -> [client : Clients \cup {None}, gen : 0..Listeners]]
    BY DEF IInv, TypeOK, Gen
  <2>4. TypeOK'
    BY <2>3 DEF IInv, TypeOK
  <2>5. (Making /\ Relaying)'
    BY <2>1, <2>2 DEF IInv, TypeOK, Making, Relaying
  <2>6. (InTurn /\ Started /\ Told)'
    BY DEF IInv, TypeOK, InTurn, Started, Told
  <2>7. NoLeak'
    BY <2>1 DEF IInv, TypeOK, NoLeak
  <2>8. NoDeadEntry'
    BY <2>1 DEF IInv, TypeOK, NoDeadEntry
  <2>9. SInv'
    BY <2>1 DEF IInv, SInv, TypeOK, OwnEntry, OneSession
  <2> QED
    BY <2>4, <2>5, <2>6, <2>7, <2>8, <2>9 DEF IInv
<1> QED
  BY <1>2, <1>3 DEF CreateConn, LoopTo

LEMMA StoreInv == ASSUME IInv, SInv, NEW g \in Gen, Store(g) PROVE IInv' /\ SInv'
<1> USE DEF Store, LoopTo, listening, relaying
<1>1. TypeOK'
  BY DEF IInv, TypeOK
<1>2. (Making /\ Relaying /\ InTurn /\ Started /\ Told)'
  BY DEF IInv, TypeOK, Making, Relaying, InTurn, Started, Told
<1>3. conn[g] \in Sockets /\ client[g] \in Clients /\ owner[conn[g]].gen = g
      /\ owner[conn[g]].client = client[g] /\ relay[conn[g]] = "none"
  BY MadeByLoop
<1>4. NoLeak'
  BY DEF IInv, TypeOK, NoLeak
<1>5. NoDeadEntry'
  BY <1>3 DEF IInv, TypeOK, NoDeadEntry
<1>6. ASSUME Settled PROVE \A h \in Gen : h # g => loop[h] \in {"none", "ended"}
  BY <1>6 DEF IInv, TypeOK, InTurn, Started, Gen
<1>7. SInv'
  BY <1>3, <1>6 DEF IInv, SInv, TypeOK, OwnEntry, OneSession
<1> QED
  BY <1>1, <1>2, <1>4, <1>5, <1>7 DEF IInv

LEMMA GoRelayInv == ASSUME IInv, SInv, NEW g \in Gen, GoRelay(g) PROVE IInv' /\ SInv'
<1> USE DEF GoRelay, LoopTo, listening
<1>1. TypeOK'
  BY DEF IInv, TypeOK
<1>2. conn[g] \in Sockets /\ owner[conn[g]].gen = g /\ owner[conn[g]].client = client[g]
      /\ relay[conn[g]] = "none" /\ socket[conn[g]] # "none"
  BY MadeByLoop
<1>3. Making'
  BY <1>2 DEF IInv, TypeOK, Making
<1>4. (Relaying /\ InTurn /\ Started /\ Told)'
  BY <1>2 DEF IInv, TypeOK, Relaying, InTurn, Started, Told
<1>5. (NoLeak /\ NoDeadEntry)'
  BY <1>2 DEF IInv, TypeOK, NoLeak, NoDeadEntry
<1>6. SInv'
  BY <1>2 DEF IInv, SInv, TypeOK, OwnEntry, OneSession
<1> QED
  BY <1>1, <1>3, <1>4, <1>5, <1>6 DEF IInv

LEMMA RelayInv == ASSUME IInv, SInv, NEW s \in Sockets, Relay(s) PROVE IInv' /\ SInv'
<1> USE DEF RelayTo, listening, forwarding
<1>1. CASE Answer(s) \/ WriteToClient(s) \/ ReadFails(s)
  <2>1. /\ UNCHANGED <<listening, forwarding, sessions, socket, owner>>
        /\ relay[s] \in {"read", "write"}
        /\ \E to \in {"read", "write", "close"} : relay' = [relay EXCEPT ![s] = to]
    BY <1>1 DEF Answer, WriteToClient, ReadFails
  <2>2. TypeOK'
    BY <2>1 DEF IInv, TypeOK
  <2>3. (Making /\ Relaying /\ InTurn /\ Started /\ Told)'
    BY <2>1 DEF IInv, TypeOK, Making, Relaying, InTurn, Started, Told
  <2>4. NoLeak'
    BY <2>1 DEF IInv, TypeOK, NoLeak
  <2>5. NoDeadEntry'
    BY <2>1 DEF IInv, TypeOK, NoDeadEntry
  <2>6. SInv'
    BY <2>1 DEF IInv, SInv, TypeOK, OwnEntry, OneSession
  <2> QED
    BY <2>2, <2>3, <2>4, <2>5, <2>6 DEF IInv
<1>2. CASE CloseConn(s)
  <2> USE <1>2 DEF CloseConn
  <2>1. TypeOK' /\ (Making /\ Relaying)'
    BY DEF IInv, TypeOK, Making, Relaying
  <2>2. (InTurn /\ Started /\ Told)'
    BY DEF IInv, InTurn, Started, Told
  <2>3. (NoLeak /\ NoDeadEntry)' /\ SInv'
    BY DEF IInv, SInv, TypeOK, NoLeak, NoDeadEntry, OwnEntry, OneSession
  <2> QED
    BY <2>1, <2>2, <2>3 DEF IInv
<1>3. CASE CompareAndDelete(s)
  <2> USE <1>3 DEF CompareAndDelete
  <2>1. /\ sessions' \in [Clients -> Sockets \cup {None}]
        /\ relay' \in [Sockets -> {"none", "read", "write", "close", "delete", "done"}]
        /\ \A c \in Clients : \/ sessions'[c] = sessions[c]
                              \/ sessions[c] = s /\ sessions'[c] = None
        /\ \A c \in Clients : sessions'[c] # s
    <3>1. /\ relay[s] = "delete" /\ s # None
          /\ relay' \in [Sockets -> {"none", "read", "write", "close", "delete", "done"}]
      BY DEF IInv, TypeOK
    <3>2. \A c \in Clients : sessions[c] = s => owner[s].client = c
      BY <3>1 DEF IInv, NoDeadEntry
    <3>3. CASE sessions[owner[s].client] = s
      <4>1. sessions' = [sessions EXCEPT ![owner[s].client] = None]
        BY <3>3
      <4>2. \A c \in Clients :
               sessions'[c] = IF c = owner[s].client THEN None ELSE sessions[c]
        BY <4>1 DEF IInv, TypeOK
      <4>3. sessions' \in [Clients -> Sockets \cup {None}]
        <5>1. sessions \in [Clients -> Sockets \cup {None}]
          BY DEF IInv, TypeOK
        <5> QED
          BY ONLY <4>1, <5>1
      <4>4. \A c \in Clients : c = owner[s].client => sessions[c] = s
        BY <3>3
      <4> QED
        BY <3>1, <3>2, <4>2, <4>3, <4>4
    <3>4. CASE sessions[owner[s].client] # s
      BY <3>1, <3>2, <3>4 DEF IInv, TypeOK
    <3> QED
      BY <3>3, <3>4
  <2>2. TypeOK'
    BY <2>1 DEF IInv, TypeOK
  <2>3. (Making /\ Relaying)'
    BY DEF IInv, TypeOK, Making, Relaying
  <2>4. (InTurn /\ Started /\ Told)'
    BY DEF IInv, InTurn, Started, Told
  <2>5. NoLeak'
    BY DEF IInv, TypeOK, NoLeak, Relaying
  <2>6. NoDeadEntry'
    BY <2>1 DEF IInv, TypeOK, NoDeadEntry
  <2>7. ASSUME Settled PROVE OwnEntry'
    <3>1. relay[s] = "delete" /\ UNCHANGED <<loop, client, conn>>
      OBVIOUS
    <3>2. \A g \in Gen : loop[g] \in {"check", "store", "go"} => client[g] \in Clients
      BY DEF IInv, TypeOK
    <3>3. \A g \in Gen : loop[g] = "go" => conn[g] # s
      BY <3>1, MadeByLoop
    <3> QED
      BY <2>1, <2>7, <3>1, <3>2, <3>3 DEF SInv, OwnEntry
  <2>8. ASSUME Settled PROVE OneSession'
    BY <2>1, <2>8 DEF IInv, SInv, TypeOK, OneSession, Relaying
  <2> QED
    BY <2>2, <2>3, <2>4, <2>5, <2>6, <2>7, <2>8 DEF IInv, SInv
<1> QED
  BY <1>1, <1>2, <1>3 DEF Relay

LEMMA StepInv == IInv /\ SInv /\ [Next]_vars => IInv' /\ SInv'
<1> SUFFICES ASSUME IInv, SInv, [Next]_vars PROVE IInv' /\ SInv'
  OBVIOUS
<1>1. CASE UNCHANGED vars
  BY <1>1 DEF vars, listening, forwarding, relaying, IInv, SInv, TypeOK, Making, Relaying,
     InTurn, Started, Told, NoLeak, NoDeadEntry, OwnEntry, OneSession
<1>2. ASSUME NEW g \in Gen, Loop(g) PROVE IInv' /\ SInv'
  BY <1>2, ReadInv, CreateInv, StoreInv, GoRelayInv DEF Loop
<1> QED
  BY <1>1, <1>2, ListenInv, HandlerInv, RelayInv DEF Next

LEMMA Inductive == Spec => [](IInv /\ SInv)
<1> HIDE DEF IInv, SInv
<1> QED
  BY InitInv, StepInv, PTL DEF Spec

-----------------------------------------------------------------------------
(* Every variable keeps its type; the loop of ForwardUDP never works with a
   session it does not have. *)
THEOREM TypeCorrect == Spec => []TypeOK
<1>1. IInv /\ SInv => TypeOK
  BY DEF IInv
<1> QED
  BY <1>1, Inductive, PTL

(* However listeners, loops and relays interleave, no socket to the server is
   left without a goroutine that closes it (RunUDPConnectionRelay), and no
   client is left with a session whose relay has ended. *)
THEOREM SessionsAreReleased == Spec => [](NoLeak /\ NoDeadEntry)
<1>1. IInv /\ SInv => NoLeak /\ NoDeadEntry
  BY DEF IInv
<1> QED
  BY <1>1, Inductive, PTL

(* When a rule is started only after the loop of its last listener has ended,
   every relayed session is the one its client finds in udpClientMap. *)
THEOREM OneSessionPerClient == ASSUME Settled PROVE Spec => []OneSession
<1>1. IInv /\ SInv => OneSession
  BY DEF SInv
<1> QED
  BY <1>1, Inductive, PTL

-----------------------------------------------------------------------------
(* The sessions implement SessionTable. *)

(* A socket that is about to be entered in the map is open: who could close it
   would have to find it there, or to run its relay. *)
DialedOpen == \A g \in Gen : loop[g] = "store" => socket[conn[g]] = "open"

LEMMA NotListedYet ==
    ASSUME IInv, NEW g \in Gen, loop[g] = "store", NEW c \in Clients
    PROVE  sessions[c] # conn[g]
<1> SUFFICES ASSUME sessions[c] = conn[g] PROVE FALSE
  OBVIOUS
<1>1. conn[g] \in Sockets /\ owner[conn[g]].gen = g /\ relay[conn[g]] = "none"
  BY MadeByLoop
<1>2. sessions[c] # None
  BY <1>1
<1>3. BeingMade(conn[g], {"go"})
  BY <1>1, <1>2 DEF IInv, NoDeadEntry
<1> QED
  BY <1>1, <1>3

LEMMA DialedNext == IInv /\ DialedOpen /\ [Next]_vars => DialedOpen'
<1> SUFFICES ASSUME IInv, DialedOpen, [Next]_vars, NEW g \in Gen, loop'[g] = "store"
             PROVE  socket'[conn'[g]] = "open"
  BY DEF DialedOpen
<1>0. /\ loop \in [Gen -> {"none", "read", "load", "check", "store", "go", "forward", "ended"}]
      /\ conn \in [Gen -> Sockets \cup {None}] /\ socket \in [Sockets -> {"none", "open", "closed"}]
  BY DEF IInv, TypeOK
<1>1. CASE UNCHANGED <<forwarding, socket>>
  BY <1>1 DEF forwarding, DialedOpen
<1>2. ASSUME NEW h \in Gen, Listen(h) \/ Stop(h) \/ CloseListener(h) PROVE socket'[conn'[g]] = "open"
  BY <1>0, <1>2 DEF Listen, Stop, CloseListener, forwarding, relaying, DialedOpen
<1>3. ASSUME NEW h \in Gen, CloseOne(h) PROVE socket'[conn'[g]] = "open"
  <2>1. UNCHANGED forwarding
    BY <1>3 DEF CloseOne
  <2>2. loop[g] = "store" /\ socket[conn[g]] = "open" /\ conn'[g] = conn[g]
    BY <2>1 DEF forwarding, DialedOpen
  <2>3. PICK c \in Clients :
            socket' = IF sessions[c] # None THEN [socket EXCEPT ![sessions[c]] = "closed"] ELSE socket
    BY <1>3 DEF CloseOne, IInv, TypeOK
  <2>4. sessions[c] # conn[g]
    BY <2>2, NotListedYet
  <2> QED
    BY <1>0, <2>2, <2>3, <2>4
<1>4. ASSUME NEW h \in Gen, Loop(h) PROVE socket'[conn'[g]] = "open"
  <2>1. CASE CreateConn(h)
    <3>1. CASE UNCHANGED <<conn, socket>> /\ LoopTo(h, "check", "read")
      BY <1>0, <3>1 DEF LoopTo, DialedOpen
    <3>2. CASE /\ LoopTo(h, "check", "store")
               /\ \E s \in Sockets : /\ socket[s] = "none" /\ conn' = [conn EXCEPT ![h] = s]
                                     /\ socket' = [socket EXCEPT ![s] = "open"]
      <4>1. PICK s \in Sockets : /\ socket[s] = "none" /\ conn' = [conn EXCEPT ![h] = s]
                                 /\ socket' = [socket EXCEPT ![s] = "open"]
        BY <3>2
      <4>2. CASE g = h
        BY <1>0, <4>1, <4>2
      <4>3. CASE g # h
        <5>1. loop[g] = "store" /\ conn'[g] = conn[g]
          BY <1>0, <3>2, <4>1, <4>3 DEF LoopTo
        <5>2. socket[conn[g]] = "open"
          BY <5>1 DEF DialedOpen
        <5> QED
          BY <1>0, <4>1, <5>1, <5>2
      <4> QED
        BY <4>2, <4>3
    <3> QED
      BY <2>1, <3>1, <3>2 DEF CreateConn
  <2>2. CASE ~CreateConn(h)
    <3>1. UNCHANGED socket
      BY <1>4, <2>2 DEF Loop, ReadFromUDP, Load, Store, GoRelay, Forward, relaying
    <3>2. /\ loop'[h] # "store" /\ \A f \in Gen \ {h} : loop'[f] = loop[f] /\ conn'[f] = conn[f]
      BY <1>0, <1>4, <2>2 DEF Loop, ReadFromUDP, Load, Store, GoRelay, Forward, LoopTo
    <3> QED
      BY <3>1, <3>2 DEF DialedOpen
  <2> QED
    BY <2>1, <2>2
<1>5. ASSUME NEW s \in Sockets, Relay(s) PROVE socket'[conn'[g]] = "open"
  <2>1. UNCHANGED forwarding
    BY <1>5 DEF Relay, Answer, WriteToClient, ReadFails, CloseConn, CompareAndDelete
  <2>2. loop[g] = "store" /\ socket[conn[g]] = "open" /\ conn'[g] = conn[g]
    BY <2>1 DEF forwarding, DialedOpen
  <2>3. CASE CloseConn(s)
    <3>1. relay[conn[g]] = "none" /\ relay[s] = "close"
      BY <2>2, <2>3, MadeByLoop DEF CloseConn, RelayTo
    <3> QED
      BY <1>0, <2>2, <2>3, <3>1 DEF CloseConn
  <2>4. CASE ~CloseConn(s)
    BY <1>5, <2>1, <2>2, <2>4 DEF Relay, Answer, WriteToClient, ReadFails, CompareAndDelete
  <2> QED
    BY <2>3, <2>4
<1>6. CASE UNCHANGED vars
  BY <1>1, <1>6 DEF vars, relaying
<1> QED
  BY <1>2, <1>3, <1>4, <1>5, <1>6 DEF Next, Handler

OpenNow == {s \in Sockets : socket[s] = "open"}
UsedNow == {s \in Sockets : socket[s] # "none"}

(* A step that closes at most one socket, and leaves the map alone. *)
LEMMA ClosesOne ==
    ASSUME IInv, NEW s \in Sockets, socket[s] # "none",
           socket' = [socket EXCEPT ![s] = "closed"], UNCHANGED sessions
    PROVE  [Table!TableNext]_(Table!tableVars)
<1>1. socket \in [Sockets -> {"none", "open", "closed"}]
  BY DEF IInv, TypeOK
<1>2. UsedNow' = UsedNow /\ OpenNow' = OpenNow \ {s}
  BY <1>1 DEF UsedNow, OpenNow
<1>3. CASE s \in OpenNow
  BY <1>2, <1>3 DEF Table!TableNext, Table!Close, UsedNow, OpenNow
<1>4. CASE s \notin OpenNow
  BY <1>2, <1>4 DEF Table!tableVars, UsedNow, OpenNow
<1> QED
  BY <1>3, <1>4

LEMMA TableStep ==
    ASSUME IInv, SInv, DialedOpen, Settled, [Next]_vars
    PROVE  [Table!TableNext]_(Table!tableVars)
<1>0. /\ socket \in [Sockets -> {"none", "open", "closed"}]
      /\ sessions \in [Clients -> Sockets \cup {None}]
  BY DEF IInv, TypeOK
<1>1. CASE UNCHANGED <<sessions, socket>>
  BY <1>1 DEF Table!tableVars
<1>2. ASSUME NEW g \in Gen, CloseOne(g) PROVE [Table!TableNext]_(Table!tableVars)
  <2>1. PICK c \in Clients :
            socket' = IF sessions[c] # None THEN [socket EXCEPT ![sessions[c]] = "closed"] ELSE socket
    BY <1>2 DEF CloseOne, IInv, TypeOK
  <2>2. UNCHANGED sessions
    BY <1>2 DEF CloseOne
  <2>3. CASE sessions[c] = None
    BY <1>1, <2>1, <2>2, <2>3
  <2>4. CASE sessions[c] # None
    <3>1. sessions[c] \in Sockets /\ socket[sessions[c]] # "none"
      BY <2>4, EntriesExist
    <3> QED
      BY <2>1, <2>2, <2>4, <3>1, ClosesOne
  <2> QED
    BY <2>3, <2>4
<1>3. ASSUME NEW g \in Gen, CreateConn(g) PROVE [Table!TableNext]_(Table!tableVars)
  <2>1. UNCHANGED sessions
    BY <1>3 DEF CreateConn
  <2>2. CASE UNCHANGED socket
    BY <1>1, <2>1, <2>2
  <2>3. CASE ~UNCHANGED socket
    <3>1. PICK s \in Sockets : socket[s] = "none" /\ socket' = [socket EXCEPT ![s] = "open"]
      BY <1>3, <2>3 DEF CreateConn
    <3>2. /\ s \notin UsedNow /\ UsedNow' = UsedNow \cup {s} /\ OpenNow' = OpenNow \cup {s}
      BY <1>0, <3>1 DEF UsedNow, OpenNow
    <3> QED
      BY <2>1, <3>2 DEF Table!TableNext, Table!Dial, UsedNow, OpenNow
  <2> QED
    BY <2>2, <2>3
<1>4. ASSUME NEW g \in Gen, Store(g) PROVE [Table!TableNext]_(Table!tableVars)
  <2>1. loop[g] = "store" /\ UNCHANGED socket /\ sessions' = [sessions EXCEPT ![client[g]] = conn[g]]
    BY <1>4 DEF Store, LoopTo, relaying
  <2>2. client[g] \in Clients /\ conn[g] \in Sockets
    BY <2>1, MadeByLoop
  <2>3. sessions[client[g]] = None
    BY <2>1 DEF SInv, OwnEntry
  <2>4. socket[conn[g]] = "open" /\ \A d \in Clients : sessions[d] # conn[g]
    BY <2>1, NotListedYet DEF DialedOpen
  <2>5. Table!Enter(client[g], conn[g])
    BY <2>1, <2>2, <2>3, <2>4 DEF Table!Enter
  <2> QED
    BY <2>2, <2>5 DEF Table!TableNext
<1>5. ASSUME NEW s \in Sockets, CloseConn(s) PROVE [Table!TableNext]_(Table!tableVars)
  <2>1. socket[s] # "none"
    BY <1>5 DEF CloseConn, RelayTo, IInv, Relaying
  <2> QED
    BY <1>5, <2>1, ClosesOne DEF CloseConn
<1>6. ASSUME NEW s \in Sockets, CompareAndDelete(s) PROVE [Table!TableNext]_(Table!tableVars)
  <2>1. UNCHANGED socket
    BY <1>6 DEF CompareAndDelete
  <2>2. CASE UNCHANGED sessions
    BY <1>1, <2>1, <2>2
  <2>3. CASE ~UNCHANGED sessions
    <3> DEFINE c == owner[s].client
    <3>1. sessions[c] = s /\ sessions' = [sessions EXCEPT ![c] = None] /\ relay[s] = "delete"
      BY <1>6, <2>3 DEF CompareAndDelete, RelayTo
    <3>2. c \in Clients
      <4>1. c \in Clients \cup {None}
        BY DEF IInv, TypeOK
      <4>2. c \notin Clients => sessions' = sessions
        BY <1>0, <3>1
      <4> QED
        BY <2>3, <4>2
    <3>3. socket[s] = "closed"
      BY <3>1 DEF IInv, Relaying
    <3>4. Table!Forget(c)
      BY <2>1, <3>1, <3>3 DEF Table!Forget
    <3> QED
      BY <3>2, <3>4 DEF Table!TableNext
  <2> QED
    BY <2>2, <2>3
<1>7. ASSUME NEW g \in Gen,
             \/ Listen(g) \/ Stop(g) \/ CloseListener(g)
             \/ ReadFromUDP(g) \/ Load(g) \/ GoRelay(g) \/ Forward(g)
      PROVE  UNCHANGED <<sessions, socket>>
  BY <1>7 DEF Listen, Stop, CloseListener, ReadFromUDP, Load, GoRelay, Forward, relaying
<1>8. ASSUME NEW s \in Sockets, Answer(s) \/ WriteToClient(s) \/ ReadFails(s)
      PROVE  UNCHANGED <<sessions, socket>>
  BY <1>8 DEF Answer, WriteToClient, ReadFails
<1>9. CASE UNCHANGED vars
  BY <1>1, <1>9 DEF vars, relaying
<1> QED
  BY <1>1, <1>2, <1>3, <1>4, <1>5, <1>6, <1>7, <1>8, <1>9 DEF Next, Handler, Loop, Relay

(* For a rule that is started only after the loop of its last listener has ended:
   as far as clients and the server can tell, udpClientMap is a table in which a
   session is entered once, is never replaced, and goes when its socket is
   closed, however the goroutines that work on it interleave. *)
THEOREM ImplementsTable == ASSUME Settled PROVE Spec => TableSpec
<1>1. Init => Table!TableInit /\ DialedOpen
  BY DEF Init, Table!TableInit, DialedOpen
<1>2. IInv /\ SInv /\ DialedOpen /\ [Next]_vars => [Table!TableNext]_(Table!tableVars)
  BY TableStep
<1> QED
  BY <1>1, <1>2, DialedNext, Inductive, PTL DEF Spec, TableSpec, Table!TableSpec

==============================================================================
