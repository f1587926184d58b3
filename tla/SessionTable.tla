---------------------------- MODULE SessionTable ----------------------------
(***************************************************************************)
(* What the UDP sessions of a rule are for a client and for the server: a  *)
(* client has at most one session, which keeps one socket to the server,   *)
(* and so one source address, until that socket is closed; then the        *)
(* session is forgotten, and the next packet of the client gets another.   *)
(* A socket is used once.                                                  *)
(***************************************************************************)
CONSTANTS Clients, Sockets, None

VARIABLES
    session,    \* the socket of each client's session
    open,       \* the sockets that are open
    used        \* those that are or were

tableVars == <<session, open, used>>

TableInit == session = [c \in Clients |-> None] /\ open = {} /\ used = {}

\* A socket is opened for a session to be.
Dial(s) ==
    /\ s \notin used
    /\ open' = open \cup {s} /\ used' = used \cup {s} /\ UNCHANGED session

\* A client without a session gets one, on a socket nobody else has.
Enter(c, s) ==
    /\ session[c] = None /\ s \in open /\ \A d \in Clients : session[d] # s
    /\ session' = [session EXCEPT ![c] = s] /\ UNCHANGED <<open, used>>

Close(s) == s \in open /\ open' = open \ {s} /\ UNCHANGED <<session, used>>

Forget(c) ==
    /\ session[c] # None /\ session[c] \notin open
    /\ session' = [session EXCEPT ![c] = None] /\ UNCHANGED <<open, used>>

TableNext ==
    \/ \E s \in Sockets : Dial(s) \/ Close(s)
    \/ \E c \in Clients : Forget(c) \/ \E s \in Sockets : Enter(c, s)

TableSpec == TableInit /\ [][TableNext]_tableVars

=============================================================================
