----------------------------- MODULE HostStore -----------------------------
(***************************************************************************)
(* What the endpoint table promises the administrator, as long as requests *)
(* in progress are about different hosts: a request touches its own hosts  *)
(* only, what it saves is a configuration that runs, and when it returns   *)
(* its hosts are saved as they run, unless an error has struck.  An error  *)
(* costs no other host anything, and is made good when the host is next    *)
(* saved.  A restart brings back what is saved, so a host that no request  *)
(* was about runs on as it did.                                            *)
(***************************************************************************)
CONSTANTS
    Callers,    \* requests in progress at a time
    Hosts,      \* host names
    None        \* no configuration

VARIABLES
    config,     \* the configuration that runs under each name
    saved,      \* the one that a restart would bring back
    about,      \* the hosts of each request in progress
    unsaved     \* hosts that an error has struck, since they were last saved as they run

storeVars == <<config, saved, about, unsaved>>

StoreInit ==
    /\ config = [h \in Hosts |-> None] /\ saved = [h \in Hosts |-> None]
    /\ about = [c \in Callers |-> {}]
    /\ unsaved = {}

\* Nothing else changes its configuration.
OnlyOf(hosts) == \A h \in Hosts \ hosts : config'[h] = config[h]

\* A request about host h, which may be changed at once, and about host m, which
\* h is renamed to.
Arrives(c, h, m) ==
    /\ about[c] = {} /\ \A d \in Callers : about[d] \cap {h, m} = {}
    /\ m # h => config[m] = None
    /\ about' = [about EXCEPT ![c] = {h, m}]
    /\ OnlyOf({h}) /\ UNCHANGED <<saved, unsaved>>

Runs(c) == UNCHANGED <<saved, unsaved>> /\ OnlyOf(about[c])

\* The file is removed, or is being written.
Erases(h) == UNCHANGED <<config, unsaved>> /\ saved' = [saved EXCEPT ![h] = None]

\* A host that is renamed has only one name.
Saves(c, h) ==
    /\ config[h] # None /\ \A g \in about[c] \ {h} : saved[g] = None
    /\ saved' = [saved EXCEPT ![h] = config[h]] /\ unsaved' = unsaved \ {h}
    /\ UNCHANGED config

Fails(h) == unsaved' = unsaved \cup {h} /\ UNCHANGED <<config, saved>>

\* What runs is what is saved when the request returns.  A host that is not there
\* is not saved either, so that no name that is free brings back another host.
Returns(c) ==
    /\ about' = [about EXCEPT ![c] = {}]
    /\ \A h \in about[c] : config'[h] = saved'[h] \/ h \in unsaved'

\* It saves when it is done.
Proceeds(c) ==
    /\ about[c] # {}
    /\ \/ /\ UNCHANGED about \/ Returns(c)
          /\ Runs(c) \/ \E h \in about[c] : Erases(h) \/ Fails(h)
       \/ Returns(c) /\ \E h \in about[c] : Saves(c, h)

\* The program ends and starts again.
Restarts ==
    /\ config' = saved /\ UNCHANGED saved
    /\ about' = [c \in Callers |-> {}] /\ unsaved' = {}

StoreNext ==
    \/ \E c \in Callers : Proceeds(c) \/ \E h, m \in Hosts : Arrives(c, h, m)
    \/ Restarts

StoreSpec == StoreInit /\ [][StoreNext]_storeVars

==============================================================================
