---------------------------- MODULE EndpointTable ----------------------------
(***************************************************************************)
(* The hosts of the reverse proxy: the table ProxyEndpoints, the objects   *)
(* it points to and their files.  The handlers of the web interface        *)
(* (reverseproxy.go, upstreams.go, vdir.go) change an object in place or   *)
(* put a changed copy in its stead, and then write its file; they hold no  *)
(* lock.  At the start the table is made from the files.                   *)
(*                                                                         *)
(* Grain: one action per access to the table, to an object that is in it,  *)
(* or to a file.  Host names are in lower case and addresses can be parsed.*)
(***************************************************************************)
EXTENDS Naturals, FiniteSets

CONSTANTS
    Callers,    \* requests of the web interface in progress at a time
    Hosts,      \* host names
    Settings,   \* what an edit changes: options, tags, aliases; whether it is enabled
    Upstreams, Vdirs,
    Objects,    \* addresses of ProxyEndpoint objects; bound on their number
    Unparsable, \* the upstreams and virtual directories with a target url.Parse refuses
    Exclusive,  \* TRUE: requests in progress are about different hosts
    SavesFail,  \* TRUE: writing or removing a file may fail
    None,       \* no object, no file, no text
    Torn        \* a file that was truncated and not yet written

ASSUME EndpointAssumption ==
    /\ Exclusive \in BOOLEAN /\ SavesFail \in BOOLEAN
    /\ None \notin Objects \cup Hosts \cup Upstreams \cup Vdirs

\* What the file of a host holds.  ups are the active origins; inactive ones are
\* never started and count as settings.
Data == [conf : Settings, ups : SUBSET Upstreams, vdirs : SUBSET Vdirs]
ASSUME FileAssumption == None \notin Data /\ Torn \notin Data /\ None # Torn

\* A ProxyEndpoint: RootOrMatchingDomain, what is saved of it, and its virtual
\* directories that have a proxy.  refused is history: the directories whose
\* addition was answered with an error, since the object was prepared as a whole.
Endpoint == [name : Hosts, data : Data, prepared : SUBSET Vdirs, refused : SUBSET Vdirs]
ASSUME HeapAssumption == None \notin Endpoint

\* PrepareProxyRoute parses the target of every directory; AddProxyRouteToRuntime
\* wants no upstream, or one that could be started (UpstreamsReady); and a start
\* wants both.
Prepares(d) == d.vdirs \cap Unparsable = {}
Lists(d) == d.ups = {} \/ d.ups \ Unparsable # {}
Loads(d) == Prepares(d) /\ Lists(d)

VARIABLES
    table,      \* ProxyEndpoints: host name -> object
    heap,       \* the objects
    files,      \* the configuration files
    req,        \* each handler's request
    unsaved     \* history: hosts that an error has left changed and not saved, or saved
                \* and not listed, until they are saved as they run, in a form that loads

vars == <<table, heap, files, req, unsaved>>

\* Where a handler is; the host its request is about, and the one it makes; the
\* object it works with; the upstream or virtual directory it has still to add;
\* and what it has marshalled.
PC == {"idle", "unlist", "unfile", "remove", "add", "readd", "attach", "append",
       "prepare", "save", "write"}
Request == [pc : PC, host : Hosts \cup {None}, dest : Hosts \cup {None},
            ept : Objects \cup {None}, arg : Upstreams \cup Vdirs \cup {None},
            text : Data \cup {None}]
NoRequest == [pc |-> "idle", host |-> None, dest |-> None, ept |-> None,
              arg |-> None, text |-> None]

TypeOK ==
    /\ table \in [Hosts -> Objects \cup {None}]
    /\ heap \in [Objects -> Endpoint \cup {None}]
    /\ files \in [Hosts -> Data \cup {None, Torn}]
    /\ req \in [Callers -> Request]
    /\ unsaved \subseteq Hosts

Init ==
    /\ table = [h \in Hosts |-> None] /\ heap = [o \in Objects |-> None]
    /\ files = [h \in Hosts |-> None] /\ req = [c \in Callers |-> NoRequest]
    /\ unsaved = {}

-----------------------------------------------------------------------------
Busy(h) == \E c \in Callers : req[c].pc # "idle" /\ h \in {req[c].host, req[c].dest}

\* A request about host h, and about host m, which it makes, arrives; the
\* handler works with object o and has to add a.
Begin(c, h, m, o, a, to) ==
    /\ req[c].pc = "idle"
    /\ Exclusive => ~Busy(h) /\ ~Busy(m)
    /\ req' = [req EXCEPT ![c] = [pc |-> to, host |-> h, dest |-> m, ept |-> o,
                                  arg |-> a, text |-> None]]

At(c, p) == req[c].pc = p
Goto(c, to) == req' = [req EXCEPT ![c].pc = to]
Return(c) == req' = [req EXCEPT ![c] = NoRequest]

\* The handler ends with an error, the host it makes changed but not saved.
GiveUp(c) == Return(c) /\ unsaved' = unsaved \cup {heap[req[c].ept].name}

\* An object as PrepareProxyRoute leaves it.
Prepared(h, d) == [name |-> h, data |-> d, prepared |-> d.vdirs, refused |-> {}]

\* A new object, prepared before it is in the table: an error ends the handler
\* with nothing changed.
Make(o, h, d) ==
    /\ heap[o] = None /\ Prepares(d)
    /\ heap' = [heap EXCEPT ![o] = Prepared(h, d)]

\* An object nobody points to any more is gone.
CollectFrom(objects) == heap' = [o \in Objects |->
    IF (\E h \in Hosts : table'[h] = o) \/ (\E c \in Callers : req'[c].ept = o)
    THEN objects[o] ELSE None]
Collect == CollectFrom(heap)

\* What LoadProxy finds, and a change of it where it is.
Found(h) == heap[table[h]].data
Change(o, d) == heap' = [heap EXCEPT ![o].data = d]

-----------------------------------------------------------------------------
(* Hosts *)

\* ReverseProxyHandleAddEndpoint does not look whether the host exists.
AddEndpoint(c, h) ==
    /\ \E o \in Objects, v \in Settings, u \in Upstreams :
          /\ Make(o, h, [conf |-> v, ups |-> {u}, vdirs |-> {}])
          /\ Begin(c, h, h, o, None, "add")
    /\ UNCHANGED <<table, files, unsaved>>

\* ReverseProxyHandleEditEndpoint, ReverseProxyHandleSetTags and
\* ReverseProxyHandleAlias replace the object by a changed copy.  (The three handlers
\* that save the copy before they prepare it, HandleHostOverwrite and its like, are
\* left out.)
EditEndpoint(c, h) ==
    /\ table[h] # None
    /\ \E o \in Objects, v \in Settings :
          /\ Make(o, h, [Found(h) EXCEPT !.conf = v])
          /\ Begin(c, h, h, o, None, "remove")
    /\ UNCHANGED <<table, files, unsaved>>

\* mutant: the object in the table is renamed, not a copy of it.
SetHostname_InPlace(c, h, m) ==
    /\ table[m] = None /\ table[h] # None
    /\ Begin(c, h, m, table[h], None, "unlist")
    /\ heap' = [heap EXCEPT ![table[h]].name = m]
    /\ UNCHANGED <<table, files, unsaved>>

\* mutant: the name a host is renamed to may be that of another.
SetHostname_Unchecked(c, h, m) ==
    /\ m # h /\ table[h] # None
    /\ \E o \in Objects : Make(o, m, Found(h)) /\ Begin(c, h, m, o, None, "unlist")
    /\ UNCHANGED <<table, files, unsaved>>

SetHostname(c, h, m) ==
    /\ table[m] = None /\ table[h] # None
    /\ \E o \in Objects : Make(o, m, Found(h)) /\ Begin(c, h, m, o, None, "unlist")
    /\ UNCHANGED <<table, files, unsaved>>

DeleteEndpoint(c, h) ==
    /\ Begin(c, h, h, None, None, "unlist")
    /\ UNCHANGED <<table, heap, files, unsaved>>

\* RemoveProxyEndpointByRootname; the handler ends if the host is not there.
Unlist(c) ==
    /\ At(c, "unlist")
    /\ \/ table[req[c].host] # None /\ Goto(c, "unfile")
       \/ table[req[c].host] = None /\ Return(c)
    /\ table' = [table EXCEPT ![req[c].host] = None]
    /\ Collect /\ UNCHANGED <<files, unsaved>>

\* RemoveReverseProxyConfig; the handler ends if there is no file, and a
\* deletion ends here in any case.
Unfile(c) ==
    /\ At(c, "unfile")
    /\ IF files[req[c].host] # None /\ req[c].dest # req[c].host
       THEN Goto(c, "add") ELSE Return(c)
    /\ files' = [files EXCEPT ![req[c].host] = None]
    /\ UNCHANGED <<table, unsaved>> /\ Collect

\* os.Remove fails: the host is off the table, and its file stays.
UnfileFails(c) ==
    /\ SavesFail /\ At(c, "unfile") /\ files[req[c].host] # None
    /\ Return(c) /\ unsaved' = unsaved \cup {req[c].host}
    /\ UNCHANGED <<table, files>> /\ Collect

\* ReverseProxyToggleRuleSet
Toggle(c, h) ==
    /\ table[h] # None
    /\ Begin(c, h, h, table[h], None, "save")
    /\ \E v \in Settings : Change(table[h], [Found(h) EXCEPT !.conf = v])
    /\ UNCHANGED <<table, files, unsaved>>

\* ReverseProxyHandleSetTlsConfig changes the object where it is, and prepares and
\* lists it again; the handlers of access rules only list it again, and those of
\* headers and weights do neither.
EditInPlace(c, h) ==
    /\ table[h] # None
    /\ \E to \in {"prepare", "add", "save"} : Begin(c, h, h, table[h], None, to)
    /\ \E v \in Settings : Change(table[h], [Found(h) EXCEPT !.conf = v])
    /\ UNCHANGED <<table, files, unsaved>>

-----------------------------------------------------------------------------
(* Upstreams *)

\* ReverseProxyUpstreamAdd, AddUpstreamOrigin: refused if it is there, or cannot
\* be started.
UpstreamAdd(c, h) ==
    /\ table[h] # None
    /\ Begin(c, h, h, table[h], None, "add")
    /\ \E u \in Upstreams \ (Found(h).ups \cup Unparsable) :
          Change(table[h], [Found(h) EXCEPT !.ups = @ \cup {u}])
    /\ UNCHANGED <<table, files, unsaved>>

\* mutant: the removal of an upstream is not saved.
UpstreamDelete_NotSaved(c, h) ==
    /\ table[h] # None /\ req[c].pc = "idle" /\ (Exclusive => ~Busy(h))
    /\ \E u \in Found(h).ups : Change(table[h], [Found(h) EXCEPT !.ups = @ \ {u}])
    /\ UNCHANGED <<table, files, req, unsaved>>

\* ReverseProxyUpstreamDelete, RemoveUpstreamOrigin
UpstreamDelete(c, h) ==
    /\ table[h] # None
    /\ Begin(c, h, h, table[h], None, "add")
    /\ \E u \in Found(h).ups : Change(table[h], [Found(h) EXCEPT !.ups = @ \ {u}])
    /\ UNCHANGED <<table, files, unsaved>>

\* ReverseProxyUpstreamUpdate removes an upstream and adds its new version v,
\* which may have the address of another, or one that cannot be parsed.
UpstreamUpdate(c, h) ==
    /\ table[h] # None
    /\ \E u \in Found(h).ups, v \in Upstreams :
          /\ Begin(c, h, h, table[h], v, "readd")
          /\ Change(table[h], [Found(h) EXCEPT !.ups = @ \ {u}])
    /\ UNCHANGED <<table, files, unsaved>>

\* UpdateToRuntime of the removal.
Readd(c) ==
    /\ At(c, "readd") /\ Goto(c, "attach")
    /\ table' = [table EXCEPT ![heap[req[c].ept].name] = req[c].ept]
    /\ Collect /\ UNCHANGED <<files, unsaved>>

\* mutant: a new upstream ends up in the list of virtual directories.
Attach_WrongList(c) ==
    LET o == req[c].ept d == heap[o].data IN
    /\ At(c, "attach") /\ req[c].arg \notin d.ups \cup Unparsable
    /\ Change(o, [d EXCEPT !.vdirs = @ \cup {req[c].arg}])
    /\ req' = [req EXCEPT ![c].pc = "add", ![c].arg = None]
    /\ UNCHANGED <<table, files, unsaved>>

\* AddUpstreamOrigin
Attach(c) ==
    LET o == req[c].ept d == heap[o].data IN
    /\ At(c, "attach") /\ req[c].arg \notin d.ups \cup Unparsable
    /\ Change(o, [d EXCEPT !.ups = @ \cup {req[c].arg}])
    /\ req' = [req EXCEPT ![c].pc = "add", ![c].arg = None]
    /\ UNCHANGED <<table, files, unsaved>>

\* ... which refuses what is there, or cannot be started: the handler ends, with
\* the old version removed and the file as it was.
AttachRefused(c) ==
    /\ At(c, "attach") /\ req[c].arg \in heap[req[c].ept].data.ups \cup Unparsable
    /\ GiveUp(c)
    /\ UNCHANGED <<table, files>> /\ Collect

-----------------------------------------------------------------------------
(* Virtual directories, each with its path and target: of the object in the *)
(* table, where it is                                                       *)

\* ReverseProxyAddVdir
VdirAdd(c, h) ==
    /\ table[h] # None
    /\ \E d \in Vdirs : Begin(c, h, h, table[h], d, "append")
    /\ UNCHANGED <<table, heap, files, unsaved>>

\* RemoveVirtualDirectoryRuleByMatchingPath
Detached(e, d) == [e EXCEPT !.data.vdirs = @ \ {d}, !.prepared = @ \ {d}, !.refused = @ \ {d}]
Detach(o, d) == heap' = [heap EXCEPT ![o] = Detached(heap[o], d)]

\* ReverseProxyEditVdir puts a new version in the stead of a directory; it has no
\* proxy yet.
VdirEdit(c, h) ==
    /\ table[h] # None
    /\ \E d \in Found(h).vdirs : \E n \in Vdirs \ (Found(h).vdirs \ {d}) :
          Begin(c, h, h, table[h], n, "append") /\ Detach(table[h], d)
    /\ UNCHANGED <<table, files, unsaved>>

\* ReverseProxyDeleteVdir
VdirDelete(c, h) ==
    /\ table[h] # None
    /\ \E d \in Found(h).vdirs : Begin(c, h, h, table[h], None, "save") /\ Detach(table[h], d)
    /\ UNCHANGED <<table, files, unsaved>>

\* AddVirtualDirectoryRule appends a directory that is not there, ...
Append(c) ==
    LET o == req[c].ept IN
    /\ At(c, "append") /\ req[c].arg \notin heap[o].data.vdirs
    /\ heap' = [heap EXCEPT ![o].data.vdirs = @ \cup {req[c].arg}]
    /\ Goto(c, "prepare")
    /\ UNCHANGED <<table, files, unsaved>>

\* ... and refuses one that is: nothing has been changed (an edit has removed the old
\* version, and finds it there only if another request has added it since), ...
AppendRefused(c) ==
    /\ At(c, "append") /\ req[c].arg \in heap[req[c].ept].data.vdirs
    /\ Return(c)
    /\ UNCHANGED <<table, files, unsaved>> /\ Collect

\* ... then prepares the object: all its directories have a proxy, ...
Prepare(c) ==
    LET o == req[c].ept IN
    /\ At(c, "prepare") /\ Prepares(heap[o].data)
    /\ heap' = [heap EXCEPT ![o] = Prepared(heap[o].name, heap[o].data)]
    /\ req' = [req EXCEPT ![c].pc = IF req[c].arg # None THEN "remove" ELSE "add", ![c].arg = None]
    /\ UNCHANGED <<table, files, unsaved>>

\* ... or an error ends the handler at the first that cannot be parsed: the new
\* directory, at the end of the list, stays there without one.
PrepareFails(c) ==
    LET o == req[c].ept d == heap[o].data IN
    /\ At(c, "prepare") /\ ~Prepares(d)
    /\ GiveUp(c)
    /\ UNCHANGED <<table, files>>
    /\ \E done \in SUBSET (d.vdirs \ Unparsable) :
          CollectFrom([heap EXCEPT ![o].prepared = @ \cup done,
                                   ![o].refused = @ \cup ({req[c].arg} \ {None})])

-----------------------------------------------------------------------------
(* The last steps of a handler, and a restart *)

\* Remove of the object that is replaced.
Remove(c) ==
    /\ At(c, "remove") /\ Goto(c, "add")
    /\ table' = [table EXCEPT ![req[c].host] = None]
    /\ Collect /\ UNCHANGED <<files, unsaved>>

\* AddProxyRouteToRuntime, UpdateToRuntime
AddToRuntime(c) ==
    /\ At(c, "add") /\ Lists(heap[req[c].ept].data)
    /\ Goto(c, "save")
    /\ table' = [table EXCEPT ![heap[req[c].ept].name] = req[c].ept]
    /\ Collect /\ UNCHANGED <<files, unsaved>>

\* AddProxyRouteToRuntime refuses an endpoint with no upstream ready; the handlers
\* ignore that, and save it.
AddRefused(c) ==
    LET o == req[c].ept IN
    /\ At(c, "add") /\ ~Lists(heap[o].data)
    /\ Goto(c, "save") /\ unsaved' = unsaved \cup {heap[o].name}
    /\ UNCHANGED <<table, heap, files>>

\* SaveReverseProxyConfig marshals the object and truncates its file.
SaveOpen(c) ==
    LET o == req[c].ept IN
    /\ At(c, "save")
    /\ req' = [req EXCEPT ![c].pc = "write", ![c].text = heap[o].data]
    /\ files' = [files EXCEPT ![heap[o].name] = Torn]
    /\ UNCHANGED <<table, heap, unsaved>>

SaveWrite(c) ==
    LET o == req[c].ept h == heap[o].name IN
    /\ At(c, "write") /\ Return(c)
    /\ files' = [files EXCEPT ![h] = req[c].text]
    /\ unsaved' = IF table[h] = o /\ Loads(req[c].text) THEN unsaved \ {h} ELSE unsaved
    /\ UNCHANGED table /\ Collect

\* The file cannot be opened, and stays as it was, or cannot be written.  Every
\* handler ends here, with an error or, ignoring it, without.
SaveFails(c) ==
    /\ SavesFail /\ (At(c, "save") \/ At(c, "write"))
    /\ GiveUp(c)
    /\ UNCHANGED <<table, files>> /\ Collect

\* The program ends, or is killed, and ReverseProxyInit loads every file that
\* can be parsed, prepared and listed.
Restart ==
    /\ LET loaded == {h \in Hosts : files[h] \in Data /\ Loads(files[h])} IN
       \E f \in [loaded -> Objects] :
          /\ \A g \in loaded, h \in loaded : f[g] = f[h] => g = h
          /\ table' = [h \in Hosts |-> IF h \in loaded THEN f[h] ELSE None]
          /\ heap' = [o \in Objects |->
                IF \E h \in loaded : f[h] = o
                THEN LET h == CHOOSE h \in loaded : f[h] = o IN Prepared(h, files[h])
                ELSE None]
    /\ req' = [c \in Callers |-> NoRequest] /\ unsaved' = {}
    /\ UNCHANGED files

-----------------------------------------------------------------------------
Arrive(c) ==
    \E h \in Hosts :
        \/ AddEndpoint(c, h) \/ EditEndpoint(c, h) \/ DeleteEndpoint(c, h) \/ Toggle(c, h)
        \/ EditInPlace(c, h) \/ \E m \in Hosts : SetHostname(c, h, m)
        \/ UpstreamAdd(c, h) \/ UpstreamDelete(c, h) \/ UpstreamUpdate(c, h)
        \/ VdirAdd(c, h) \/ VdirEdit(c, h) \/ VdirDelete(c, h)

Step(c) ==
    \/ Unlist(c) \/ Unfile(c) \/ UnfileFails(c) \/ Readd(c) \/ Attach(c) \/ AttachRefused(c)
    \/ Append(c) \/ AppendRefused(c) \/ Prepare(c) \/ PrepareFails(c) \/ Remove(c)
    \/ AddToRuntime(c) \/ AddRefused(c) \/ SaveOpen(c) \/ SaveWrite(c) \/ SaveFails(c)

Next == Restart \/ \E c \in Callers : Arrive(c) \/ Step(c)

Spec == Init /\ [][Next]_vars

-----------------------------------------------------------------------------
(* Properties *)

\* What is listed under a name is an object of that name, so that its saves go
\* to its file and its removal removes it.
NamesMatch == \A h \in Hosts : table[h] # None => heap[table[h]].name = h

\* What runs under a name, and what a restart would bring back.
Running(h) == IF table[h] = None THEN None ELSE Found(h)
OnDisk(h) == IF files[h] \in Data /\ Loads(files[h]) THEN files[h] ELSE None

\* What runs is what a restart would bring back: while no request is about a host,
\* its object and its file say the same, however requests overlapped, ended
\* half-way or were cut off.  The exception are hosts that an error has struck - a
\* save or removal that failed, a directory or upstream that was refused after the
\* object had been changed, an endpoint refused by the table and saved all the same -
\* and they only until they are next saved as they run.
Durable == \A h \in Hosts : ~Busy(h) => h \in unsaved \/ Running(h) = OnDisk(h)

\* A host is never saved under both of its names: a restart in the middle of a
\* renaming finds it under one of them, or not at all.  (An error may have left
\* another host's file under the new one.)
RenamedOnce == \A c \in Callers : req[c].pc # "idle" /\ req[c].dest # req[c].host =>
    OnDisk(req[c].host) = None \/ OnDisk(req[c].dest) = None \/ req[c].dest \in unsaved

\* While no request is about a host, each of its virtual directories has the
\* proxy a request is routed to, but for those that were refused: a copy of an
\* object has none until it is prepared ("use prepare -> remove -> add if you change
\* anything in the endpoint"), and a changed directory is prepared where it is.
VdirsServed == \A h \in Hosts : table[h] # None /\ ~Busy(h) =>
    Found(h).vdirs \subseteq heap[table[h]].prepared \cup heap[table[h]].refused

\* "Call to PrepareProxyRoute before adding to runtime" (router.go:76): no directory
\* of a listed host is without its proxy.  The code does not keep this:
\* AddVirtualDirectoryRule appends to the listed object, and prepares it after that.
ListedArePrepared == \A h \in Hosts :
    table[h] # None /\ ~Busy(h) => Found(h).vdirs \subseteq heap[table[h]].prepared

\* "Replace the old upstream with the new one" (upstreams.go:181), and what runs is
\* what is saved.  The code does not keep this: a new one that is refused leaves the
\* host without the old one, which is still in its file.
RunsAsSaved == \A h \in Hosts : ~Busy(h) => Running(h) = OnDisk(h)

\* "Load Reverse Proxy Config from file and append it to current runtime proxy
\* router" (config.go:43): a host that has a whole file is listed.  The code does not
\* keep this: it ignores the error of AddProxyRouteToRuntime, here and where the file
\* comes from.
SavedAreListed == \A h \in Hosts : ~Busy(h) /\ files[h] \in Data => table[h] # None

\* While requests in progress are about different hosts, they come to what
\* HostStore says: each is a transaction on its own hosts, and a restart at any
\* step costs no other host anything.
HostsOf(c) == {req[c].host, req[c].dest} \ {None}
Store == INSTANCE HostStore WITH
    config <- [h \in Hosts |-> Running(h)], saved <- [h \in Hosts |-> OnDisk(h)],
    about <- [c \in Callers |-> HostsOf(c)]
StoreSpec == Store!StoreSpec

==============================================================================
