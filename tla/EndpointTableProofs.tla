------------------------- MODULE EndpointTableProofs -------------------------
(***************************************************************************)
(* Proofs about EndpointTable.  Names, types and virtual directories need  *)
(* no assumption on the requests.  That files and objects agree needs      *)
(* Exclusive: the handlers hold no lock, and a request is safe only while  *)
(* no other one is about its hosts.  The argument is then local: a handler *)
(* touches nothing but the table entries, the files and the objects of its *)
(* own hosts; so it is a transaction on them (HostStore), and one that     *)
(* ends with an error says so in unsaved.                                  *)
(***************************************************************************)
EXTENDS EndpointTable, TLAPS

\* What is listed is an object of that name.
Listed == \A h \in Hosts : table[h] # None =>
    heap[table[h]] \in Endpoint /\ heap[table[h]].name = h

\* What a request is like while its handler is at each of its steps.
Fits(r) ==
    /\ r.pc = "idle" => r = NoRequest
    /\ r.pc # "idle" => r.host \in Hosts /\ r.dest \in Hosts
    /\ r.pc \notin {"idle", "unlist", "unfile"} => r.ept # None
    /\ r.dest # r.host => r.ept # None /\ r.pc \in {"unlist", "unfile", "add", "save", "write"}
    /\ r.pc \in {"readd", "attach"} => r.arg \in Upstreams
    /\ r.pc = "append" => r.arg \in Vdirs
    /\ r.pc = "prepare" => r.arg \in Vdirs \cup {None}
    /\ r.pc = "write" => r.text \in Data

\* The object a handler works with is one of the host its request makes.
HeldBy(c) ==
    /\ Fits(req[c])
    /\ req[c].ept # None => heap[req[c].ept] \in Endpoint /\ heap[req[c].ept].name = req[c].dest
Held == \A c \in Callers : HeldBy(c)

Inv == TypeOK /\ Listed /\ Held

\* The virtual directories of an object that have no proxy, and were not refused.
Lacks(e) == e.data.vdirs \ (e.prepared \cup e.refused)

-----------------------------------------------------------------------------
(* The three forms of an arrival: about a new object, about the listed one, *)
(* and about none.                                                          *)
Fresh(c, h, m, o, to) ==
    /\ Begin(c, h, m, o, None, to)
    /\ o \in Objects /\ heap[o] = None
    /\ \E e \in Endpoint : /\ e.name = m /\ Prepares(e.data) /\ Lacks(e) = {}
                           /\ heap' = [heap EXCEPT ![o] = e]
    /\ \/ m = h /\ to \in {"add", "remove"}
       \/ m # h /\ to = "unlist" /\ table[m] = None

\* What a change in place makes of the object listed under h: it gets no target
\* that cannot be parsed, and no directory; and it has no fewer upstreams if the
\* handler only saves it.
Alters(h, e, to) ==
    /\ e.name = h
    /\ Prepares(Found(h)) => Prepares(e.data)
    /\ to = "save" /\ Lists(Found(h)) => Lists(e.data)
    /\ Lacks(e) \subseteq Lacks(heap[table[h]])

InPlace(c, h, a, to) ==
    /\ Begin(c, h, h, table[h], a, to)
    /\ table[h] # None
    /\ \E e \in Endpoint : Alters(h, e, to) /\ heap' = [heap EXCEPT ![table[h]] = e]
    /\ to \in {"save", "add", "readd", "append", "prepare"}
    /\ a \in Upstreams \cup Vdirs \cup {None}
    /\ to = "readd" => a \in Upstreams
    /\ to = "append" => a \in Vdirs /\ (heap' = heap \/ a \notin heap'[table[h]].data.vdirs)
    /\ to = "prepare" => a = None

NoObject(c, h) == Begin(c, h, h, None, None, "unlist") /\ heap' = heap

Arrived(c) ==
    /\ UNCHANGED <<table, files, unsaved>>
    /\ \/ \E h \in Hosts, m \in Hosts, o \in Objects, to \in PC : Fresh(c, h, m, o, to)
       \/ \E h \in Hosts, a \in Upstreams \cup Vdirs \cup {None}, to \in PC : InPlace(c, h, a, to)
       \/ \E h \in Hosts : NoObject(c, h)

LEMMA PreparedObject ==
    ASSUME NEW h \in Hosts, NEW d \in Data
    PROVE  /\ Prepared(h, d) \in Endpoint /\ Prepared(h, d).name = h
           /\ Prepared(h, d).data = d /\ Lacks(Prepared(h, d)) = {}
BY DEF Prepared, Endpoint, Data, Lacks

LEMMA FoundIsData ==
    ASSUME TypeOK, Listed, NEW h \in Hosts, table[h] # None
    PROVE  Found(h) \in Data
BY DEF Found, Listed, Endpoint

\* A new object.
LEMMA MadeFresh ==
    ASSUME NEW c, NEW h \in Hosts, NEW m \in Hosts, NEW o \in Objects, NEW d \in Data, NEW to,
           Make(o, m, d), Begin(c, h, m, o, None, to),
           (m = h /\ to \in {"add", "remove"}) \/ (m # h /\ to = "unlist" /\ table[m] = None)
    PROVE  Fresh(c, h, m, o, to)
BY PreparedObject DEF Fresh, Make

\* A listed object, changed in what is saved of it, but for its directories.
LEMMA ChangedInPlace ==
    ASSUME TypeOK, Listed, NEW h \in Hosts, table[h] # None,
           NEW d \in Data, d.vdirs = Found(h).vdirs, Change(table[h], d),
           NEW to, to = "save" => d.ups = Found(h).ups
    PROVE  \E e \in Endpoint : Alters(h, e, to) /\ heap' = [heap EXCEPT ![table[h]] = e]
<1> DEFINE e == [heap[table[h]] EXCEPT !.data = d]
<1>1. heap[table[h]] \in Endpoint /\ heap[table[h]].name = h
  BY DEF Listed
<1>2. e \in Endpoint /\ e.name = h /\ e.data = d /\ Lacks(e) = Lacks(heap[table[h]])
  BY <1>1 DEF Endpoint, Lacks, Found
<1>3. Alters(h, e, to)
  BY <1>2 DEF Alters, Prepares, Lists
<1>4. heap' = [heap EXCEPT ![table[h]] = e]
  BY DEF Change
<1> QED
  BY <1>2, <1>3, <1>4

LEMMA DetachedInPlace ==
    ASSUME TypeOK, Listed, NEW h \in Hosts, table[h] # None, NEW d, NEW to, Detach(table[h], d)
    PROVE  \E e \in Endpoint : Alters(h, e, to) /\ heap' = [heap EXCEPT ![table[h]] = e]
<1> DEFINE e == Detached(heap[table[h]], d)
<1>1. heap[table[h]] \in Endpoint /\ heap[table[h]].name = h
  BY DEF Listed
<1>2. /\ e \in Endpoint /\ e.name = h /\ Lacks(e) \subseteq Lacks(heap[table[h]])
      /\ e.data.ups = Found(h).ups /\ e.data.vdirs = Found(h).vdirs \ {d}
  BY <1>1 DEF Endpoint, Data, Detached, Lacks, Found
<1>3. Alters(h, e, to)
  BY <1>2 DEF Alters, Prepares, Lists
<1> QED
  BY <1>2, <1>3 DEF Detach

LEMMA ArriveForms ==
    ASSUME Inv, NEW c \in Callers, Arrive(c)
    PROVE  Arrived(c)
<1> USE DEF Inv
<1>1. PICK h \in Hosts :
        \/ AddEndpoint(c, h) \/ EditEndpoint(c, h) \/ DeleteEndpoint(c, h) \/ Toggle(c, h)
        \/ EditInPlace(c, h) \/ \E m \in Hosts : SetHostname(c, h, m)
        \/ UpstreamAdd(c, h) \/ UpstreamDelete(c, h) \/ UpstreamUpdate(c, h)
        \/ VdirAdd(c, h) \/ VdirEdit(c, h) \/ VdirDelete(c, h)
  BY DEF Arrive
<1>2. CASE AddEndpoint(c, h)
  <2>1. PICK o \in Objects, v \in Settings, u \in Upstreams :
          /\ Make(o, h, [conf |-> v, ups |-> {u}, vdirs |-> {}])
          /\ Begin(c, h, h, o, None, "add")
    BY <1>2 DEF AddEndpoint
  <2>2. [conf |-> v, ups |-> {u}, vdirs |-> {}] \in Data
    BY DEF Data
  <2>3. Fresh(c, h, h, o, "add")
    BY <2>1, <2>2, MadeFresh
  <2> QED
    BY <1>2, <2>3 DEF AddEndpoint, Arrived, PC
<1>3. CASE EditEndpoint(c, h)
  <2>1. PICK o \in Objects, v \in Settings :
          Make(o, h, [Found(h) EXCEPT !.conf = v]) /\ Begin(c, h, h, o, None, "remove")
    BY <1>3 DEF EditEndpoint
  <2>2. [Found(h) EXCEPT !.conf = v] \in Data
    BY <1>3, FoundIsData DEF Data, EditEndpoint
  <2>3. Fresh(c, h, h, o, "remove")
    BY <2>1, <2>2, MadeFresh
  <2> QED
    BY <1>3, <2>3 DEF EditEndpoint, Arrived, PC
<1>4. CASE DeleteEndpoint(c, h)
  BY <1>4 DEF DeleteEndpoint, Arrived, NoObject
<1>5. CASE Toggle(c, h)
  <2>1. PICK v \in Settings : Change(table[h], [Found(h) EXCEPT !.conf = v])
    BY <1>5 DEF Toggle
  <2>2. table[h] # None /\ Found(h) \in Data
    BY <1>5, FoundIsData DEF Toggle
  <2>3. PICK d \in Data : d.vdirs = Found(h).vdirs /\ d.ups = Found(h).ups /\ Change(table[h], d)
    BY <2>1, <2>2 DEF Data
  <2>4. InPlace(c, h, None, "save")
    BY <1>5, <2>2, <2>3, ChangedInPlace DEF InPlace, Toggle
  <2> QED
    BY <1>5, <2>4 DEF Toggle, Arrived, PC
<1>6. CASE \E m \in Hosts : SetHostname(c, h, m)
  <2>1. PICK m \in Hosts : SetHostname(c, h, m)
    BY <1>6
  <2>2. PICK o \in Objects : Make(o, m, Found(h)) /\ Begin(c, h, m, o, None, "unlist")
    BY <2>1 DEF SetHostname
  <2>3. Found(h) \in Data /\ m # h /\ table[m] = None
    BY <2>1, FoundIsData DEF SetHostname
  <2>4. Fresh(c, h, m, o, "unlist")
    BY <2>2, <2>3, MadeFresh
  <2> QED
    BY <2>1, <2>4 DEF SetHostname, Arrived, PC
<1>7. CASE UpstreamAdd(c, h)
  <2>1. PICK u \in Upstreams : Change(table[h], [Found(h) EXCEPT !.ups = @ \cup {u}])
    BY <1>7 DEF UpstreamAdd
  <2>2. table[h] # None /\ Found(h) \in Data
    BY <1>7, FoundIsData DEF UpstreamAdd
  <2>3. PICK d \in Data : d.vdirs = Found(h).vdirs /\ Change(table[h], d)
    BY <2>1, <2>2 DEF Data
  <2>4. InPlace(c, h, None, "add")
    BY <1>7, <2>2, <2>3, ChangedInPlace DEF InPlace, UpstreamAdd
  <2> QED
    BY <1>7, <2>4 DEF UpstreamAdd, Arrived, PC
<1>8. CASE UpstreamDelete(c, h)
  <2>1. PICK u \in Found(h).ups : Change(table[h], [Found(h) EXCEPT !.ups = @ \ {u}])
    BY <1>8 DEF UpstreamDelete
  <2>2. table[h] # None /\ Found(h) \in Data
    BY <1>8, FoundIsData DEF UpstreamDelete
  <2>3. PICK d \in Data : d.vdirs = Found(h).vdirs /\ Change(table[h], d)
    BY <2>1, <2>2 DEF Data
  <2>4. InPlace(c, h, None, "add")
    BY <1>8, <2>2, <2>3, ChangedInPlace DEF InPlace, UpstreamDelete
  <2> QED
    BY <1>8, <2>4 DEF UpstreamDelete, Arrived, PC
<1>9. CASE UpstreamUpdate(c, h)
  <2>1. PICK u \in Found(h).ups, v \in Upstreams :
          /\ Begin(c, h, h, table[h], v, "readd")
          /\ Change(table[h], [Found(h) EXCEPT !.ups = @ \ {u}])
    BY <1>9 DEF UpstreamUpdate
  <2>2. table[h] # None /\ Found(h) \in Data
    BY <1>9, FoundIsData DEF UpstreamUpdate
  <2>3. PICK d \in Data : d.vdirs = Found(h).vdirs /\ Change(table[h], d)
    BY <2>1, <2>2 DEF Data
  <2>4. InPlace(c, h, v, "readd")
    BY <2>1, <2>2, <2>3, ChangedInPlace DEF InPlace
  <2> QED
    BY <1>9, <2>4 DEF UpstreamUpdate, Arrived, PC
<1>10. CASE VdirAdd(c, h)
  <2>1. PICK d \in Vdirs : Begin(c, h, h, table[h], d, "append")
    BY <1>10 DEF VdirAdd
  <2>2. heap' = heap /\ heap' = [heap EXCEPT ![table[h]] = heap[table[h]]] /\ table[h] # None
    BY <1>10 DEF VdirAdd, TypeOK
  <2>3. heap[table[h]] \in Endpoint /\ Alters(h, heap[table[h]], "append")
    BY <2>2 DEF Listed, Alters, Found
  <2>4. InPlace(c, h, d, "append")
    BY <2>1, <2>2, <2>3 DEF InPlace
  <2> QED
    BY <1>10, <2>4 DEF VdirAdd, Arrived, PC
<1>11. CASE VdirEdit(c, h)
  <2>1. PICK d \in Found(h).vdirs, n \in Vdirs :
          /\ n \notin Found(h).vdirs \ {d}
          /\ Begin(c, h, h, table[h], n, "append") /\ Detach(table[h], d)
    BY <1>11 DEF VdirEdit
  <2>2. table[h] # None /\ table[h] \in Objects /\ heap[table[h]] \in Endpoint
    BY <1>11 DEF VdirEdit, TypeOK, Listed
  <2>3. heap'[table[h]].data.vdirs = Found(h).vdirs \ {d}
    BY <2>1, <2>2 DEF Detach, Detached, Found, TypeOK, Endpoint, Data
  <2>4. InPlace(c, h, n, "append")
    BY <2>1, <2>2, <2>3, DetachedInPlace DEF InPlace
  <2> QED
    BY <1>11, <2>4 DEF VdirEdit, Arrived, PC
<1>12. CASE VdirDelete(c, h)
  <2>1. PICK d : Begin(c, h, h, table[h], None, "save") /\ Detach(table[h], d)
    BY <1>12 DEF VdirDelete
  <2>2. InPlace(c, h, None, "save")
    BY <1>12, <2>1, DetachedInPlace DEF InPlace, VdirDelete
  <2> QED
    BY <1>12, <2>2 DEF VdirDelete, Arrived, PC
<1>13. CASE EditInPlace(c, h)
  <2>1. PICK v \in Settings : Change(table[h], [Found(h) EXCEPT !.conf = v])
    BY <1>13 DEF EditInPlace
  <2>2. PICK to \in {"prepare", "add", "save"} : Begin(c, h, h, table[h], None, to)
    BY <1>13 DEF EditInPlace
  <2>3. table[h] # None /\ Found(h) \in Data
    BY <1>13, FoundIsData DEF EditInPlace
  <2>4. PICK d \in Data : d.vdirs = Found(h).vdirs /\ d.ups = Found(h).ups /\ Change(table[h], d)
    BY <2>1, <2>3 DEF Data
  <2>5. InPlace(c, h, None, to)
    BY <2>2, <2>3, <2>4, ChangedInPlace DEF InPlace
  <2> QED
    BY <1>13, <2>2, <2>5 DEF EditInPlace, Arrived, PC
<1> QED
  BY <1>1, <1>2, <1>3, <1>4, <1>5, <1>6, <1>7, <1>8, <1>9, <1>10, <1>11, <1>12, <1>13

-----------------------------------------------------------------------------
(* Inv is an invariant *)

\* An object that is in use survives Collect.
LEMMA KeptFrom ==
    ASSUME NEW g, CollectFrom(g), NEW o \in Objects,
           (\E h \in Hosts : table'[h] = o) \/ (\E c \in Callers : req'[c].ept = o)
    PROVE  heap'[o] = g[o]
BY DEF CollectFrom

LEMMA Kept ==
    ASSUME Collect, NEW o \in Objects,
           (\E h \in Hosts : table'[h] = o) \/ (\E c \in Callers : req'[c].ept = o)
    PROVE  heap'[o] = heap[o]
BY KeptFrom DEF Collect

\* A directory that cannot be parsed changes the object only in what it is known
\* to lack.
LEMMA PrepareFailsForm ==
    ASSUME Inv, NEW c \in Callers, PrepareFails(c)
    PROVE  /\ req[c].pc = "prepare" /\ req[c].ept \in Objects
           /\ \E e \in Endpoint :
                 /\ e.name = heap[req[c].ept].name /\ e.data = heap[req[c].ept].data
                 /\ Lacks(e) \subseteq Lacks(heap[req[c].ept]) \ {req[c].arg}
                 /\ CollectFrom([heap EXCEPT ![req[c].ept] = e])
<1> DEFINE o == req[c].ept
           x == {req[c].arg} \ {None}
<1>1. /\ req[c].pc = "prepare" /\ o \in Objects /\ heap[o] \in Endpoint
      /\ req[c].arg \in Vdirs \cup {None}
  BY DEF PrepareFails, At, Inv, TypeOK, Held, HeldBy, Fits, Request
<1>2. PICK done \in SUBSET (heap[o].data.vdirs \ Unparsable) :
        CollectFrom([heap EXCEPT ![o].prepared = @ \cup done, ![o].refused = @ \cup x])
  BY DEF PrepareFails
<1> DEFINE e == [heap[o] EXCEPT !.prepared = @ \cup done, !.refused = @ \cup x]
<1>3. [heap EXCEPT ![o].prepared = @ \cup done, ![o].refused = @ \cup x] = [heap EXCEPT ![o] = e]
  BY <1>1 DEF Inv, TypeOK, Endpoint
<1>4. /\ e.name = heap[o].name /\ e.data = heap[o].data
      /\ e.prepared = heap[o].prepared \cup done /\ e.refused = heap[o].refused \cup x
  BY <1>1 DEF Endpoint
<1>5. e \in Endpoint
  BY <1>1 DEF Endpoint, Data
<1>6. Lacks(e) \subseteq Lacks(heap[o]) \ {req[c].arg}
  BY <1>1, <1>4, EndpointAssumption DEF Lacks, Endpoint, Data
<1> QED
  BY <1>1, <1>2, <1>3, <1>4, <1>5, <1>6

LEMMA NoRequestFits == NoRequest \in Request /\ Fits(NoRequest)
BY DEF NoRequest, Request, PC, Fits

LEMMA InitInv == Init => Inv
BY DEF Init, Inv, TypeOK, Listed, Held, HeldBy, Fits, NoRequest, Request, PC

LEMMA ArriveInv ==
    ASSUME Inv, NEW c \in Callers, Arrived(c)
    PROVE  Inv'
<1> USE DEF Inv
<1>1. CASE \E h \in Hosts, m \in Hosts, o \in Objects, to \in PC : Fresh(c, h, m, o, to)
  <2>1. PICK h \in Hosts, m \in Hosts, o \in Objects, to \in PC : Fresh(c, h, m, o, to)
    BY <1>1
  <2>2. PICK e \in Endpoint : e.name = m /\ heap' = [heap EXCEPT ![o] = e]
    BY <2>1 DEF Fresh
  <2>3. req' = [req EXCEPT ![c] = [pc |-> to, host |-> h, dest |-> m, ept |-> o,
                                   arg |-> None, text |-> None]]
    BY <2>1 DEF Fresh, Begin
  <2>4. TypeOK'
    BY <2>2, <2>3 DEF Arrived, TypeOK, Request
  <2>5. heap[o] = None
    BY <2>1 DEF Fresh
  <2>6. Listed'
    BY <2>2, <2>5, HeapAssumption DEF Arrived, Listed, TypeOK
  <2>7. ASSUME NEW d \in Callers, d # c PROVE HeldBy(d)'
    <3>1. req'[d] = req[d]
      BY <2>3, <2>7 DEF TypeOK
    <3>2. req[d].ept # None => req[d].ept # o /\ heap'[req[d].ept] = heap[req[d].ept]
      BY <2>2, <2>5, HeapAssumption DEF Held, HeldBy, Fits, TypeOK
    <3> QED
      BY <3>1, <3>2 DEF Held, HeldBy, Fits
  <2>8. HeldBy(c)'
    <3>1. req'[c] = [pc |-> to, host |-> h, dest |-> m, ept |-> o, arg |-> None, text |-> None]
      BY <2>3 DEF TypeOK
    <3>2. heap'[o] = e
      BY <2>2 DEF TypeOK
    <3>3. (m = h /\ to \in {"add", "remove"}) \/ (m # h /\ to = "unlist")
      BY <2>1 DEF Fresh
    <3>4. o # None
      BY EndpointAssumption
    <3> QED
      BY <2>2, <3>1, <3>2, <3>3, <3>4 DEF HeldBy, Fits
  <2> QED
    BY <2>4, <2>6, <2>7, <2>8 DEF Held
<1>2. CASE \E h \in Hosts, a \in Upstreams \cup Vdirs \cup {None}, to \in PC : InPlace(c, h, a, to)
  <2>1. PICK h \in Hosts, a \in Upstreams \cup Vdirs \cup {None}, to \in PC : InPlace(c, h, a, to)
    BY <1>2
  <2>2. PICK e \in Endpoint : e.name = h /\ heap' = [heap EXCEPT ![table[h]] = e]
    BY <2>1 DEF InPlace, Alters
  <2>3. req' = [req EXCEPT ![c] = [pc |-> to, host |-> h, dest |-> h, ept |-> table[h],
                                   arg |-> a, text |-> None]]
    BY <2>1 DEF InPlace, Begin
  <2>4. table[h] # None /\ table[h] \in Objects /\ heap[table[h]].name = h
    BY <2>1 DEF InPlace, TypeOK, Listed
  <2>5. TypeOK'
    BY <2>2, <2>3, <2>4 DEF Arrived, TypeOK, Request
  <2>6. Listed'
    BY <2>2, <2>4 DEF Arrived, Listed, TypeOK
  <2>7. ASSUME NEW d \in Callers, d # c PROVE HeldBy(d)'
    <3>1. req'[d] = req[d]
      BY <2>3, <2>7 DEF TypeOK
    <3>2. req[d].ept # None =>
            heap'[req[d].ept] \in Endpoint /\ heap'[req[d].ept].name = heap[req[d].ept].name
      BY <2>2, <2>4 DEF Held, HeldBy, Fits, TypeOK
    <3> QED
      BY <3>1, <3>2 DEF Held, HeldBy, Fits
  <2>8. HeldBy(c)'
    <3>1. req'[c] = [pc |-> to, host |-> h, dest |-> h, ept |-> table[h], arg |-> a, text |-> None]
      BY <2>3 DEF TypeOK
    <3>2. heap'[table[h]] = e
      BY <2>2, <2>4 DEF TypeOK
    <3>3. /\ to \in {"save", "add", "readd", "append", "prepare"}
          /\ to = "readd" => a \in Upstreams
          /\ to = "append" => a \in Vdirs
          /\ to = "prepare" => a = None
      BY <2>1 DEF InPlace
    <3> QED
      BY <2>2, <2>4, <3>1, <3>2, <3>3 DEF HeldBy, Fits
  <2> QED
    BY <2>5, <2>6, <2>7, <2>8 DEF Held
<1>3. CASE \E h \in Hosts : NoObject(c, h)
  <2>1. PICK h \in Hosts : NoObject(c, h)
    BY <1>3
  <2>2. req' = [req EXCEPT ![c] = [pc |-> "unlist", host |-> h, dest |-> h, ept |-> None,
                                   arg |-> None, text |-> None]] /\ heap' = heap
    BY <2>1 DEF NoObject, Begin
  <2>3. TypeOK'
    BY <2>2 DEF Arrived, TypeOK, Request, PC
  <2>4. Listed'
    BY <2>2 DEF Arrived, Listed
  <2>5. ASSUME NEW d \in Callers PROVE HeldBy(d)'
    BY <2>2 DEF Held, HeldBy, Fits, TypeOK
  <2> QED
    BY <2>3, <2>4, <2>5 DEF Held
<1> QED
  BY <1>1, <1>2, <1>3 DEF Arrived

\* The steps that lose or store an object, after they have changed it to g.
LEMMA CollectFromStep ==
    ASSUME Inv, NEW c \in Callers, NEW r \in Request, req' = [req EXCEPT ![c] = r],
           Fits(r), r = NoRequest \/ (r.ept = req[c].ept /\ r.dest = req[c].dest),
           NEW g \in [Objects -> Endpoint \cup {None}], CollectFrom(g),
           \A o \in Objects : heap[o] \in Endpoint => g[o] \in Endpoint /\ g[o].name = heap[o].name,
           table' \in [Hosts -> Objects \cup {None}],
           \A h \in Hosts : table'[h] = table[h] \/ table'[h] = None
                            \/ (table'[h] = req[c].ept /\ h = req[c].dest),
           files' \in [Hosts -> Data \cup {None, Torn}], unsaved' \subseteq Hosts
    PROVE  Inv'
<1> USE DEF Inv
<1>1. req'[c] = r /\ \A d \in Callers : d # c => req'[d] = req[d]
  BY DEF TypeOK
<1>2. TypeOK'
  BY DEF TypeOK, CollectFrom
<1>3. ASSUME NEW h \in Hosts, table'[h] # None
      PROVE  heap'[table'[h]] \in Endpoint /\ heap'[table'[h]].name = h
  <2>1. table'[h] \in Objects /\ heap'[table'[h]] = g[table'[h]]
    BY <1>3, KeptFrom
  <2>2. heap[table'[h]] \in Endpoint /\ heap[table'[h]].name = h
    BY <1>3 DEF Listed, Held, HeldBy
  <2> QED
    BY <2>1, <2>2
<1>4. ASSUME NEW d \in Callers PROVE HeldBy(d)'
  <2>1. req'[d].ept # None => req'[d].ept \in Objects
    BY <1>2 DEF TypeOK, Request
  <2>2. req'[d].ept # None => heap'[req'[d].ept] = g[req'[d].ept]
    BY <2>1, KeptFrom
  <2>3. d = c \/ (d # c /\ req'[d] = req[d])
    BY <1>1
  <2>4. CASE d # c
    BY <2>1, <2>2, <2>3, <2>4 DEF Held, HeldBy, Fits
  <2>5. CASE d = c
    <3>1. NoRequest.ept = None
      BY DEF NoRequest
    <3> QED
      BY <1>1, <2>1, <2>2, <2>5, <3>1 DEF Held, HeldBy, Fits
  <2> QED
    BY <2>4, <2>5
<1> QED
  BY <1>2, <1>3, <1>4 DEF Listed, Held

LEMMA CollectStep ==
    ASSUME Inv, NEW c \in Callers, NEW r \in Request, req' = [req EXCEPT ![c] = r],
           Fits(r), r = NoRequest \/ (r.ept = req[c].ept /\ r.dest = req[c].dest),
           Collect, table' \in [Hosts -> Objects \cup {None}],
           \A h \in Hosts : table'[h] = table[h] \/ table'[h] = None
                            \/ (table'[h] = req[c].ept /\ h = req[c].dest),
           files' \in [Hosts -> Data \cup {None, Torn}], unsaved' \subseteq Hosts
    PROVE  Inv'
<1>1. heap \in [Objects -> Endpoint \cup {None}]
  BY DEF Inv, TypeOK
<1> QED
  BY <1>1, CollectFromStep DEF Collect

\* A handler ends.
LEMMA ReturnStep ==
    ASSUME Inv, NEW c \in Callers, Return(c), Collect, table' = table,
           files' \in [Hosts -> Data \cup {None, Torn}], unsaved' \subseteq Hosts
    PROVE  Inv'
<1>1. table' \in [Hosts -> Objects \cup {None}]
  BY DEF Inv, TypeOK
<1>2. NoRequest \in Request /\ Fits(NoRequest)
  BY NoRequestFits
<1>3. req' = [req EXCEPT ![c] = NoRequest]
  BY DEF Return
<1> QED
  BY <1>1, <1>2, <1>3, CollectStep

\* The steps that change the object the handler works with.
LEMMA ChangeStep ==
    ASSUME Inv, NEW c \in Callers, NEW r \in Request, req' = [req EXCEPT ![c] = r],
           Fits(r), r.ept = req[c].ept, r.dest = req[c].dest, r.ept # None,
           NEW e \in Endpoint, e.name = r.dest, heap' = [heap EXCEPT ![r.ept] = e],
           table' = table, files' \in [Hosts -> Data \cup {None, Torn}], unsaved' \subseteq Hosts
    PROVE  Inv'
<1> USE DEF Inv
<1>1. req'[c] = r /\ \A d \in Callers : d # c => req'[d] = req[d]
  BY DEF TypeOK
<1>2. r.ept \in Objects
  BY DEF Request
<1>3. TypeOK'
  BY <1>2 DEF TypeOK
<1>4. heap[r.ept].name = e.name
  BY DEF Held, HeldBy
<1>5. Listed'
  BY <1>2, <1>4 DEF Listed, TypeOK
<1>6. ASSUME NEW d \in Callers PROVE HeldBy(d)'
  BY <1>1, <1>2, <1>4, <1>3 DEF Held, HeldBy, TypeOK, Request
<1> QED
  BY <1>3, <1>5, <1>6 DEF Held

LEMMA StepInv ==
    ASSUME Inv, NEW c \in Callers, Step(c)
    PROVE  Inv'
<1> DEFINE r == req[c]
<1>0. r \in Request /\ Fits(r) /\ req \in [Callers -> Request]
  BY DEF Inv, TypeOK, Held, HeldBy
<1>00. r.pc \notin {"idle", "unlist", "unfile"} =>
         /\ r.ept # None /\ r.ept \in Objects
         /\ heap[r.ept] \in Endpoint /\ heap[r.ept].name = r.dest /\ r.dest \in Hosts
  BY <1>0 DEF Fits, Inv, Held, HeldBy, Request
<1>1. CASE Unlist(c)
  <2> DEFINE n == [r EXCEPT !.pc = "unfile"]
  <2>1. r.pc = "unlist" /\ r.host \in Hosts
    BY <1>0, <1>1 DEF Unlist, At, Fits
  <2>2. n \in Request /\ Fits(n) /\ n.ept = r.ept /\ n.dest = r.dest
    BY <1>0, <2>1 DEF Request, PC, Fits
  <2>3. Collect /\ files' = files /\ unsaved' = unsaved /\ table' = [table EXCEPT ![r.host] = None]
    BY <1>1 DEF Unlist
  <2>4. /\ table' \in [Hosts -> Objects \cup {None}]
        /\ \A h \in Hosts : table'[h] = table[h] \/ table'[h] = None
    BY <2>1, <2>3 DEF Inv, TypeOK
  <2>5. req' = [req EXCEPT ![c] = n] \/ req' = [req EXCEPT ![c] = NoRequest]
    BY <1>1 DEF Unlist, Goto, Return
  <2> QED
    BY <2>2, <2>3, <2>4, <2>5, NoRequestFits, CollectStep DEF Inv, TypeOK
<1>2. CASE Unfile(c)
  <2> DEFINE n == [r EXCEPT !.pc = "add"]
  <2>1. r.pc = "unfile" /\ r.host \in Hosts
    BY <1>0, <1>2 DEF Unfile, At, Fits
  <2>2. Collect /\ table' = table /\ unsaved' = unsaved /\ files' = [files EXCEPT ![r.host] = None]
    BY <1>2 DEF Unfile
  <2>3. files' \in [Hosts -> Data \cup {None, Torn}] /\ unsaved' \subseteq Hosts
    BY <2>1, <2>2 DEF Inv, TypeOK
  <2>4. CASE req' = [req EXCEPT ![c] = n] /\ r.dest # r.host
    <3>1. n \in Request /\ Fits(n) /\ n.ept = r.ept /\ n.dest = r.dest
      BY <1>0, <2>1, <2>4 DEF Request, PC, Fits
    <3> QED
      BY <2>2, <2>3, <2>4, <3>1, CollectStep DEF Inv, TypeOK
  <2>5. CASE Return(c)
    BY <2>2, <2>3, <2>5, ReturnStep
  <2> QED
    BY <1>2, <2>4, <2>5 DEF Unfile, Goto
<1>3. CASE Readd(c)
  <2> DEFINE n == [r EXCEPT !.pc = "attach"]
  <2>1. r.pc = "readd" /\ req' = [req EXCEPT ![c] = n]
    BY <1>3 DEF Readd, At, Goto
  <2>2. n \in Request /\ Fits(n) /\ n.ept = r.ept /\ n.dest = r.dest
    BY <1>0, <2>1 DEF Request, PC, Fits
  <2>3. Collect /\ files' = files /\ unsaved' = unsaved /\ table' = [table EXCEPT ![r.dest] = r.ept]
    BY <1>3, <1>00, <2>1 DEF Readd
  <2> QED
    BY <1>00, <2>1, <2>2, <2>3, CollectStep DEF Inv, TypeOK
<1>4. CASE Attach(c)
  <2> DEFINE n == [r EXCEPT !.pc = "add", !.arg = None]
             d == [heap[r.ept].data EXCEPT !.ups = @ \cup {r.arg}]
             e == [heap[r.ept] EXCEPT !.data = d]
  <2>1. r.pc = "attach" /\ req' = [req EXCEPT ![c] = n] /\ r.arg \in Upstreams
    BY <1>0, <1>4 DEF Attach, At, Fits
  <2>2. n \in Request /\ Fits(n) /\ n.ept = r.ept /\ n.dest = r.dest
    BY <1>0, <2>1 DEF Request, PC, Fits
  <2>3. e \in Endpoint /\ e.name = r.dest
    <3>1. d \in Data
      BY <1>00, <2>1 DEF Endpoint, Data
    <3> QED
      BY <1>00, <2>1, <3>1 DEF Endpoint
  <2>4. heap' = [heap EXCEPT ![r.ept] = e]
    BY <1>4 DEF Attach, Change
  <2>5. /\ table' = table /\ unsaved' \subseteq Hosts
        /\ files' \in [Hosts -> Data \cup {None, Torn}]
    BY <1>4 DEF Attach, Inv, TypeOK
  <2>6. n.ept # None /\ e.name = n.dest /\ heap' = [heap EXCEPT ![n.ept] = e]
    BY <1>00, <2>1, <2>2, <2>3, <2>4
  <2> HIDE DEF n, e
  <2> QED
    BY <2>1, <2>2, <2>3, <2>5, <2>6, ChangeStep
<1>5. CASE UnfileFails(c) \/ AttachRefused(c) \/ AppendRefused(c) \/ SaveFails(c)
  <2>1. Return(c) /\ Collect /\ table' = table /\ files' = files
    BY <1>5 DEF UnfileFails, AttachRefused, AppendRefused, SaveFails, GiveUp
  <2>2. unsaved' = unsaved \/ \E h \in Hosts : unsaved' = unsaved \cup {h}
    <3>1. CASE UnfileFails(c)
      BY <1>0, <3>1 DEF UnfileFails, At, Fits
    <3>2. CASE AttachRefused(c) \/ SaveFails(c)
      BY <1>00, <3>2 DEF AttachRefused, SaveFails, GiveUp, At
    <3>3. CASE AppendRefused(c)
      BY <3>3 DEF AppendRefused
    <3> QED
      BY <1>5, <3>1, <3>2, <3>3
  <2> QED
    BY <2>1, <2>2, ReturnStep DEF Inv, TypeOK
<1>6. CASE Append(c)
  <2> DEFINE n == [r EXCEPT !.pc = "prepare"]
             d == [heap[r.ept].data EXCEPT !.vdirs = @ \cup {r.arg}]
             e == [heap[r.ept] EXCEPT !.data = d]
  <2>1. r.pc = "append" /\ req' = [req EXCEPT ![c] = n] /\ r.arg \in Vdirs
    BY <1>0, <1>6 DEF Append, At, Goto, Fits
  <2>2. n \in Request /\ Fits(n) /\ n.ept = r.ept /\ n.dest = r.dest
    BY <1>0, <2>1 DEF Request, PC, Fits
  <2>3. e \in Endpoint /\ e.name = r.dest
    <3>1. d \in Data
      BY <1>00, <2>1 DEF Endpoint, Data
    <3> QED
      BY <1>00, <2>1, <3>1 DEF Endpoint
  <2>4. heap' = [heap EXCEPT ![r.ept] = e]
    BY <1>6 DEF Append
  <2>5. /\ table' = table /\ unsaved' \subseteq Hosts
        /\ files' \in [Hosts -> Data \cup {None, Torn}]
    BY <1>6 DEF Append, Inv, TypeOK
  <2>6. n.ept # None /\ e.name = n.dest /\ heap' = [heap EXCEPT ![n.ept] = e]
    BY <1>00, <2>1, <2>2, <2>3, <2>4
  <2> HIDE DEF n, e
  <2> QED
    BY <2>1, <2>2, <2>3, <2>5, <2>6, ChangeStep
<1>7. CASE Prepare(c)
  <2> DEFINE n == [r EXCEPT !.pc = IF r.arg # None THEN "remove" ELSE "add", !.arg = None]
             e == Prepared(heap[r.ept].name, heap[r.ept].data)
  <2>1. r.pc = "prepare" /\ req' = [req EXCEPT ![c] = n]
    BY <1>0, <1>7 DEF Prepare, At
  <2>2. n \in Request /\ Fits(n) /\ n.ept = r.ept /\ n.dest = r.dest
    BY <1>0, <2>1 DEF Request, PC, Fits
  <2>3. heap[r.ept].data \in Data
    BY <1>00, <2>1 DEF Endpoint
  <2>4. e \in Endpoint /\ e.name = r.dest
    BY <1>00, <2>1, <2>3, PreparedObject
  <2>5. heap' = [heap EXCEPT ![r.ept] = e]
    BY <1>7 DEF Prepare
  <2>6. /\ table' = table /\ unsaved' \subseteq Hosts
        /\ files' \in [Hosts -> Data \cup {None, Torn}]
    BY <1>7 DEF Prepare, Inv, TypeOK
  <2>7. n.ept # None /\ e.name = n.dest /\ heap' = [heap EXCEPT ![n.ept] = e]
    BY <1>00, <2>1, <2>2, <2>4, <2>5
  <2> HIDE DEF n, e
  <2> QED
    BY <2>1, <2>2, <2>4, <2>6, <2>7, ChangeStep
<1>8. CASE PrepareFails(c)
  <2>1. PICK e \in Endpoint : /\ e.name = heap[r.ept].name
                              /\ CollectFrom([heap EXCEPT ![r.ept] = e])
    BY <1>8, PrepareFailsForm
  <2> DEFINE g == [heap EXCEPT ![r.ept] = e]
  <2>2. r.pc = "prepare" /\ r.ept \in Objects
    BY <1>8, PrepareFailsForm
  <2>3. /\ g \in [Objects -> Endpoint \cup {None}] /\ CollectFrom(g)
        /\ \A o \in Objects : heap[o] \in Endpoint => g[o] \in Endpoint /\ g[o].name = heap[o].name
    BY <2>1, <2>2 DEF Inv, TypeOK
  <2>4. unsaved' \subseteq Hosts
    BY <1>00, <1>8, <2>2 DEF PrepareFails, GiveUp, Inv, TypeOK
  <2>5. req' = [req EXCEPT ![c] = NoRequest] /\ table' = table /\ files' = files
    BY <1>8 DEF PrepareFails, GiveUp, Return
  <2> HIDE DEF g
  <2> QED
    BY <2>3, <2>4, <2>5, NoRequestFits, CollectFromStep DEF Inv, TypeOK
<1>9. CASE Remove(c)
  <2> DEFINE n == [r EXCEPT !.pc = "add"]
  <2>1. r.pc = "remove" /\ req' = [req EXCEPT ![c] = n]
    BY <1>9 DEF Remove, At, Goto
  <2>2. n \in Request /\ Fits(n) /\ n.ept = r.ept /\ n.dest = r.dest
    BY <1>0, <2>1 DEF Request, PC, Fits
  <2>3. Collect /\ files' = files /\ unsaved' = unsaved /\ table' = [table EXCEPT ![r.host] = None]
    BY <1>9 DEF Remove
  <2> QED
    BY <2>1, <2>2, <2>3, CollectStep DEF Inv, TypeOK
<1>10. CASE AddToRuntime(c)
  <2> DEFINE n == [r EXCEPT !.pc = "save"]
  <2>1. r.pc = "add" /\ req' = [req EXCEPT ![c] = n]
    BY <1>10 DEF AddToRuntime, At, Goto
  <2>2. n \in Request /\ Fits(n) /\ n.ept = r.ept /\ n.dest = r.dest
    BY <1>0, <2>1 DEF Request, PC, Fits
  <2>3. Collect /\ files' = files /\ unsaved' = unsaved /\ table' = [table EXCEPT ![r.dest] = r.ept]
    BY <1>00, <1>10, <2>1 DEF AddToRuntime
  <2> QED
    BY <1>00, <2>1, <2>2, <2>3, CollectStep DEF Inv, TypeOK
<1>11. CASE AddRefused(c)
  <2> DEFINE n == [r EXCEPT !.pc = "save"]
             e == heap[r.ept]
  <2>1. r.pc = "add" /\ req' = [req EXCEPT ![c] = n]
    BY <1>11 DEF AddRefused, At, Goto
  <2>2. n \in Request /\ Fits(n) /\ n.ept = r.ept /\ n.dest = r.dest
    BY <1>0, <2>1 DEF Request, PC, Fits
  <2>3. e \in Endpoint /\ e.name = n.dest /\ n.ept # None
    BY <1>00, <2>1, <2>2
  <2>4. heap' = [heap EXCEPT ![n.ept] = e]
    BY <1>11, <2>2 DEF AddRefused, Inv, TypeOK
  <2>5. /\ table' = table /\ unsaved' \subseteq Hosts
        /\ files' \in [Hosts -> Data \cup {None, Torn}]
    BY <1>00, <1>11, <2>1 DEF AddRefused, Inv, TypeOK
  <2> HIDE DEF n, e
  <2> QED
    BY <2>1, <2>2, <2>3, <2>4, <2>5, ChangeStep
<1>12. CASE SaveOpen(c)
  <2> DEFINE n == [r EXCEPT !.pc = "write", !.text = heap[r.ept].data]
             e == heap[r.ept]
  <2>1. r.pc = "save" /\ req' = [req EXCEPT ![c] = n]
    BY <1>0, <1>12 DEF SaveOpen, At
  <2>2. n \in Request /\ Fits(n) /\ n.ept = r.ept /\ n.dest = r.dest
    BY <1>0, <1>00, <2>1 DEF Request, PC, Fits, Endpoint
  <2>3. heap' = [heap EXCEPT ![r.ept] = e] /\ files' = [files EXCEPT ![r.dest] = Torn]
    BY <1>00, <1>12, <2>1 DEF SaveOpen, Inv, TypeOK
  <2>4. files' \in [Hosts -> Data \cup {None, Torn}]
    BY <2>3 DEF Inv, TypeOK
  <2>5. table' = table /\ unsaved' \subseteq Hosts
    BY <1>12 DEF SaveOpen, Inv, TypeOK
  <2>6. e \in Endpoint /\ n.ept # None /\ e.name = n.dest /\ heap' = [heap EXCEPT ![n.ept] = e]
    BY <1>00, <2>1, <2>2, <2>3
  <2> HIDE DEF n, e
  <2> QED
    BY <2>1, <2>2, <2>4, <2>5, <2>6, ChangeStep
<1>13. CASE SaveWrite(c)
  <2>1. r.pc = "write" /\ r.text \in Data
    BY <1>0, <1>13 DEF SaveWrite, At, Fits
  <2>2. files' \in [Hosts -> Data \cup {None, Torn}] /\ unsaved' \subseteq Hosts
    BY <1>00, <1>13, <2>1 DEF SaveWrite, Inv, TypeOK
  <2> QED
    BY <1>13, <2>2, ReturnStep DEF SaveWrite
<1> QED
  BY <1>1, <1>2, <1>3, <1>4, <1>5, <1>6, <1>7, <1>8, <1>9, <1>10, <1>11, <1>12, <1>13 DEF Step

\* After a restart every host that has a file that loads, and no other, is listed,
\* as an object that says what the file says.
LEMMA Loaded ==
    ASSUME Inv, Restart
    PROVE  /\ \A h \in Hosts : OnDisk(h) # None =>
                 /\ table'[h] \in Objects /\ OnDisk(h) \in Data
                 /\ heap'[table'[h]] = Prepared(h, OnDisk(h))
           /\ \A h \in Hosts : OnDisk(h) = None => table'[h] = None
           /\ heap' \in [Objects -> Endpoint \cup {None}]
           /\ table' \in [Hosts -> Objects \cup {None}]
           /\ \A o \in Objects : heap'[o] = None \/ Lacks(heap'[o]) = {}
<1> DEFINE loaded == {h \in Hosts : files[h] \in Data /\ Loads(files[h])}
<1>1. PICK f \in [loaded -> Objects] :
        /\ \A g \in loaded, h \in loaded : f[g] = f[h] => g = h
        /\ table' = [h \in Hosts |-> IF h \in loaded THEN f[h] ELSE None]
        /\ heap' = [o \in Objects |->
              IF \E h \in loaded : f[h] = o
              THEN LET h == CHOOSE h \in loaded : f[h] = o IN Prepared(h, files[h])
              ELSE None]
  BY DEF Restart
<1>2. \A h \in loaded : Prepared(h, files[h]) \in Endpoint /\ Lacks(Prepared(h, files[h])) = {}
  BY PreparedObject
<1>3. ASSUME NEW h \in loaded PROVE heap'[f[h]] = Prepared(h, files[h])
  <2>1. f[h] \in Objects /\ \A k \in loaded : f[k] = f[h] => k = h
    BY <1>1, <1>3
  <2>2. (CHOOSE k \in loaded : f[k] = f[h]) = h
    BY <1>3, <2>1
  <2> QED
    BY <1>1, <1>3, <2>1, <2>2
<1>4. ASSUME NEW o \in Objects
      PROVE  heap'[o] \in Endpoint \cup {None} /\ (heap'[o] = None \/ Lacks(heap'[o]) = {})
  <2>1. CASE \E h \in loaded : f[h] = o
    BY <1>2, <1>3, <2>1
  <2>2. CASE ~\E h \in loaded : f[h] = o
    BY <1>1, <2>2
  <2> QED
    BY <2>1, <2>2
<1>5. heap' \in [Objects -> Endpoint \cup {None}]
  BY <1>1, <1>4
<1>6. ASSUME NEW h \in Hosts
      PROVE  /\ h \in loaded <=> OnDisk(h) # None
             /\ h \in loaded => OnDisk(h) = files[h] /\ files[h] \in Data
  BY FileAssumption DEF OnDisk
<1>7. ASSUME NEW h \in Hosts, OnDisk(h) # None
      PROVE  /\ table'[h] \in Objects /\ OnDisk(h) \in Data
             /\ heap'[table'[h]] = Prepared(h, OnDisk(h))
  <2>1. h \in loaded /\ OnDisk(h) = files[h] /\ files[h] \in Data
    BY <1>6, <1>7
  <2>2. table'[h] = f[h] /\ f[h] \in Objects
    BY <1>1, <2>1
  <2> QED
    BY <1>3, <2>1, <2>2
<1>8. ASSUME NEW h \in Hosts, OnDisk(h) = None PROVE table'[h] = None
  BY <1>1, <1>6, <1>8
<1>9. table' \in [Hosts -> Objects \cup {None}]
  BY <1>1
<1> QED
  BY <1>4, <1>5, <1>7, <1>8, <1>9

LEMMA RestartInv ==
    ASSUME Inv, Restart
    PROVE  Inv'
<1>1. req' = [c \in Callers |-> NoRequest] /\ unsaved' = {} /\ files' = files
  BY DEF Restart
<1>2. TypeOK'
  BY <1>1, Loaded, NoRequestFits DEF Inv, TypeOK
<1>3. ASSUME NEW h \in Hosts, table'[h] # None
      PROVE  heap'[table'[h]] \in Endpoint /\ heap'[table'[h]].name = h
  BY <1>3, Loaded, PreparedObject
<1>4. Held'
  BY <1>1 DEF Held, HeldBy, Fits, NoRequest
<1> QED
  BY <1>2, <1>3, <1>4 DEF Inv, Listed

LEMMA StutterInv == ASSUME Inv, UNCHANGED vars PROVE Inv'
BY DEF Inv, TypeOK, Listed, Held, HeldBy, Fits, vars

LEMMA NextInv ==
    ASSUME Inv, [Next]_vars
    PROVE  Inv'
<1>1. CASE Restart
  BY <1>1, RestartInv
<1>2. ASSUME NEW c \in Callers, Arrive(c) PROVE Inv'
  BY <1>2, ArriveForms, ArriveInv
<1>3. ASSUME NEW c \in Callers, Step(c) PROVE Inv'
  BY <1>3, StepInv
<1>4. CASE UNCHANGED vars
  BY <1>4, StutterInv
<1> QED
  BY <1>1, <1>2, <1>3, <1>4 DEF Next

LEMMA InvAlways == Spec => []Inv
<1> HIDE DEF Inv
<1> QED
  BY InitInv, NextInv, PTL DEF Spec

\* Whatever requests are in progress together, a host is listed as an object of
\* its own name: no rename, replacement or restart leaves one under another's.
THEOREM NamesAgree == Spec => [](TypeOK /\ NamesMatch)
<1>1. Inv => TypeOK /\ NamesMatch
  BY DEF Inv, Listed, NamesMatch
<1> QED
  BY <1>1, InvAlways, PTL

-----------------------------------------------------------------------------
(* Virtual directories *)

\* The directories that handlers are about to prepare object o for.
Pending(o) == {req[c].arg : c \in {d \in Callers : req[d].pc = "prepare" /\ req[d].ept = o}}

\* What an object lacks is what a handler is about to prepare.
Ready == \A o \in Objects : heap[o] = None \/ Lacks(heap[o]) \subseteq Pending(o)

\* A step of a handler that is not about to prepare, after which no object lacks
\* more than before.
Tidy(c) ==
    /\ req[c].pc # "prepare" /\ \A d \in Callers \ {c} : req'[d] = req[d]
    /\ \A o \in Objects : \/ heap'[o] = None
                          \/ Lacks(heap'[o]) = {}
                          \/ heap[o] # None /\ Lacks(heap'[o]) \subseteq Lacks(heap[o])

LEMMA TidyReady ==
    ASSUME Ready, NEW c \in Callers, Tidy(c)
    PROVE  Ready'
<1> SUFFICES ASSUME NEW o \in Objects, heap'[o] # None
             PROVE  Lacks(heap'[o]) \subseteq Pending(o)'
  BY DEF Ready
<1>1. Pending(o) \subseteq Pending(o)'
  BY DEF Pending, Tidy
<1> QED
  BY <1>1 DEF Ready, Tidy

\* The request of one caller changes.
LEMMA OneRequest ==
    ASSUME Inv, NEW c \in Callers, NEW r, req' = [req EXCEPT ![c] = r]
    PROVE  req'[c] = r /\ \A d \in Callers \ {c} : req'[d] = req[d]
BY DEF Inv, TypeOK

LEMMA ArriveReady ==
    ASSUME Inv, Ready, NEW c \in Callers, Arrived(c)
    PROVE  Ready'
<1>1. PICK h, m, o, a, to : Begin(c, h, m, o, a, to)
  BY DEF Arrived, Fresh, InPlace, NoObject
<1>2. req[c].pc # "prepare" /\ \A d \in Callers \ {c} : req'[d] = req[d]
  BY <1>1, OneRequest DEF Begin
<1>3. ASSUME NEW p \in Objects, heap'[p] # None, Lacks(heap'[p]) # {}
      PROVE  heap[p] # None /\ Lacks(heap'[p]) \subseteq Lacks(heap[p])
  <2>1. CASE \E g \in Hosts, n \in Hosts, q \in Objects, t \in PC : Fresh(c, g, n, q, t)
    BY <1>3, <2>1 DEF Fresh, Inv, TypeOK
  <2>2. CASE \E g \in Hosts, b \in Upstreams \cup Vdirs \cup {None}, t \in PC : InPlace(c, g, b, t)
    <3>1. PICK g \in Hosts, e \in Endpoint :
            /\ table[g] # None /\ heap' = [heap EXCEPT ![table[g]] = e]
            /\ Lacks(e) \subseteq Lacks(heap[table[g]])
      BY <2>2 DEF InPlace, Alters
    <3>2. heap[table[g]] # None
      BY <3>1, HeapAssumption DEF Inv, Listed
    <3> QED
      BY <1>3, <3>1, <3>2 DEF Inv, TypeOK
  <2>3. CASE \E g \in Hosts : NoObject(c, g)
    BY <1>3, <2>3 DEF NoObject
  <2> QED
    BY <2>1, <2>2, <2>3 DEF Arrived
<1>4. Tidy(c)
  BY <1>2, <1>3 DEF Tidy
<1> QED
  BY <1>4, TidyReady

LEMMA StepReady ==
    ASSUME Inv, Ready, NEW c \in Callers, Step(c)
    PROVE  Ready'
<1>0. req \in [Callers -> Request] /\ req[c] \in Request
  BY DEF Inv, TypeOK
<1>1. CASE Unlist(c) \/ Unfile(c) \/ UnfileFails(c) \/ Readd(c) \/ AttachRefused(c)
           \/ AppendRefused(c) \/ Remove(c) \/ AddToRuntime(c) \/ AddRefused(c) \/ SaveOpen(c)
           \/ SaveWrite(c) \/ SaveFails(c)
  <2>1. req[c].pc # "prepare"
    BY <1>1 DEF Unlist, Unfile, UnfileFails, Readd, AttachRefused, AppendRefused, Remove,
                AddToRuntime, AddRefused, SaveOpen, SaveWrite, SaveFails, At
  <2>2. \E r : req' = [req EXCEPT ![c] = r]
    BY <1>1 DEF Unlist, Unfile, UnfileFails, Readd, AttachRefused, AppendRefused, Remove,
                AddToRuntime, AddRefused, SaveOpen, SaveWrite, SaveFails, Goto, GiveUp, Return
  <2>3. \A p \in Objects : heap'[p] = None \/ heap'[p] = heap[p]
    BY <1>1 DEF Unlist, Unfile, UnfileFails, Readd, AttachRefused, AppendRefused, Remove,
                AddToRuntime, AddRefused, SaveOpen, SaveWrite, SaveFails, Collect, CollectFrom
  <2>4. Tidy(c)
    BY <2>1, <2>2, <2>3, OneRequest DEF Tidy
  <2> QED
    BY <2>4, TidyReady
<1>2. CASE Attach(c)
  <2>1. PICK o \in Objects : o = req[c].ept /\ heap[o] \in Endpoint
    BY <1>0, <1>2 DEF Attach, At, Inv, Held, HeldBy, Fits, Request
  <2>2. heap' = [heap EXCEPT ![o].data = [heap[o].data EXCEPT !.ups = @ \cup {req[c].arg}]]
    BY <1>2, <2>1 DEF Attach, Change
  <2>3. Lacks(heap'[o]) = Lacks(heap[o]) /\ \A p \in Objects \ {o} : heap'[p] = heap[p]
    BY <2>1, <2>2 DEF Lacks, Endpoint, Data, Inv, TypeOK
  <2>4. Tidy(c)
    BY <1>0, <1>2, <2>1, <2>3, HeapAssumption DEF Tidy, Attach, At
  <2> QED
    BY <2>4, TidyReady
<1>3. CASE Append(c)
  <2>1. PICK o \in Objects : o = req[c].ept /\ heap[o] \in Endpoint
    BY <1>0, <1>3 DEF Append, At, Inv, Held, HeldBy, Fits, Request
  <2>2. /\ heap' = [heap EXCEPT ![o].data.vdirs = @ \cup {req[c].arg}]
        /\ req[c].pc = "append" /\ req' = [req EXCEPT ![c].pc = "prepare"]
    BY <1>3, <2>1 DEF Append, At, Goto
  <2>3. /\ Lacks(heap'[o]) \subseteq Lacks(heap[o]) \cup {req[c].arg}
        /\ \A p \in Objects \ {o} : heap'[p] = heap[p]
    BY <2>1, <2>2 DEF Lacks, Endpoint, Data, Inv, TypeOK
  <2>4. \A p \in Objects : Pending(p) \subseteq Pending(p)'
    BY <1>0, <2>2 DEF Pending
  <2>5. req[c].arg \in Pending(o)'
    BY <1>0, <2>1, <2>2 DEF Pending, Request
  <2>6. heap[o] # None
    BY <2>1, HeapAssumption
  <2>7. ASSUME NEW p \in Objects, heap'[p] # None PROVE Lacks(heap'[p]) \subseteq Pending(p)'
    BY <2>3, <2>4, <2>5, <2>6, <2>7 DEF Ready
  <2> QED
    BY <2>7 DEF Ready
<1>4. CASE Prepare(c) \/ PrepareFails(c)
  <2>1. PICK o \in Objects : /\ o = req[c].ept /\ req[c].pc = "prepare"
                              /\ heap[o] \in Endpoint /\ heap[o].data \in Data
    BY <1>0, <1>4 DEF Prepare, PrepareFails, At, Inv, Held, HeldBy, Fits, Request, Endpoint
  <2>2. \A d \in Callers \ {c} : req'[d] = req[d]
    BY <1>4, <1>0 DEF Prepare, PrepareFails, GiveUp, Return
  <2>3. /\ \A p \in Objects \ {o} : heap'[p] = None \/ heap'[p] = heap[p]
        /\ heap'[o] = None \/ Lacks(heap'[o]) \subseteq Lacks(heap[o]) \ {req[c].arg}
    <3>1. CASE Prepare(c)
      <4>1. heap' = [heap EXCEPT ![o] = Prepared(heap[o].name, heap[o].data)]
        BY <2>1, <3>1 DEF Prepare
      <4>2. Lacks(Prepared(heap[o].name, heap[o].data)) = {}
        BY <2>1, PreparedObject DEF Endpoint
      <4> QED
        BY <2>1, <4>1, <4>2 DEF Inv, TypeOK
    <3>2. CASE PrepareFails(c)
      <4>1. PICK e \in Endpoint : /\ Lacks(e) \subseteq Lacks(heap[o]) \ {req[c].arg}
                                  /\ CollectFrom([heap EXCEPT ![o] = e])
        BY <2>1, <3>2, PrepareFailsForm
      <4> QED
        BY <2>1, <4>1 DEF CollectFrom, Inv, TypeOK
    <3> QED
      BY <1>4, <3>1, <3>2
  <2>4. /\ \A p \in Objects \ {o} : Pending(p) \subseteq Pending(p)'
        /\ Pending(o) \ {req[c].arg} \subseteq Pending(o)'
    BY <2>1, <2>2 DEF Pending
  <2>5. ASSUME NEW p \in Objects \ {o}, heap'[p] # None PROVE Lacks(heap'[p]) \subseteq Pending(p)'
    BY <2>3, <2>4, <2>5 DEF Ready
  <2>6. ASSUME heap'[o] # None PROVE Lacks(heap'[o]) \subseteq Pending(o)'
    BY <2>1, <2>3, <2>4, <2>6, HeapAssumption DEF Ready
  <2> QED
    BY <2>5, <2>6 DEF Ready
<1> QED
  BY <1>1, <1>2, <1>3, <1>4 DEF Step

LEMMA NextReady ==
    ASSUME Inv, Ready, [Next]_vars
    PROVE  Ready'
<1>1. CASE Restart
  BY <1>1, Loaded DEF Ready
<1>2. CASE UNCHANGED vars
  BY <1>2 DEF vars, Ready, Pending
<1> QED
  BY <1>1, <1>2, ArriveForms, ArriveReady, StepReady DEF Next

LEMMA ReadyServes ==
    ASSUME Inv, Ready
    PROVE  VdirsServed
<1> SUFFICES ASSUME NEW h \in Hosts, table[h] # None, ~Busy(h)
             PROVE  Lacks(heap[table[h]]) = {}
  BY DEF VdirsServed, Found, Lacks
<1>1. table[h] \in Objects /\ heap[table[h]] \in Endpoint /\ heap[table[h]].name = h
  BY DEF Inv, TypeOK, Listed
<1>2. ASSUME NEW c \in Callers, req[c].ept = table[h], req[c].pc = "prepare" PROVE FALSE
  <2>1. req[c].dest = h
    BY <1>1, <1>2 DEF Inv, Held, HeldBy
  <2> QED
    BY <1>2, <2>1 DEF Busy
<1>3. Pending(table[h]) = {}
  BY <1>2 DEF Pending
<1> QED
  BY <1>1, <1>3, HeapAssumption DEF Ready

\* Whatever requests are in progress together, and wherever preparing an object
\* fails, the virtual directories of a host that none of them is about have the
\* proxies requests are routed to, but for those whose addition was answered with
\* an error.
THEOREM DirectoriesServed == Spec => []VdirsServed
<1>1. Init => Ready
  BY DEF Init, Ready
<1>2. Inv /\ Inv' /\ Ready /\ [Next]_vars => Ready'
  BY NextReady
<1> HIDE DEF Inv, Ready
<1> QED
  BY <1>1, <1>2, InvAlways, ReadyServes, PTL DEF Spec

-----------------------------------------------------------------------------
(* Requests about different hosts *)

\* Requests in progress are about different hosts.
Apart == \A c \in Callers, d \in Callers :
    c # d /\ req[c].pc # "idle" /\ req[d].pc # "idle" =>
        {req[c].host, req[c].dest} \cap {req[d].host, req[d].dest} = {}

\* What runs of a host is what a restart would load, or an error has struck it.
Agrees(h) == h \in unsaved \/ Running(h) = OnDisk(h)

\* What is known of the object a handler works with: it can be loaded again once it
\* is listed and saved, or its host is one that an error has struck; and it is as its
\* file says, or lacks the directory that is to be added, which is then not refused.
Promise(r, d) ==
    /\ r.pc \in {"unlist", "unfile", "remove", "readd", "attach", "add"} =>
          Prepares(d) \/ r.dest \in unsaved
    /\ r.pc \in {"save", "write"} => /\ table[r.dest] = r.ept \/ ~Lists(d)
                                     /\ Loads(d) \/ r.dest \in unsaved
    /\ r.pc = "write" => r.text = d
    /\ r.pc = "append" => Agrees(r.host) \/ r.arg \notin d.vdirs

\* How far a handler has got with its hosts.
Progress(r) ==
    /\ r.pc = "unlist" => Agrees(r.host)
    /\ r.pc = "unfile" => table[r.host] = None
    /\ r.dest # r.host /\ r.pc \in {"unlist", "unfile"} => table[r.dest] = None /\ Agrees(r.dest)
    /\ r.dest # r.host /\ r.pc \in {"add", "save", "write"} =>
          table[r.host] = None /\ files[r.host] = None
    /\ r.pc = "write" => OnDisk(r.dest) = None
    /\ r.ept # None => Promise(r, heap[r.ept].data)

ExInv == Inv /\ Apart /\ (\A c \in Callers : Progress(req[c])) /\ Durable

\* A step of c leaves the other hosts and requests as they are.
Local(c) ==
    /\ \A h \in Hosts : h \notin {req[c].host, req[c].dest, req'[c].host, req'[c].dest} =>
          /\ table'[h] = table[h] /\ files'[h] = files[h]
          /\ h \in unsaved' <=> h \in unsaved
          /\ table[h] # None => heap'[table[h]] = heap[table[h]]
    /\ \A d \in Callers : d # c =>
          /\ req'[d] = req[d]
          /\ req[d].ept # None => heap'[req[d].ept] = heap[req[d].ept]

\* c goes on with the same hosts, comes to be about some, or is done.
Own(c) ==
    /\ req[c].pc # "idle" /\ req'[c].pc # "idle" =>
          req'[c].host = req[c].host /\ req'[c].dest = req[c].dest
    /\ req'[c].pc # "idle" => Progress(req[c])'
    /\ req'[c].pc = "idle" =>
          \A h \in Hosts : h \in {req[c].host, req[c].dest} => Agrees(h)'

\* A host agrees as long as neither its entry, its file nor its object changes.
LEMMA AgreesKept ==
    ASSUME NEW h \in Hosts, Agrees(h), table'[h] = table[h], files'[h] = files[h],
           h \in unsaved => h \in unsaved',
           table[h] # None => heap'[table[h]] = heap[table[h]]
    PROVE  Agrees(h)'
BY DEF Agrees, Running, OnDisk, Found

LEMMA AgreesGone ==
    ASSUME NEW h \in Hosts, table'[h] = None, files'[h] = None
    PROVE  Agrees(h)'
BY FileAssumption DEF Agrees, Running, OnDisk

\* A listed host that no error has struck can be loaded.
LEMMA AgreesLoads ==
    ASSUME Inv, NEW h \in Hosts, Agrees(h), table[h] # None
    PROVE  Loads(Found(h)) \/ h \in unsaved
<1>1. Found(h) \in Data
  BY FoundIsData DEF Inv
<1> QED
  BY <1>1, FileAssumption DEF Agrees, Running, OnDisk

LEMMA LocalPreserves ==
    ASSUME ExInv, Inv', Apart', NEW c \in Callers, Local(c), Own(c)
    PROVE  ExInv'
<1> USE DEF ExInv
<1>0. None \notin Hosts
  BY EndpointAssumption
<1>1. ASSUME NEW d \in Callers, req'[d].pc = "idle" PROVE Progress(req[d])'
  <2>1. req'[d] = NoRequest
    BY <1>1 DEF Inv, Held, HeldBy, Fits
  <2> QED
    BY <2>1 DEF NoRequest, Progress
<1>2. ASSUME NEW d \in Callers, req'[d].pc # "idle", d # c PROVE Progress(req[d])'
  <2>1. req'[d] = req[d] /\ req[d].host \in Hosts /\ req[d].dest \in Hosts
    BY <1>2 DEF Local, Inv, Held, HeldBy, Fits
  <2>2. ASSUME NEW h \in {req[d].host, req[d].dest}
        PROVE  h \notin {req[c].host, req[c].dest, req'[c].host, req'[c].dest}
    <3>1. h \in Hosts
      BY <2>1
    <3>2. req[c].pc = "idle" => h \notin {req[c].host, req[c].dest}
      BY <1>0, <3>1 DEF Inv, Held, HeldBy, Fits, NoRequest
    <3>3. req'[c].pc = "idle" => h \notin {req'[c].host, req'[c].dest}
      BY <1>0, <3>1 DEF Inv, Held, HeldBy, Fits, NoRequest
    <3>4. req[c].pc # "idle" => h \notin {req[c].host, req[c].dest}
      BY <1>2, <2>1 DEF Apart
    <3>5. req'[c].pc # "idle" => h \notin {req'[c].host, req'[c].dest}
      BY <1>2, <2>1 DEF Apart
    <3> QED
      BY <3>2, <3>3, <3>4, <3>5
  <2>3. ASSUME NEW h \in {req[d].host, req[d].dest}
        PROVE  /\ table'[h] = table[h] /\ files'[h] = files[h]
               /\ h \in unsaved' <=> h \in unsaved
               /\ table[h] # None => heap'[table[h]] = heap[table[h]]
    BY <2>1, <2>2 DEF Local
  <2>4. req[d].ept # None => heap'[req[d].ept] = heap[req[d].ept]
    BY <1>2 DEF Local
  <2>5. PICK r \in Request : r = req[d] /\ r = req'[d]
    BY <2>1 DEF Inv, TypeOK
  <2>6. Progress(r)
    BY <2>5
  <2>7. ASSUME NEW h \in {r.host, r.dest}, Agrees(h) PROVE Agrees(h)'
    BY <2>1, <2>3, <2>5, <2>7, AgreesKept
  <2>8. OnDisk(r.dest) = None => OnDisk(r.dest)' = None
    BY <2>3, <2>5 DEF OnDisk
  <2>9. r.ept # None => Promise(r, heap[r.ept].data)'
    BY <2>3, <2>4, <2>5, <2>6, <2>7 DEF Progress, Promise
  <2>10. Progress(r)'
    BY <2>3, <2>5, <2>6, <2>7, <2>8, <2>9 DEF Progress
  <2> QED
    BY <2>5, <2>10
<1>3. ASSUME NEW h \in Hosts, ~Busy(h)' PROVE Agrees(h)'
  <2>1. CASE h \in {req[c].host, req[c].dest, req'[c].host, req'[c].dest}
    <3>1. req'[c].pc = "idle"
      BY <1>0, <1>3, <2>1 DEF Busy, Own, Inv, Held, HeldBy, Fits, NoRequest
    <3>2. h \in {req[c].host, req[c].dest}
      BY <1>0, <2>1, <3>1 DEF Inv, Held, HeldBy, Fits, NoRequest
    <3> QED
      BY <3>1, <3>2 DEF Own
  <2>2. CASE h \notin {req[c].host, req[c].dest, req'[c].host, req'[c].dest}
    <3>1. ~Busy(h)
      BY <1>3, <2>2 DEF Busy, Local
    <3>2. Agrees(h)
      BY <3>1 DEF Durable, Agrees
    <3> QED
      BY <2>2, <3>2, AgreesKept DEF Local
  <2> QED
    BY <2>1, <2>2
<1>4. Durable'
  BY <1>3 DEF Durable, Agrees
<1> QED
  BY <1>1, <1>2, <1>4 DEF Own

LEMMA InitExInv == Init => ExInv
<1>1. Init => Inv
  BY InitInv
<1>2. Init => Apart /\ (\A c \in Callers : Progress(req[c])) /\ Durable
  BY FileAssumption DEF Init, Apart, Progress, Durable, NoRequest, Running, OnDisk
<1> QED
  BY <1>1, <1>2 DEF ExInv

LEMMA ArriveLocal ==
    ASSUME ExInv, Exclusive, NEW c \in Callers, Arrived(c)
    PROVE  Inv' /\ Apart' /\ Local(c) /\ Own(c)
<1> USE DEF ExInv
<1>1. Inv'
  BY ArriveInv
<1>2. PICK h \in Hosts, m \in Hosts, o \in Objects \cup {None},
           a \in Upstreams \cup Vdirs \cup {None}, to \in PC : Begin(c, h, m, o, a, to)
  <2> DEFINE B(h, m, o, a, to) ==
        /\ h \in Hosts /\ m \in Hosts /\ o \in Objects \cup {None}
        /\ a \in Upstreams \cup Vdirs \cup {None} /\ to \in PC /\ Begin(c, h, m, o, a, to)
  <2>1. ASSUME NEW h \in Hosts, NEW m \in Hosts, NEW o \in Objects, NEW to \in PC,
               Fresh(c, h, m, o, to)
        PROVE  B(h, m, o, None, to)
    BY <2>1 DEF Fresh
  <2>2. ASSUME NEW h \in Hosts, NEW a \in Upstreams \cup Vdirs \cup {None}, NEW to \in PC,
               InPlace(c, h, a, to)
        PROVE  B(h, h, table[h], a, to)
    BY <2>2 DEF InPlace, Inv, TypeOK
  <2>3. ASSUME NEW h \in Hosts, NoObject(c, h) PROVE B(h, h, None, None, "unlist")
    BY <2>3 DEF NoObject, PC
  <2>4. \E h, m, o, a, to : B(h, m, o, a, to)
    <3> HIDE DEF B
    <3> QED
      BY <2>1, <2>2, <2>3 DEF Arrived
  <2> QED
    BY <2>4
<1> DEFINE r == [pc |-> to, host |-> h, dest |-> m, ept |-> o, arg |-> a, text |-> None]
<1>3. /\ req[c].pc = "idle" /\ ~Busy(h) /\ ~Busy(m) /\ req'[c] = r
      /\ \A d \in Callers : d # c => req'[d] = req[d]
  BY <1>2 DEF Begin, Inv, TypeOK
<1>4. Apart'
  BY <1>3 DEF Apart, Busy
<1>5. table' = table /\ files' = files /\ unsaved' = unsaved
  BY DEF Arrived
<1>6. Agrees(h) /\ Agrees(m)
  BY <1>3 DEF Durable, Agrees
<1>7. CASE \E g \in Hosts, n \in Hosts, p \in Objects, t \in PC : Fresh(c, g, n, p, t)
  <2>1. PICK g \in Hosts, n \in Hosts, p \in Objects, t \in PC : Fresh(c, g, n, p, t)
    BY <1>7
  <2>2. req'[c] = [pc |-> t, host |-> g, dest |-> n, ept |-> p, arg |-> None, text |-> None]
    BY <2>1 DEF Fresh, Begin, Inv, TypeOK
  <2>3. g = h /\ n = m /\ t = to /\ p = o
    BY <1>3, <2>2
  <2>4. \A q \in Objects : heap[q] # None => heap'[q] = heap[q]
    BY <2>1 DEF Fresh, Inv, TypeOK
  <2>5. \A k \in Hosts : table[k] # None => table[k] \in Objects /\ heap[table[k]] # None
    BY HeapAssumption DEF Inv, TypeOK, Listed
  <2>6. \A d \in Callers : req[d].ept # None => req[d].ept \in Objects /\ heap[req[d].ept] # None
    BY HeapAssumption DEF Inv, TypeOK, Request, Held, HeldBy
  <2>7. Local(c)
    BY <1>3, <1>5, <2>4, <2>5, <2>6 DEF Local
  <2>8. Agrees(h)' /\ Agrees(m)'
    BY <1>5, <1>6, <2>4, <2>5, AgreesKept
  <2>9. (m = h /\ to \in {"add", "remove"}) \/ (m # h /\ to = "unlist" /\ table[m] = None)
    BY <2>1, <2>3 DEF Fresh
  <2>10. Prepares(heap'[o].data)
    BY <2>1, <2>3 DEF Fresh, Inv, TypeOK
  <2>11. Progress(r)'
    <3>1. Promise(r, heap[o].data)'
      BY <2>9, <2>10 DEF Promise
    <3> QED
      BY <1>5, <2>8, <2>9, <3>1 DEF Progress
  <2>12. Own(c)
    BY <1>3, <2>9, <2>11 DEF Own
  <2> QED
    BY <1>1, <1>4, <2>7, <2>12
<1>8. CASE \E g \in Hosts, b \in Upstreams \cup Vdirs \cup {None}, t \in PC : InPlace(c, g, b, t)
  <2>1. PICK g \in Hosts, b \in Upstreams \cup Vdirs \cup {None}, t \in PC : InPlace(c, g, b, t)
    BY <1>8
  <2>2. req'[c] = [pc |-> t, host |-> g, dest |-> g, ept |-> table[g], arg |-> b, text |-> None]
    BY <2>1 DEF InPlace, Begin, Inv, TypeOK
  <2>3. g = h /\ g = m /\ t = to /\ o = table[h] /\ b = a
    BY <1>3, <2>2
  <2>4. \A q \in Objects : q # table[h] => heap'[q] = heap[q]
    BY <2>1, <2>3 DEF InPlace, Inv, TypeOK
  <2>5. table[h] # None /\ heap[table[h]].name = h
    BY <2>1, <2>3 DEF InPlace, Inv, Listed
  <2>6. \A k \in Hosts : k # h /\ table[k] # None => table[k] \in Objects /\ table[k] # table[h]
    BY <2>5 DEF Inv, TypeOK, Listed
  <2>7. \A d \in Callers : d # c /\ req[d].ept # None => req[d].ept \in Objects /\ req[d].ept # table[h]
    <3>1. ASSUME NEW d \in Callers, req[d].ept # None PROVE req[d].pc # "idle"
      BY <3>1 DEF Inv, Held, HeldBy, Fits, NoRequest
    <3>2. ASSUME NEW d \in Callers, req[d].ept = table[h], req[d].ept # None PROVE FALSE
      BY <1>3, <2>5, <3>1, <3>2 DEF Busy, Inv, Held, HeldBy
    <3> QED
      BY <3>2 DEF Inv, TypeOK, Request
  <2>8. Local(c)
    BY <1>3, <1>5, <2>3, <2>4, <2>6, <2>7 DEF Local
  <2>9. to \in {"save", "add", "readd", "append", "prepare"}
    BY <2>1, <2>3 DEF InPlace
  <2>10. PICK e \in Endpoint : Alters(h, e, to) /\ heap' = [heap EXCEPT ![table[h]] = e]
    BY <2>1, <2>3 DEF InPlace
  <2>11. heap'[o].data = e.data
    BY <2>3, <2>5, <2>10 DEF Inv, TypeOK
  <2>12. Loads(Found(h)) \/ h \in unsaved
    BY <1>6, <2>5, AgreesLoads
  <2>13. Promise(r, e.data)'
    <3>1. to = "append" => Agrees(h)' \/ a \notin e.data.vdirs
      BY <1>5, <1>6, <2>1, <2>3, <2>11, AgreesKept DEF InPlace
    <3> QED
      BY <1>5, <2>3, <2>9, <2>10, <2>12, <3>1 DEF Promise, Alters, Loads
  <2>14. Progress(r)'
    BY <2>3, <2>9, <2>11, <2>13 DEF Progress
  <2>15. Own(c)
    BY <1>3, <2>9, <2>14 DEF Own
  <2> QED
    BY <1>1, <1>4, <2>8, <2>15
<1>9. CASE \E g \in Hosts : NoObject(c, g)
  <2>1. PICK g \in Hosts : NoObject(c, g)
    BY <1>9
  <2>2. req'[c] = [pc |-> "unlist", host |-> g, dest |-> g, ept |-> None, arg |-> None,
                   text |-> None] /\ heap' = heap
    BY <2>1 DEF NoObject, Begin, Inv, TypeOK
  <2>3. g = h /\ g = m /\ to = "unlist" /\ o = None
    BY <1>3, <2>2
  <2>4. Local(c)
    BY <1>3, <1>5, <2>2 DEF Local
  <2>5. Agrees(h)'
    BY <1>5, <1>6, <2>2, AgreesKept
  <2>6. Progress(r)'
    BY <2>3, <2>5 DEF Progress
  <2>7. Own(c)
    BY <1>3, <2>3, <2>6 DEF Own
  <2> QED
    BY <1>1, <1>4, <2>4, <2>7
<1> QED
  BY <1>7, <1>8, <1>9 DEF Arrived

LEMMA ArriveExInv ==
    ASSUME ExInv, Exclusive, NEW c \in Callers, Arrived(c)
    PROVE  ExInv'
BY ArriveLocal, LocalPreserves

\* A step that changes at most the object its handler works with, and loses what is
\* no longer in use.
LEMMA CollectLocal ==
    ASSUME ExInv, NEW c \in Callers, req[c].pc # "idle", NEW g, CollectFrom(g),
           \A o \in Objects : o # req[c].ept => g[o] = heap[o],
           \A d \in Callers : d # c => req'[d] = req[d],
           \A h \in Hosts : h \notin {req[c].host, req[c].dest} =>
                table'[h] = table[h] /\ files'[h] = files[h] /\ (h \in unsaved' <=> h \in unsaved)
    PROVE  Local(c)
<1> USE DEF ExInv
<1>0. req[c].ept # None => heap[req[c].ept].name = req[c].dest
  BY DEF Inv, Held, HeldBy
<1>1. ASSUME NEW h \in Hosts, h \notin {req[c].host, req[c].dest}, table[h] # None
      PROVE  heap'[table[h]] = heap[table[h]]
  <2>1. table[h] \in Objects /\ heap[table[h]].name = h
    BY <1>1 DEF Inv, TypeOK, Listed
  <2>2. table[h] # req[c].ept
    BY <1>0, <1>1, <2>1
  <2> QED
    BY <1>1, <2>1, <2>2, KeptFrom
<1>2. ASSUME NEW d \in Callers, d # c, req[d].ept # None
      PROVE  heap'[req[d].ept] = heap[req[d].ept]
  <2>1. req[d].pc # "idle" /\ req[d].ept \in Objects
    BY <1>2 DEF Inv, TypeOK, Request, Held, HeldBy, Fits, NoRequest
  <2>2. heap[req[d].ept].name = req[d].dest
    BY <1>2 DEF Inv, Held, HeldBy
  <2>3. req[d].dest # req[c].dest
    BY <1>2, <2>1 DEF Apart
  <2>4. req[d].ept # req[c].ept
    BY <1>0, <1>2, <2>2, <2>3
  <2> QED
    BY <1>2, <2>1, <2>4, KeptFrom
<1> QED
  BY <1>1, <1>2 DEF Local

LEMMA ChangeLocal ==
    ASSUME ExInv, NEW c \in Callers, req[c].ept # None, req[c].pc # "idle",
           \A d \in Callers : d # c => req'[d] = req[d],
           NEW e, heap' = [heap EXCEPT ![req[c].ept] = e],
           \A h \in Hosts : h \notin {req[c].host, req[c].dest} =>
                files'[h] = files[h] /\ (h \in unsaved' <=> h \in unsaved),
           table' = table
    PROVE  Local(c)
<1> USE DEF ExInv
<1>1. heap[req[c].ept].name = req[c].dest
  BY DEF Inv, Held, HeldBy
<1>2. ASSUME NEW h \in Hosts, h \notin {req[c].host, req[c].dest}, table[h] # None
      PROVE  heap'[table[h]] = heap[table[h]]
  BY <1>1, <1>2 DEF Inv, TypeOK, Listed
<1>3. ASSUME NEW d \in Callers, d # c, req[d].ept # None
      PROVE  heap'[req[d].ept] = heap[req[d].ept]
  <2>1. req[d].pc # "idle"
    BY <1>3 DEF Inv, Held, HeldBy, Fits, NoRequest
  <2>2. heap[req[d].ept].name = req[d].dest
    BY <1>3 DEF Inv, Held, HeldBy
  <2>3. req[d].dest # req[c].dest
    BY <1>3, <2>1 DEF Apart
  <2> QED
    BY <1>1, <1>3, <2>2, <2>3 DEF Inv, TypeOK, Request
<1> QED
  BY <1>2, <1>3 DEF Local

\* The steps that meet an error: it strikes one of the hosts of the request, and
\* what runs and what is saved stays as it was.
Failing(c) ==
    \/ UnfileFails(c) \/ AttachRefused(c) \/ PrepareFails(c)
    \/ AddRefused(c) \/ SaveFails(c)

LEMMA FailingForms ==
    ASSUME Inv, NEW c \in Callers, Failing(c)
    PROVE  /\ table' = table /\ files' = files
           /\ \E h \in {req[c].host, req[c].dest} : unsaved' = unsaved \cup {h}
           /\ req[c].pc # "unfile" => unsaved' = unsaved \cup {req[c].dest}
           /\ \A h \in Hosts : table[h] # None => heap'[table[h]].data = heap[table[h]].data
           /\ \/ heap' = heap
              \/ \E g : CollectFrom(g) /\ \A o \in Objects : o # req[c].ept => g[o] = heap[o]
           /\ req[c].pc \in {"unfile", "attach", "prepare", "add", "save", "write"}
           /\ req'[c].pc = "idle" \/ AddRefused(c)
<1>0. req \in [Callers -> Request] /\ \A h \in Hosts : table[h] # None => table[h] \in Objects
  BY DEF Inv, TypeOK
<1>1. req[c].pc \notin {"idle", "unlist", "unfile"} => heap[req[c].ept].name = req[c].dest
  BY DEF Inv, Held, HeldBy, Fits
<1>2. Return(c) => req'[c].pc = "idle"
  BY <1>0 DEF Return, NoRequest
<1>3. CASE UnfileFails(c)
  BY <1>0, <1>2, <1>3, Kept DEF UnfileFails, At, Collect
<1>4. CASE AttachRefused(c) \/ SaveFails(c)
  <2>1. /\ req[c].pc \in {"attach", "save", "write"}
        /\ table' = table /\ files' = files /\ Return(c) /\ Collect
        /\ unsaved' = unsaved \cup {heap[req[c].ept].name}
    BY <1>4 DEF AttachRefused, SaveFails, GiveUp, At
  <2> QED
    BY <1>0, <1>1, <1>2, <2>1, Kept DEF Collect
<1>5. CASE AddRefused(c)
  BY <1>1, <1>5 DEF AddRefused, At
<1>6. CASE PrepareFails(c)
  <2>1. PICK e \in Endpoint : /\ e.data = heap[req[c].ept].data
                              /\ CollectFrom([heap EXCEPT ![req[c].ept] = e])
    BY <1>6, PrepareFailsForm
  <2> DEFINE g == [heap EXCEPT ![req[c].ept] = e]
  <2>2. req[c].ept \in Objects /\ heap \in [Objects -> Endpoint \cup {None}]
    BY <1>6, PrepareFailsForm DEF Inv, TypeOK
  <2>3. \A o \in Objects : g[o].data = heap[o].data /\ (o # req[c].ept => g[o] = heap[o])
    BY <2>1, <2>2
  <2>4. /\ req[c].pc = "prepare" /\ table' = table /\ files' = files /\ Return(c)
        /\ unsaved' = unsaved \cup {heap[req[c].ept].name}
    BY <1>6 DEF PrepareFails, GiveUp, At
  <2>5. CollectFrom(g)
    BY <2>1
  <2> HIDE DEF g
  <2>6. ASSUME NEW h \in Hosts, table[h] # None PROVE heap'[table[h]].data = heap[table[h]].data
    BY <1>0, <2>3, <2>4, <2>5, <2>6, KeptFrom
  <2> QED
    BY <1>1, <1>2, <2>3, <2>4, <2>5, <2>6
<1> QED
  BY <1>3, <1>4, <1>5, <1>6 DEF Failing

\* What a step does to its request, to the files, and with them to the hosts
\* it leaves unsaved.
LEMMA StepForms ==
    ASSUME Inv, NEW c \in Callers, Step(c)
    PROVE  /\ req[c].pc # "idle"
           /\ \/ files' = files /\ unsaved' = unsaved
              \/ Unfile(c) \/ SaveOpen(c) \/ SaveWrite(c) \/ Failing(c)
           /\ \/ req'[c].pc = "idle"
              \/ /\ req'[c].host = req[c].host /\ req'[c].dest = req[c].dest
                 /\ req'[c].ept = req[c].ept
           /\ \A d \in Callers : d # c => req'[d] = req[d]
<1> DEFINE Moved == /\ \/ req'[c].pc = "idle"
                       \/ /\ req'[c].host = req[c].host /\ req'[c].dest = req[c].dest
                          /\ req'[c].ept = req[c].ept
                    /\ \A d \in Callers : d # c => req'[d] = req[d]
           Saved == files' = files /\ unsaved' = unsaved
<1>1. req[c] \in Request /\ req \in [Callers -> Request]
  BY DEF Inv, TypeOK
<1>2. ASSUME NEW to \in PC, Goto(c, to) PROVE Moved
  BY <1>1, <1>2 DEF Goto, Request
<1>3. ASSUME Return(c) PROVE Moved
  BY <1>1, <1>3 DEF Return, NoRequest
<1>4. ASSUME Unlist(c) \/ Readd(c) \/ Append(c) \/ AppendRefused(c) \/ Remove(c) \/ AddToRuntime(c)
      PROVE  req[c].pc # "idle" /\ Moved /\ Saved
  BY <1>4, <1>2, <1>3 DEF Unlist, Readd, Append, AppendRefused, Remove, AddToRuntime, At, PC
<1>5. ASSUME Unfile(c) PROVE req[c].pc # "idle" /\ Moved
  BY <1>5, <1>2, <1>3 DEF Unfile, At, PC
<1>6. ASSUME Attach(c) \/ Prepare(c) PROVE req[c].pc # "idle" /\ Moved /\ Saved
  <2>1. Moved
    BY <1>1, <1>6 DEF Attach, Prepare, Request
  <2> QED
    BY <1>6, <2>1 DEF Attach, Prepare, At
<1>7. ASSUME SaveOpen(c) PROVE req[c].pc # "idle" /\ Moved
  <2>1. Moved
    BY <1>1, <1>7 DEF SaveOpen, Request
  <2> QED
    BY <1>7, <2>1 DEF SaveOpen, At
<1>8. ASSUME SaveWrite(c) PROVE req[c].pc # "idle" /\ Moved
  BY <1>8, <1>3 DEF SaveWrite, At
<1>9. ASSUME Failing(c) PROVE req[c].pc # "idle" /\ Moved
  <2>1. req[c].pc # "idle"
    BY <1>9, FailingForms
  <2>2. CASE AddRefused(c)
    BY <1>2, <2>1, <2>2 DEF AddRefused, PC
  <2>3. CASE Return(c)
    BY <1>3, <2>1, <2>3
  <2> QED
    BY <1>9, <2>2, <2>3 DEF Failing, UnfileFails, AttachRefused, PrepareFails,
                            SaveFails, GiveUp
<1> QED
  BY <1>4, <1>5, <1>6, <1>7, <1>8, <1>9 DEF Step, Failing

LEMMA StepLocal ==
    ASSUME ExInv, NEW c \in Callers, Step(c)
    PROVE  Inv' /\ Apart' /\ Local(c) /\ Own(c)
<1> USE DEF ExInv
<1>1. Inv'
  BY StepInv
<1>2. /\ req[c].pc # "idle"
      /\ \A d \in Callers : d # c => req'[d] = req[d]
      /\ req'[c].pc # "idle" =>
            req'[c].host = req[c].host /\ req'[c].dest = req[c].dest /\ req'[c].ept = req[c].ept
  BY StepForms
<1>3. Apart'
  BY <1>2 DEF Apart
<1>4. SUFFICES Local(c) /\ Own(c)
  BY <1>1, <1>3
<1>5. PICK r \in Request : r = req[c]
  BY DEF Inv, TypeOK
<1>6. PICK n \in Request : n = req'[c]
  BY <1>1 DEF Inv, TypeOK
<1>7. /\ r.pc # "idle" /\ Fits(r) /\ r.host \in Hosts /\ r.dest \in Hosts
      /\ r.ept # None => /\ r.ept \in Objects
                         /\ heap[r.ept] \in Endpoint /\ heap[r.ept].name = r.dest
  BY <1>2, <1>5 DEF Inv, Held, HeldBy, Fits, Request
<1>8. n.pc # "idle" => n.host = r.host /\ n.dest = r.dest /\ n.ept = r.ept
  BY <1>2, <1>5, <1>6
<1>9. Progress(r)
  BY <1>5
<1>10. /\ r.pc \notin {"unlist", "unfile"} => r.ept # None
       /\ r.pc \in {"readd", "attach", "append", "prepare", "remove"} => r.dest = r.host
  BY <1>7 DEF Fits
<1>11. ASSUME NEW g, CollectFrom(g), \A o \in Objects : o # r.ept => g[o] = heap[o],
              \A h \in Hosts : h \notin {r.host, r.dest} =>
                  table'[h] = table[h] /\ files'[h] = files[h] /\ (h \in unsaved' <=> h \in unsaved)
       PROVE  Local(c)
  BY <1>2, <1>5, <1>11, CollectLocal
<1>12. ASSUME NEW e, heap' = [heap EXCEPT ![r.ept] = e], r.ept # None, table' = table,
              \A h \in Hosts : h \notin {r.host, r.dest} =>
                  files'[h] = files[h] /\ (h \in unsaved' <=> h \in unsaved)
       PROVE  Local(c)
  BY <1>2, <1>5, <1>12, ChangeLocal
<1>13. ASSUME n.pc # "idle" => Progress(n)',
              n.pc = "idle" => Agrees(r.host)' /\ Agrees(r.dest)'
       PROVE  Own(c)
  BY <1>2, <1>5, <1>6, <1>13 DEF Own
\* The object stays as it is, as long as the handler goes on.
<1>14. ASSUME n.pc # "idle", n.ept # None, Collect \/ heap' = heap PROVE heap'[n.ept] = heap[n.ept]
  BY <1>6, <1>7, <1>8, <1>14, Kept
<1>15. CASE Unlist(c)
  <2>1. /\ r.pc = "unlist" /\ table' = [table EXCEPT ![r.host] = None]
        /\ files' = files /\ unsaved' = unsaved /\ Collect
    BY <1>5, <1>15 DEF Unlist, At
  <2>2. table'[r.host] = None /\ \A h \in Hosts : h # r.host => table'[h] = table[h]
    BY <1>7, <2>1 DEF Inv, TypeOK
  <2>3. Local(c)
    BY <1>11, <2>1, <2>2 DEF Collect
  <2>4. r.dest # r.host => table'[r.dest] = None /\ Agrees(r.dest)'
    BY <1>7, <1>9, <2>1, <2>2, AgreesKept DEF Progress
  <2>5. CASE table[r.host] # None
    <3>1. n.pc = "unfile"
      BY <1>5, <1>6, <1>15, <2>5 DEF Unlist, Goto, Inv, TypeOK, Request
    <3>2. n.ept # None => Promise(n, heap[n.ept].data)'
      BY <1>8, <1>9, <1>14, <2>1, <3>1 DEF Promise, Progress
    <3> QED
      BY <1>8, <1>13, <2>2, <2>3, <2>4, <3>1, <3>2 DEF Progress
  <2>6. CASE table[r.host] = None
    <3>1. n.pc = "idle"
      BY <1>5, <1>6, <1>15, <2>6 DEF Unlist, Return, NoRequest, Inv, TypeOK
    <3>2. Agrees(r.host)'
      BY <1>7, <1>9, <2>1, <2>2, <2>6, AgreesKept DEF Progress
    <3> QED
      BY <1>13, <2>3, <2>4, <3>1, <3>2
  <2> QED
    BY <2>5, <2>6
<1>16. CASE Unfile(c)
  <2>1. /\ r.pc = "unfile" /\ files' = [files EXCEPT ![r.host] = None]
        /\ table' = table /\ unsaved' = unsaved /\ Collect
    BY <1>5, <1>16 DEF Unfile, At
  <2>2. files'[r.host] = None /\ \A h \in Hosts : h # r.host => files'[h] = files[h]
    BY <1>7, <2>1 DEF Inv, TypeOK
  <2>3. Local(c)
    BY <1>11, <2>1, <2>2 DEF Collect
  <2>4. table'[r.host] = None /\ Agrees(r.host)'
    BY <1>7, <1>9, <2>1, <2>2, AgreesGone DEF Progress
  <2>5. r.dest # r.host => Agrees(r.dest)'
    BY <1>7, <1>9, <2>1, <2>2, AgreesKept DEF Progress
  <2>6. n.pc = "idle" \/ (n.pc = "add" /\ r.dest # r.host)
    BY <1>5, <1>6, <1>16 DEF Unfile, Goto, Return, NoRequest, Inv, TypeOK, Request
  <2>7. n.pc = "add" /\ n.ept # None => Promise(n, heap[n.ept].data)'
    BY <1>8, <1>9, <1>14, <2>1 DEF Promise, Progress
  <2> QED
    BY <1>8, <1>13, <2>2, <2>3, <2>4, <2>5, <2>6, <2>7 DEF Progress
<1>17. CASE Readd(c)
  <2>1. /\ r.pc = "readd" /\ table' = [table EXCEPT ![r.dest] = r.ept]
        /\ files' = files /\ unsaved' = unsaved /\ Collect
    BY <1>5, <1>7, <1>10, <1>17 DEF Readd, At
  <2>2. \A h \in Hosts : h # r.dest => table'[h] = table[h]
    BY <1>7, <2>1 DEF Inv, TypeOK
  <2>3. Local(c)
    BY <1>11, <2>1, <2>2 DEF Collect
  <2>4. n.pc = "attach"
    BY <1>5, <1>6, <1>17 DEF Readd, Goto, Inv, TypeOK, Request
  <2>5. Promise(n, heap[n.ept].data)'
    BY <1>8, <1>9, <1>10, <1>14, <2>1, <2>4 DEF Promise, Progress
  <2> QED
    BY <1>8, <1>10, <1>13, <2>1, <2>3, <2>4, <2>5 DEF Progress
<1>18. CASE Attach(c)
  <2>1. /\ r.pc = "attach" /\ r.ept # None /\ n.pc = "add"
        /\ table' = table /\ files' = files /\ unsaved' = unsaved
    BY <1>5, <1>6, <1>10, <1>18 DEF Attach, At, Inv, TypeOK, Request
  <2>2. heap' = [heap EXCEPT ![r.ept] = [heap[r.ept] EXCEPT !.data.ups = @ \cup {r.arg}]]
    BY <1>5, <1>7, <1>18, <2>1 DEF Attach, Change, Inv, TypeOK, Endpoint
  <2>3. heap'[r.ept].data.vdirs = heap[r.ept].data.vdirs
    BY <1>7, <2>1, <2>2 DEF Inv, TypeOK, Endpoint, Data
  <2>4. Local(c)
    BY <1>12, <2>1, <2>2
  <2>5. Promise(n, heap[n.ept].data)'
    BY <1>8, <1>9, <2>1, <2>3 DEF Promise, Progress, Prepares
  <2> QED
    BY <1>8, <1>10, <1>13, <2>1, <2>4, <2>5 DEF Progress
<1>19. CASE Append(c) \/ Prepare(c)
  <2>1. /\ r.pc \in {"append", "prepare"} /\ r.ept # None
        /\ table' = table /\ files' = files /\ unsaved' = unsaved
    BY <1>5, <1>10, <1>19 DEF Append, Prepare, At
  <2>2. \E e : heap' = [heap EXCEPT ![r.ept] = e]
    BY <1>5, <1>19 DEF Append, Prepare
  <2>3. Local(c)
    BY <1>12, <2>1, <2>2
  <2>4. n.pc = "prepare" \/ (n.pc \in {"remove", "add"} /\ Prepares(heap'[r.ept].data))
    <3>1. CASE Append(c)
      BY <1>5, <1>6, <3>1 DEF Append, Goto, Inv, TypeOK, Request
    <3>2. CASE Prepare(c)
      <4>1. n.pc \in {"remove", "add"}
        BY <1>5, <1>6, <3>2 DEF Prepare, Inv, TypeOK, Request
      <4>2. heap'[r.ept].data = heap[r.ept].data /\ Prepares(heap[r.ept].data)
        BY <1>5, <1>7, <2>1, <3>2 DEF Prepare, Prepared, Inv, TypeOK
      <4> QED
        BY <4>1, <4>2
    <3> QED
      BY <1>19, <3>1, <3>2
  <2>5. Promise(n, heap[n.ept].data)'
    BY <1>8, <2>4 DEF Promise
  <2> QED
    BY <1>8, <1>10, <1>13, <2>1, <2>3, <2>4, <2>5 DEF Progress
<1>20. CASE Failing(c)
  <2>1. /\ table' = table /\ files' = files
        /\ \E h \in {r.host, r.dest} : unsaved' = unsaved \cup {h}
        /\ r.pc # "unfile" => unsaved' = unsaved \cup {r.dest}
        /\ r.pc \in {"unfile", "attach", "prepare", "add", "save", "write"}
        /\ n.pc = "idle" \/ AddRefused(c)
    BY <1>5, <1>6, <1>20, FailingForms
  <2>2. Local(c)
    <3>1. CASE heap' = heap
      BY <1>2, <1>5, <2>1, <3>1 DEF Local
    <3>2. CASE \E g : CollectFrom(g) /\ \A o \in Objects : o # r.ept => g[o] = heap[o]
      BY <1>11, <2>1, <3>2
    <3> QED
      BY <1>5, <1>20, <3>1, <3>2, FailingForms
  <2>3. CASE AddRefused(c)
    <3>1. /\ r.pc = "add" /\ n.pc = "save" /\ ~Lists(heap[r.ept].data) /\ heap' = heap
      BY <1>5, <1>6, <2>3 DEF AddRefused, At, Goto, Inv, TypeOK, Request
    <3>2. Promise(n, heap[n.ept].data)'
      BY <1>8, <2>1, <3>1 DEF Promise
    <3> QED
      BY <1>8, <1>9, <1>13, <2>1, <2>2, <3>1, <3>2 DEF Progress
  <2>4. CASE n.pc = "idle"
    <3>1. CASE r.pc = "unfile"
      <4>1. unsaved' = unsaved \cup {r.host}
        BY <1>5, <1>20, <3>1 DEF Failing, UnfileFails, AttachRefused, PrepareFails,
                                 AddRefused, SaveFails, At
      <4>2. Agrees(r.host)'
        BY <4>1 DEF Agrees
      <4>3. r.dest # r.host => Agrees(r.dest)'
        BY <1>7, <1>9, <2>1, <3>1, AgreesKept DEF Progress
      <4> QED
        BY <1>13, <2>2, <2>4, <4>2, <4>3
    <3>2. CASE r.pc # "unfile"
      <4>1. Agrees(r.dest)'
        BY <2>1, <3>2 DEF Agrees
      <4>2. r.dest # r.host => Agrees(r.host)'
        BY <1>7, <1>9, <1>10, <2>1, <3>2, AgreesGone DEF Progress
      <4> QED
        BY <1>13, <2>2, <2>4, <4>1, <4>2
    <3> QED
      BY <3>1, <3>2
  <2> QED
    BY <2>1, <2>3, <2>4
<1>21. CASE Remove(c)
  <2>1. /\ r.pc = "remove" /\ table' = [table EXCEPT ![r.host] = None]
        /\ files' = files /\ unsaved' = unsaved /\ Collect
    BY <1>5, <1>21 DEF Remove, At
  <2>2. \A h \in Hosts : h # r.host => table'[h] = table[h]
    BY <1>7, <2>1 DEF Inv, TypeOK
  <2>3. Local(c)
    BY <1>11, <2>1, <2>2 DEF Collect
  <2>4. n.pc = "add"
    BY <1>5, <1>6, <1>21 DEF Remove, Goto, Inv, TypeOK, Request
  <2>5. Promise(n, heap[n.ept].data)'
    BY <1>8, <1>9, <1>10, <1>14, <2>1, <2>4 DEF Promise, Progress
  <2> QED
    BY <1>8, <1>10, <1>13, <2>1, <2>3, <2>4, <2>5 DEF Progress
<1>22. CASE AddToRuntime(c)
  <2>1. /\ r.pc = "add" /\ table' = [table EXCEPT ![r.dest] = r.ept]
        /\ files' = files /\ unsaved' = unsaved /\ Collect /\ Lists(heap[r.ept].data)
    BY <1>5, <1>7, <1>10, <1>22 DEF AddToRuntime, At
  <2>2. table'[r.dest] = r.ept /\ \A h \in Hosts : h # r.dest => table'[h] = table[h]
    BY <1>7, <2>1 DEF Inv, TypeOK
  <2>3. Local(c)
    BY <1>11, <2>1, <2>2 DEF Collect
  <2>4. n.pc = "save"
    BY <1>5, <1>6, <1>22 DEF AddToRuntime, Goto, Inv, TypeOK, Request
  <2>5. r.dest # r.host => table'[r.host] = None /\ files'[r.host] = None
    BY <1>7, <1>9, <2>1, <2>2 DEF Progress
  <2>6. Promise(n, heap[n.ept].data)'
    BY <1>8, <1>9, <1>10, <1>14, <2>1, <2>2, <2>4 DEF Promise, Progress, Loads
  <2> QED
    BY <1>8, <1>13, <2>3, <2>4, <2>5, <2>6 DEF Progress
<1>23. CASE SaveOpen(c)
  <2>1. /\ r.pc = "save" /\ r.ept # None /\ files' = [files EXCEPT ![r.dest] = Torn]
        /\ table' = table /\ heap' = heap /\ unsaved' = unsaved
    BY <1>5, <1>7, <1>10, <1>23 DEF SaveOpen, At
  <2>2. files'[r.dest] = Torn /\ \A h \in Hosts : h # r.dest => files'[h] = files[h]
    BY <1>7, <2>1 DEF Inv, TypeOK
  <2>3. heap' = [heap EXCEPT ![r.ept] = heap[r.ept]]
    BY <2>1 DEF Inv, TypeOK
  <2>4. Local(c)
    BY <1>12, <2>1, <2>2, <2>3
  <2>5. n.pc = "write" /\ n.text = heap[r.ept].data
    BY <1>5, <1>6, <1>23 DEF SaveOpen, Inv, TypeOK, Request
  <2>6. r.dest # r.host => table'[r.host] = None /\ files'[r.host] = None
    BY <1>7, <1>9, <2>1, <2>2 DEF Progress
  <2>7. OnDisk(r.dest)' = None
    BY <2>2, FileAssumption DEF OnDisk
  <2>8. Promise(n, heap[n.ept].data)'
    BY <1>8, <1>9, <2>1, <2>5 DEF Promise, Progress
  <2> QED
    BY <1>8, <1>13, <2>4, <2>5, <2>6, <2>7, <2>8 DEF Progress
<1>24. CASE SaveWrite(c)
  <2>1. /\ r.pc = "write" /\ r.ept # None /\ files' = [files EXCEPT ![r.dest] = r.text]
        /\ table' = table /\ Collect /\ n.pc = "idle"
        /\ unsaved' = IF table[r.dest] = r.ept /\ Loads(r.text) THEN unsaved \ {r.dest} ELSE unsaved
    BY <1>5, <1>6, <1>7, <1>10, <1>24 DEF SaveWrite, At, Return, NoRequest, Inv, TypeOK
  <2>2. files'[r.dest] = r.text /\ \A h \in Hosts : h # r.dest => files'[h] = files[h]
    BY <1>7, <2>1 DEF Inv, TypeOK
  <2>3. Local(c)
    BY <1>11, <2>1, <2>2 DEF Collect
  <2>4. /\ r.text = heap[r.ept].data /\ r.text \in Data
        /\ table[r.dest] = r.ept \/ ~Lists(r.text)
        /\ Loads(r.text) \/ r.dest \in unsaved
    BY <1>7, <1>9, <2>1 DEF Progress, Promise, Fits
  <2>5. Agrees(r.dest)'
    <3>1. CASE Loads(r.text)
      <4>1. table'[r.dest] = r.ept
        BY <2>1, <2>4, <3>1 DEF Loads
      <4>2. heap'[r.ept] = heap[r.ept]
        BY <1>7, <2>1, <4>1, Kept
      <4> QED
        BY <2>1, <2>2, <2>4, <3>1, <4>1, <4>2 DEF Agrees, Running, OnDisk, Found
    <3>2. CASE ~Loads(r.text)
      BY <2>1, <2>4, <3>2 DEF Agrees
    <3> QED
      BY <3>1, <3>2
  <2>6. r.dest # r.host => Agrees(r.host)'
    BY <1>7, <1>9, <2>1, <2>2, AgreesGone DEF Progress
  <2> QED
    BY <1>13, <2>1, <2>3, <2>5, <2>6
<1>25. CASE AppendRefused(c)
  <2>1. /\ r.pc = "append" /\ r.ept # None /\ r.arg \in heap[r.ept].data.vdirs
        /\ table' = table /\ files' = files /\ unsaved' = unsaved /\ Collect /\ n.pc = "idle"
    BY <1>5, <1>6, <1>10, <1>25 DEF AppendRefused, At, Return, NoRequest, Inv, TypeOK
  <2>2. Local(c)
    BY <1>11, <2>1 DEF Collect
  <2>3. r.dest = r.host /\ Agrees(r.host)
    BY <1>9, <1>10, <2>1 DEF Progress, Promise
  <2>4. table[r.host] # None => heap'[table[r.host]] = heap[table[r.host]]
    BY <1>7, <2>1, Kept DEF Inv, TypeOK
  <2>5. Agrees(r.host)'
    BY <1>7, <2>1, <2>3, <2>4, AgreesKept
  <2> QED
    BY <1>13, <2>1, <2>2, <2>3, <2>5
<1> QED
  BY <1>15, <1>16, <1>17, <1>18, <1>19, <1>20, <1>21, <1>22, <1>23, <1>24, <1>25 DEF Step, Failing

LEMMA StepExInv ==
    ASSUME ExInv, NEW c \in Callers, Step(c)
    PROVE  ExInv'
BY StepLocal, LocalPreserves

\* A restart brings back what is saved.
LEMMA RestartAgrees ==
    ASSUME Inv, Restart, NEW h \in Hosts
    PROVE  Running(h)' = OnDisk(h) /\ OnDisk(h)' = OnDisk(h)
<1>1. OnDisk(h)' = OnDisk(h)
  BY DEF Restart, OnDisk
<1>2. CASE OnDisk(h) # None
  <2>1. table'[h] \in Objects /\ heap'[table'[h]] = Prepared(h, OnDisk(h))
    BY <1>2, Loaded
  <2>2. table'[h] # None /\ heap'[table'[h]].data = OnDisk(h)
    BY <2>1, EndpointAssumption DEF Prepared
  <2> QED
    BY <1>1, <2>2 DEF Running, Found
<1>3. CASE OnDisk(h) = None
  BY <1>1, <1>3, Loaded DEF Running
<1> QED
  BY <1>1, <1>2, <1>3

LEMMA RestartExInv ==
    ASSUME ExInv, Restart
    PROVE  ExInv'
<1> USE DEF ExInv
<1>1. Inv'
  BY RestartInv
<1>2. req' = [c \in Callers |-> NoRequest]
  BY DEF Restart
<1>3. Apart' /\ \A c \in Callers : Progress(req[c])'
  BY <1>2 DEF Apart, Progress, NoRequest
<1>4. Durable'
  BY RestartAgrees DEF Durable
<1> QED
  BY <1>1, <1>3, <1>4

LEMMA StutterExInv == ASSUME ExInv, UNCHANGED vars PROVE ExInv'
<1>1. Inv'
  BY StutterInv DEF ExInv
<1> QED
  BY <1>1 DEF ExInv, Apart, Progress, Promise, Agrees, Running, OnDisk, Found, Durable, Busy, vars

LEMMA NextExInv ==
    ASSUME ExInv, Exclusive, [Next]_vars
    PROVE  ExInv'
<1>1. CASE Restart
  BY <1>1, RestartExInv
<1>2. ASSUME NEW c \in Callers, Arrive(c) PROVE ExInv'
  BY <1>2, ArriveForms, ArriveExInv DEF ExInv
<1>3. ASSUME NEW c \in Callers, Step(c) PROVE ExInv'
  BY <1>3, StepExInv
<1>4. CASE UNCHANGED vars
  BY <1>4, StutterExInv
<1> QED
  BY <1>1, <1>2, <1>3, <1>4 DEF Next

LEMMA ExInvSuffices ==
    ASSUME ExInv
    PROVE  Durable /\ RenamedOnce
<1> SUFFICES ASSUME NEW c \in Callers, req[c].pc # "idle", req[c].dest # req[c].host
             PROVE  \/ OnDisk(req[c].host) = None \/ OnDisk(req[c].dest) = None
                    \/ req[c].dest \in unsaved
  BY DEF RenamedOnce, ExInv
<1>1. req[c].pc \in {"unlist", "unfile", "add", "save", "write"} /\ Progress(req[c])
  BY DEF ExInv, Inv, Held, HeldBy, Fits
<1>2. CASE req[c].pc \in {"unlist", "unfile"}
  BY <1>1, <1>2 DEF Progress, Agrees, Running
<1>3. CASE req[c].pc \in {"add", "save", "write"}
  BY <1>1, <1>3, FileAssumption DEF Progress, OnDisk
<1> QED
  BY <1>1, <1>2, <1>3

\* As long as requests in progress are about different hosts, a restart loads
\* what ran: the object and the file of a host agree whenever no request is about
\* it and no error has struck it since it was last saved as it runs; and a host that
\* is being renamed is never saved twice.
THEOREM FilesAgree ==
    ASSUME Exclusive
    PROVE  Spec => [](Durable /\ RenamedOnce)
<1> HIDE DEF ExInv
<1> QED
  BY InitExInv, NextExInv, ExInvSuffices, PTL DEF Spec

-----------------------------------------------------------------------------
(* The table implements HostStore *)

\* The hosts of a request in progress, and of one that is over.
LEMMA HostsOfRequests ==
    ASSUME Inv, NEW c \in Callers
    PROVE  /\ req[c].pc = "idle" => HostsOf(c) = {}
           /\ req[c].pc # "idle" => HostsOf(c) = {req[c].host, req[c].dest}
           /\ HostsOf(c) \subseteq Hosts
<1>1. req[c].pc = "idle" => req[c] = NoRequest
  BY DEF Inv, Held, HeldBy, Fits
<1>2. req[c].pc # "idle" => req[c].host \in Hosts /\ req[c].dest \in Hosts
  BY DEF Inv, Held, HeldBy, Fits
<1> QED
  BY <1>1, <1>2, EndpointAssumption DEF HostsOf, NoRequest

\* What runs of a host is its table entry and what is saved of the object there.
LEMMA RunningSame ==
    ASSUME NEW h \in Hosts, table'[h] = table[h],
           table[h] # None => heap'[table[h]].data = heap[table[h]].data
    PROVE  Running(h)' = Running(h)
BY DEF Running, Found

\* A step of one request is a change of its hosts alone.
LEMMA OthersStay ==
    ASSUME NEW c \in Callers, \A d \in Callers : d # c => req'[d] = req[d]
    PROVE  [d \in Callers |-> HostsOf(d)]' = [[d \in Callers |-> HostsOf(d)] EXCEPT ![c] = HostsOf(c)']
BY DEF HostsOf

LEMMA ArriveHosts ==
    ASSUME Inv, Exclusive, NEW c \in Callers, Arrived(c)
    PROVE  \E h \in Hosts, m \in Hosts :
               /\ req[c].pc = "idle" /\ ~Busy(h) /\ ~Busy(m)
               /\ req'[c].pc # "idle" /\ req'[c].host = h /\ req'[c].dest = m
               /\ m # h => table[m] = None
<1>1. CASE \E h \in Hosts, m \in Hosts, o \in Objects, to \in PC : Fresh(c, h, m, o, to)
  BY <1>1 DEF Fresh, Begin, Inv, TypeOK
<1>2. CASE \E h \in Hosts, a \in Upstreams \cup Vdirs \cup {None}, to \in PC : InPlace(c, h, a, to)
  BY <1>2 DEF InPlace, Begin, Inv, TypeOK
<1>3. CASE \E h \in Hosts : NoObject(c, h)
  BY <1>3 DEF NoObject, Begin, Inv, TypeOK
<1> QED
  BY <1>1, <1>2, <1>3 DEF Arrived

LEMMA ArriveStore ==
    ASSUME ExInv, Exclusive, NEW c \in Callers, Arrived(c)
    PROVE  Store!StoreNext
<1>1. Inv /\ Inv' /\ Local(c)
  BY ArriveLocal DEF ExInv
<1>2. PICK h \in Hosts, m \in Hosts :
          /\ req[c].pc = "idle" /\ ~Busy(h) /\ ~Busy(m)
          /\ req'[c].pc # "idle" /\ req'[c].host = h /\ req'[c].dest = m
          /\ m # h => table[m] = None
  BY <1>1, ArriveHosts
<1>3. HostsOf(c) = {} /\ HostsOf(c)' = {h, m}
  <2>1. HostsOf(c) = {}
    BY <1>1, <1>2, HostsOfRequests
  <2> QED
    BY <1>2, <2>1, EndpointAssumption DEF HostsOf
<1>4. ASSUME NEW d \in Callers PROVE HostsOf(d) \cap {h, m} = {}
  BY <1>1, <1>2, HostsOfRequests DEF Busy
<1>5. [d \in Callers |-> HostsOf(d)]' = [[d \in Callers |-> HostsOf(d)] EXCEPT ![c] = {h, m}]
  BY <1>1, <1>3, OthersStay DEF Local
<1>6. table' = table /\ files' = files /\ unsaved' = unsaved
  BY DEF Arrived
<1>7. m # h => Running(m) = None
  BY <1>2 DEF Running
<1>8. ASSUME NEW g \in Hosts, g # h PROVE Running(g)' = Running(g)
  <2>1. CASE g = m
    BY <1>2, <1>6, <1>8, <2>1 DEF Running
  <2>2. CASE g # m
    <3>1. g \notin {req[c].host, req[c].dest, req'[c].host, req'[c].dest}
      <4>1. req[c].host = None /\ req[c].dest = None
        BY <1>1, <1>2 DEF Inv, Held, HeldBy, Fits, NoRequest
      <4> QED
        BY <1>2, <1>8, <2>2, <4>1, EndpointAssumption
    <3>2. table[g] # None => heap'[table[g]] = heap[table[g]]
      BY <1>1, <3>1 DEF Local
    <3> QED
      BY <1>6, <3>2, RunningSame
  <2> QED
    BY <2>1, <2>2
<1>9. [g \in Hosts |-> OnDisk(g)]' = [g \in Hosts |-> OnDisk(g)]
  BY <1>6 DEF OnDisk
<1>10. Store!Arrives(c, h, m)
  BY <1>3, <1>4, <1>5, <1>6, <1>7, <1>8, <1>9 DEF Store!Arrives, Store!OnlyOf
<1> QED
  BY <1>10 DEF Store!StoreNext

\* The table and the listed objects are left alone.
LEMMA RunningKept ==
    ASSUME Inv, table' = table, Collect \/ heap' = heap
    PROVE  [h \in Hosts |-> Running(h)]' = [h \in Hosts |-> Running(h)]
<1> SUFFICES ASSUME NEW h \in Hosts PROVE Running(h)' = Running(h)
  OBVIOUS
<1>1. table[h] # None => table[h] \in Objects
  BY DEF Inv, TypeOK
<1>2. table[h] # None => heap'[table[h]] = heap[table[h]]
  BY <1>1, Kept
<1> QED
  BY <1>2, RunningSame

LEMMA StepStore ==
    ASSUME ExInv, NEW c \in Callers, Step(c)
    PROVE  Store!StoreNext
<1> DEFINE about == [d \in Callers |-> HostsOf(d)]
           saved == [h \in Hosts |-> OnDisk(h)]
           config == [h \in Hosts |-> Running(h)]
<1>1. Inv /\ Inv' /\ Local(c) /\ Own(c) /\ Progress(req[c])
  BY StepLocal DEF ExInv
<1>2. PICK r \in Request : r = req[c]
  BY <1>1 DEF Inv, TypeOK
<1>3. /\ r.pc # "idle" /\ r.host \in Hosts /\ r.dest \in Hosts /\ Fits(r)
      /\ r.ept # None => heap[r.ept] \in Endpoint /\ heap[r.ept].name = r.dest
  BY <1>1, <1>2, StepForms DEF Inv, Held, HeldBy, Fits
<1>4. HostsOf(c) = {r.host, r.dest} /\ HostsOf(c) \subseteq Hosts
  BY <1>1, <1>2, <1>3, HostsOfRequests
<1>5. about[c] # {}
  BY <1>4
<1>6. req'[c].pc # "idle" => about' = about
  <2> SUFFICES ASSUME req'[c].pc # "idle", NEW d \in Callers PROVE HostsOf(d)' = HostsOf(d)
    OBVIOUS
  <2> QED
    BY <1>1, StepForms DEF HostsOf
<1>7. req'[c].pc = "idle" => Store!Returns(c)
  <2> SUFFICES ASSUME req'[c].pc = "idle" PROVE Store!Returns(c)
    OBVIOUS
  <2>1. HostsOf(c)' = {}
    BY <1>1 DEF HostsOf, Inv, Held, HeldBy, Fits, NoRequest
  <2>2. about' = [about EXCEPT ![c] = {}]
    BY <1>1, <2>1, StepForms, OthersStay
  <2>3. ASSUME NEW h \in HostsOf(c) PROVE Agrees(h)'
    BY <1>1, <1>2, <1>4 DEF Own
  <2> QED
    BY <1>4, <2>2, <2>3 DEF Store!Returns, Agrees
<1>8. CASE saved' = saved /\ unsaved' = unsaved
           /\ \A h \in Hosts \ HostsOf(c) : Running(h)' = Running(h)
  <2>1. Store!Runs(c)
    BY <1>8 DEF Store!Runs, Store!OnlyOf
  <2> QED
    BY <1>5, <1>6, <1>7, <2>1 DEF Store!StoreNext, Store!Proceeds
<1>9. CASE files' = files /\ unsaved' = unsaved
  <2>1. saved' = saved
    BY <1>9 DEF OnDisk
  <2>2. ASSUME NEW h \in Hosts \ HostsOf(c) PROVE Running(h)' = Running(h)
    <3>1. h \notin {req[c].host, req[c].dest, req'[c].host, req'[c].dest}
      <4>1. req'[c].pc = "idle" => req'[c] = NoRequest
        BY <1>1 DEF Inv, Held, HeldBy, Fits
      <4> QED
        BY <1>1, <1>2, <1>4, <4>1, StepForms, EndpointAssumption DEF NoRequest
    <3> QED
      BY <1>1, <3>1, RunningSame DEF Local
  <2> QED
    BY <1>8, <1>9, <2>1, <2>2
<1>10. CASE Unfile(c) \/ SaveOpen(c)
  <2>1. /\ table' = table /\ unsaved' = unsaved /\ (Collect \/ heap' = heap)
        /\ \E h \in HostsOf(c), text \in {None, Torn} : files' = [files EXCEPT ![h] = text]
    BY <1>2, <1>3, <1>4, <1>10 DEF Unfile, SaveOpen, At, Fits
  <2>2. PICK h \in HostsOf(c), text \in {None, Torn} : files' = [files EXCEPT ![h] = text]
    BY <2>1
  <2>3. saved' = [saved EXCEPT ![h] = None]
    BY <1>1, <1>4, <2>2, FileAssumption DEF OnDisk, Inv, TypeOK
  <2>4. config' = config
    BY <1>1, <2>1, RunningKept
  <2>5. Store!Erases(h)
    BY <2>1, <2>3, <2>4 DEF Store!Erases
  <2> QED
    BY <1>5, <1>6, <1>7, <2>5 DEF Store!StoreNext, Store!Proceeds
<1>11. CASE SaveWrite(c)
  <2>1. /\ r.pc = "write" /\ r.ept # None /\ files' = [files EXCEPT ![r.dest] = r.text]
        /\ table' = table /\ Collect /\ req'[c].pc = "idle"
        /\ unsaved' = IF table[r.dest] = r.ept /\ Loads(r.text) THEN unsaved \ {r.dest} ELSE unsaved
    BY <1>1, <1>2, <1>3, <1>11 DEF SaveWrite, At, Return, NoRequest, Fits, Inv, TypeOK
  <2>2. /\ r.text \in Data /\ r.text = heap[r.ept].data
        /\ table[r.dest] = r.ept \/ (~Lists(r.text) /\ OnDisk(r.dest) = None)
    BY <1>1, <1>2, <1>3, <2>1 DEF Fits, Progress, Promise
  <2>3. config' = config
    BY <1>1, <2>1, RunningKept
  <2>4. CASE Loads(r.text)
    <3>1. table[r.dest] = r.ept /\ unsaved' = unsaved \ {r.dest}
      BY <2>1, <2>2, <2>4 DEF Loads
    <3>2. Running(r.dest) = r.text /\ Running(r.dest) # None
      BY <2>1, <2>2, <3>1, FileAssumption DEF Running, Found
    <3>3. ASSUME NEW g \in HostsOf(c) \ {r.dest} PROVE OnDisk(g) = None
      BY <1>1, <1>2, <1>4, <2>1, FileAssumption DEF Progress, OnDisk
    <3>4. saved' = [saved EXCEPT ![r.dest] = Running(r.dest)]
      BY <1>1, <1>3, <2>1, <2>2, <2>4, <3>2 DEF OnDisk, Inv, TypeOK
    <3>5. Store!Saves(c, r.dest)
      BY <1>3, <1>4, <2>3, <3>1, <3>2, <3>3, <3>4 DEF Store!Saves
    <3> QED
      BY <1>4, <1>5, <1>7, <2>1, <3>5 DEF Store!StoreNext, Store!Proceeds
  <2>5. CASE ~Loads(r.text)
    <3>1. OnDisk(r.dest) = None
      BY <1>1, <1>2, <2>1 DEF Progress
    <3>2. saved' = saved
      BY <1>1, <1>3, <2>1, <2>5, <3>1 DEF OnDisk, Inv, TypeOK
    <3>3. \A h \in Hosts \ HostsOf(c) : Running(h)' = Running(h)
      BY <2>3
    <3> QED
      BY <1>8, <2>1, <2>5, <3>2, <3>3
  <2> QED
    BY <2>4, <2>5
<1>12. CASE Failing(c)
  <2>1. PICK h \in HostsOf(c) : unsaved' = unsaved \cup {h}
    BY <1>1, <1>2, <1>4, <1>12, FailingForms
  <2>2. table' = table /\ saved' = saved
    BY <1>1, <1>12, FailingForms DEF OnDisk
  <2>3. config' = config
    BY <1>1, <1>12, <2>2, FailingForms, RunningSame
  <2>4. Store!Fails(h)
    BY <2>1, <2>2, <2>3 DEF Store!Fails
  <2> QED
    BY <1>5, <1>6, <1>7, <2>4 DEF Store!StoreNext, Store!Proceeds
<1> QED
  BY <1>1, <1>9, <1>10, <1>11, <1>12, StepForms

LEMMA RestartStore == ASSUME ExInv, Restart PROVE Store!StoreNext
<1>1. Inv /\ unsaved' = {} /\ req' = [c \in Callers |-> NoRequest]
  BY DEF Restart, ExInv
<1>2. /\ [h \in Hosts |-> Running(h)]' = [h \in Hosts |-> OnDisk(h)]
      /\ [h \in Hosts |-> OnDisk(h)]' = [h \in Hosts |-> OnDisk(h)]
  BY <1>1, RestartAgrees
<1>3. [c \in Callers |-> HostsOf(c)]' = [c \in Callers |-> {}]
  BY <1>1 DEF HostsOf, NoRequest
<1>4. Store!Restarts
  BY <1>1, <1>2, <1>3 DEF Store!Restarts
<1> QED
  BY <1>4 DEF Store!StoreNext

\* As long as requests in progress are about different hosts, the handlers, with
\* their copies, their removals and additions, the files they truncate and the errors
\* they return or ignore, come to transactions on the configurations of their own
\* hosts; and a restart at any step, and an error, leaves every other host as it was.
THEOREM ImplementsStore ==
    ASSUME Exclusive
    PROVE  Spec => StoreSpec
<1>1. Init => Store!StoreInit
  BY FileAssumption DEF Init, Store!StoreInit, Running, OnDisk, HostsOf, NoRequest
<1>2. ExInv /\ [Next]_vars => [Store!StoreNext]_(Store!storeVars)
  <2> SUFFICES ASSUME ExInv, [Next]_vars PROVE [Store!StoreNext]_(Store!storeVars)
    OBVIOUS
  <2>1. ASSUME NEW c \in Callers, Arrive(c) PROVE Store!StoreNext
    BY <2>1, ArriveForms, ArriveStore DEF ExInv
  <2>2. ASSUME NEW c \in Callers, Step(c) PROVE Store!StoreNext
    BY <2>2, StepStore
  <2>3. CASE Restart
    BY <2>3, RestartStore
  <2>4. CASE UNCHANGED vars
    BY <2>4 DEF vars, Store!storeVars, Running, Found, OnDisk, HostsOf
  <2> QED
    BY <2>1, <2>2, <2>3, <2>4 DEF Next
<1> HIDE DEF ExInv
<1> QED
  BY <1>1, <1>2, InitExInv, NextExInv, PTL DEF Spec, StoreSpec, Store!StoreSpec

==============================================================================
