--------------------------- MODULE UpstreamHealth ---------------------------
(***************************************************************************)
(* How the proxy decides which upstream of a host serves a request: the    *)
(* uptime monitor (mod/uptime) checks its targets from two tickers, each   *)
(* check a goroutine of its own; their results move a target between the   *)
(* monitor's online and offline lists and set its state in the load        *)
(* balancer (mod/dynamicproxy/loadbalance), which requests read.           *)
(*                                                                         *)
(* A target is an upstream of the host.  The monitor keys its lists by an  *)
(* identifier made of the host's name and the upstream's position, and the *)
(* load balancer its map by the address; here the two are the same, so an  *)
(* edit that renumbers the upstreams is not modelled.                      *)
(***************************************************************************)
EXTENDS Naturals, FiniteSets

CONSTANTS
    Targets,      \* the active upstreams of the host
    Weight,       \* Weight[t]: 0 for fallback only
    Conditions,   \* Conditions[t]: the conditions upstream t may be in
    Edits,        \* what an edit of the host may leave to be monitored
    Checks,       \* bound: <<t, i>>, the checks of t in progress at once
    MaxEntries,   \* bound: a list keeps at most this many entries per target
    Sticky,       \* the host's UseStickySession
    DisableAutoFallback,
    None          \* no entry in the map, no cookie, no upstream

\* An upstream may be down, or up and answering 5xx.
Condition == {"up", "error", "down"}
ASSUME TargetsAssumption ==
    /\ Targets # {} /\ Weight \in [Targets -> Nat]
    /\ Conditions \in [Targets -> (SUBSET Condition) \ {{}}]
    /\ Edits \subseteq SUBSET Targets
ASSUME BoundsAssumption == Checks \subseteq Targets \X Nat /\ MaxEntries \in Nat \ {0}
ASSUME OptionsAssumption == Sticky \in BOOLEAN /\ DisableAutoFallback \in BOOLEAN
ASSUME NoneAssumption == None \notin Targets \cup BOOLEAN

VARIABLES
    \* the upstreams
    condition,
    \* Monitor: Config.Targets, how often each target is in the two lists, and
    \* the targets with at least one record
    monitored, onlineTargets, offlineTargets, recorded,
    \* RouteManager.OnlineStatus
    onlineStatus,
    \* the checks: progress, answer, and whether it will be recorded
    at, answer, logged,
    \* a request: progress, upstreams not looked at yet, the one it is about to
    \* store, those it may choose from, the choice; and the client's cookie
    pc, left, missing, seen, picked, cookie

lists == <<onlineTargets, offlineTargets>>
monitor == <<monitored, lists, recorded>>
checks == <<at, answer, logged>>
request == <<pc, left, missing, seen, picked, cookie>>
vars == <<condition, monitor, onlineStatus, checks, request>>

Entries == [Targets -> 0 .. MaxEntries]

TypeOK ==
    /\ condition \in [Targets -> Condition]
    /\ monitored \subseteq Targets /\ recorded \subseteq Targets
    /\ onlineTargets \in Entries /\ offlineTargets \in Entries
    /\ onlineStatus \in [Targets -> BOOLEAN \cup {None}]
    /\ at \in [Checks -> {"free", "probe", "notify", "test",
                          "to_offline", "to_online", "log"}]
    /\ answer \in [Checks -> Condition] /\ logged \in [Checks -> BOOLEAN]
    /\ pc \in {"none", "filter", "store", "served", "refused"}
    /\ left \subseteq Targets /\ seen \subseteq Targets
    /\ missing \in Targets \cup {None}
    /\ picked \in Targets \cup {None} /\ cookie \in Targets \cup {None}

\* NewUptimeMonitor: every target starts in the online list.  A client may
\* have a cookie from before a restart of the program.
Init ==
    /\ condition \in [Targets -> Condition]
    /\ \A t \in Targets : condition[t] \in Conditions[t]
    /\ monitored = Targets /\ recorded = {}
    /\ onlineTargets = [t \in Targets |-> 1]
    /\ offlineTargets = [t \in Targets |-> 0]
    /\ onlineStatus = [t \in Targets |-> None]
    /\ at = [k \in Checks |-> "free"]
    /\ answer = [k \in Checks |-> "up"] /\ logged = [k \in Checks |-> FALSE]
    /\ pc = "none" /\ left = {} /\ missing = None /\ seen = {} /\ picked = None
    /\ cookie \in IF Sticky THEN Targets \cup {None} ELSE {None}

\* An upstream changes its condition at any time.
Change ==
    /\ \E t \in Targets : \E new \in Conditions[t] \ {condition[t]} :
          condition' = [condition EXCEPT ![t] = new]
    /\ UNCHANGED <<monitor, onlineStatus, checks, request>>

-----------------------------------------------------------------------------
(* The monitor's target list *)

\* SetTargets, after any edit, which may disable the monitor for the host or
\* remove upstreams.  A target that was offline stays in the offline list.
SetTargets ==
    /\ \E new \in Edits :
          LET wasOffline(t) == offlineTargets[t] > 0
          IN  /\ monitored' = new /\ recorded' = recorded \cap new
              /\ onlineTargets' = [t \in Targets |->
                    IF t \in new /\ ~wasOffline(t) THEN 1 ELSE 0]
              /\ offlineTargets' = [t \in Targets |->
                    IF t \in new /\ wasOffline(t) THEN 1 ELSE 0]
    /\ UNCHANGED <<condition, onlineStatus, checks, request>>

-----------------------------------------------------------------------------
(* A check *)

Spawn(t, record) ==
    /\ \E k \in Checks :
          /\ k[1] = t /\ at[k] = "free" /\ at' = [at EXCEPT ![k] = "probe"]
          /\ logged' = [logged EXCEPT ![k] = record]
    /\ UNCHANGED <<condition, monitor, onlineStatus, answer, request>>

\* The 300 s ticker, or ExecuteUptimeCheck after an edit.
MasterPing(t) == t \in monitored /\ Spawn(t, TRUE)
\* The 30 s ticker: the offline list only, without a record.
ShadowPing(t) == offlineTargets[t] > 0 /\ Spawn(t, FALSE)

\* The upstream answers, or does not.
Answer(k) ==
    /\ at[k] = "probe" /\ at' = [at EXCEPT ![k] = "notify"]
    /\ answer' = [answer EXCEPT ![k] = condition[k[1]]]
    /\ UNCHANGED <<condition, monitor, onlineStatus, logged, request>>

\* NotifyHostOnlineState: any answer counts as online, 5xx too.  A failure is
\* not notified before the target's first record.
NotifyIf(k, online) ==
    /\ at[k] = "notify" /\ at' = [at EXCEPT ![k] = "test"]
    /\ \/ /\ answer[k] # "down" \/ k[1] \in recorded
          /\ onlineStatus' = [onlineStatus EXCEPT ![k[1]] = online]
       \/ /\ answer[k] = "down" /\ k[1] \notin recorded
          /\ UNCHANGED onlineStatus
    /\ UNCHANGED <<condition, monitor, answer, logged, request>>
Notify_OnlyDown(k) ==  \* mutant
    NotifyIf(k, answer[k] # "down" /\ onlineStatus[k[1]] # FALSE)
Notify(k) == NotifyIf(k, answer[k] # "down")

\* The lists are searched without the lock: an entry may be missed while that
\* of another target is removed from the same array ...
Shifting(k, place) == \E j \in Checks : j[1] # k[1] /\ at[j] = place
TestLists(k, failed) ==
    /\ at[k] = "test"
    /\ LET leaves == failed /\ onlineTargets[k[1]] > 0
           returns == ~failed /\ offlineTargets[k[1]] > 0
       IN  \/ leaves /\ at' = [at EXCEPT ![k] = "to_offline"]
           \/ returns /\ at' = [at EXCEPT ![k] = "to_online"]
           \/ /\ leaves => Shifting(k, "to_offline")
              /\ returns => Shifting(k, "to_online")
              /\ at' = [at EXCEPT ![k] = "log"]
    /\ answer' = [answer EXCEPT ![k] = "up"]  \* of no further use
    /\ UNCHANGED <<condition, monitor, onlineStatus, logged, request>>
Test_Swapped(k) == TestLists(k, answer[k] = "up")  \* mutant
Test(k) == TestLists(k, answer[k] # "up")

\* MaxEntries entries stand for that many or more.
OneLess(n) == IF n = MaxEntries THEN {n - 1, n} ELSE {IF n = 0 THEN 0 ELSE n - 1}
OneMore(n) == IF n = MaxEntries THEN n ELSE n + 1
RemoveTargetFromList_Unchecked(list, t) ==  \* mutant
    {[list EXCEPT ![t] = n] : n \in {list[t] - 1}}
RemoveTargetFromList(list, t) == {[list EXCEPT ![t] = n] : n \in OneLess(list[t])}
Appended(list, t) == [list EXCEPT ![t] = OneMore(@)]

\* ... and changed with it: one entry is removed from one list, if there still
\* is one, and one appended to the other, whether or not it was removed.
MoveTargetToOffline(k) ==
    /\ at[k] = "to_offline" /\ at' = [at EXCEPT ![k] = "log"]
    /\ onlineTargets' \in RemoveTargetFromList(onlineTargets, k[1])
    /\ offlineTargets' = Appended(offlineTargets, k[1])
    /\ UNCHANGED <<condition, monitored, recorded, onlineStatus,
                   answer, logged, request>>
MoveTargetToOnline_Lost(k) ==  \* mutant
    /\ at[k] = "to_online" /\ at' = [at EXCEPT ![k] = "log"]
    /\ offlineTargets' \in RemoveTargetFromList(offlineTargets, k[1])
    /\ UNCHANGED <<condition, monitored, onlineTargets, recorded, onlineStatus,
                   answer, logged, request>>
MoveTargetToOnline(k) ==
    /\ at[k] = "to_online" /\ at' = [at EXCEPT ![k] = "log"]
    /\ offlineTargets' \in RemoveTargetFromList(offlineTargets, k[1])
    /\ onlineTargets' = Appended(onlineTargets, k[1])
    /\ UNCHANGED <<condition, monitored, recorded, onlineStatus,
                   answer, logged, request>>

\* A record is appended for the master's checks.  The goroutine ends.
Log(k) ==
    /\ at[k] = "log" /\ at' = [at EXCEPT ![k] = "free"]
    /\ recorded' = recorded \cup IF logged[k] THEN {k[1]} ELSE {}
    /\ logged' = [logged EXCEPT ![k] = FALSE]
    /\ UNCHANGED <<condition, monitored, lists, onlineStatus, answer, request>>

-----------------------------------------------------------------------------
(* A request: GetRequestUpstreamTarget *)

\* getSessionHandler: the upstream the cookie names, unless it is offline.
StickyHit == Sticky /\ cookie # None /\ onlineStatus[cookie] # FALSE
RequestStart ==
    /\ pc = "none"
    /\ \/ /\ StickyHit /\ onlineStatus[cookie] = TRUE
          /\ pc' = "served" /\ picked' = cookie /\ UNCHANGED <<left, missing>>
       \/ /\ StickyHit /\ onlineStatus[cookie] = None
          /\ pc' = "store" /\ missing' = cookie /\ UNCHANGED <<left, picked>>
       \/ /\ ~StickyHit
          /\ pc' = "filter" /\ left' = Targets /\ UNCHANGED <<missing, picked>>
    /\ UNCHANGED <<condition, monitor, onlineStatus, checks, seen, cookie>>

\* getRandomUpstreamByWeight: by weight, or any if no weight is positive.
Weighted(ts) == {t \in ts : Weight[t] > 0}
Choices(ts) == IF Weighted(ts) # {} THEN Weighted(ts) ELSE ts

PickFrom(ts) ==
    /\ left' = {} /\ seen' = {} /\ UNCHANGED missing
    /\ \/ ts = {} /\ pc' = "refused" /\ UNCHANGED <<picked, cookie>>
       \/ /\ pc' = "served" /\ picked' \in Choices(ts)
          /\ cookie' = IF Sticky THEN picked' ELSE cookie

\* FilterOfflineOrigins asks IsTargetOnline of each upstream in turn.  A lone
\* upstream is never left out; one that is not in the map counts as online.
Unfiltered == Cardinality(Targets) = 1 \/ DisableAutoFallback
Filter(all) ==
    /\ pc = "filter"
    /\ \/ /\ all \/ left = {}
          /\ PickFrom(IF all THEN Targets ELSE seen)
       \/ /\ ~all /\ UNCHANGED <<picked, cookie>>
          /\ \E t \in left :
                \/ /\ onlineStatus[t] = None /\ pc' = "store" /\ missing' = t
                   /\ UNCHANGED <<left, seen>>
                \/ /\ onlineStatus[t] # None /\ UNCHANGED <<pc, missing>>
                   /\ left' = left \ {t}
                   /\ seen' = seen \cup {u \in {t} : onlineStatus[u]}
    /\ UNCHANGED <<condition, monitor, onlineStatus, checks>>
FilterOfflineOrigins_Off == Filter(TRUE)  \* mutant
FilterOfflineOrigins == Filter(Unfiltered)

\* IsTargetOnline stores the upstream it did not find, as a step of its own.
StoreMissing ==
    /\ pc = "store" /\ missing' = None
    /\ onlineStatus' = [onlineStatus EXCEPT ![missing] = TRUE]
    /\ \/ left = {} /\ pc' = "served" /\ picked' = missing /\ UNCHANGED <<left, seen>>
       \/ /\ left # {} /\ pc' = "filter" /\ UNCHANGED picked
          /\ left' = left \ {missing} /\ seen' = seen \cup {missing}
    /\ UNCHANGED <<condition, monitor, checks, cookie>>

\* The response is sent: a page from the upstream, or status 521.
Respond ==
    /\ pc \in {"served", "refused"} /\ pc' = "none"
    /\ picked' = None
    /\ UNCHANGED <<condition, monitor, onlineStatus, checks, left, missing, seen, cookie>>

RequestStep == FilterOfflineOrigins \/ StoreMissing \/ Respond

-----------------------------------------------------------------------------

CheckStep(k) ==
    \/ Answer(k) \/ Notify(k) \/ Test(k)
    \/ MoveTargetToOffline(k) \/ MoveTargetToOnline(k) \/ Log(k)

Next ==
    \/ Change \/ SetTargets \/ RequestStart \/ RequestStep
    \/ \E t \in Targets : MasterPing(t) \/ ShadowPing(t)
    \/ \E k \in Checks : CheckStep(k)

Spec == Init /\ [][Next]_vars

\* The 300 s ticker ticks for ever; a tick is not lost because the bound on the
\* checks in progress is reached again and again.  Checks time out, so they
\* end, and a request that came is served.
Fairness ==
    /\ \A t \in Targets : SF_vars(MasterPing(t))
    /\ \A k \in Checks : WF_vars(CheckStep(k))
    /\ WF_vars(RequestStep)

FairSpec == Spec /\ Fairness

-----------------------------------------------------------------------------
(* Properties *)

\* Whatever checks overlap, a monitored target is never dropped from both
\* lists: it would no longer be checked at the short interval when it fails, or
\* never be put back.
EveryTargetListed ==
    \A t \in monitored : onlineTargets[t] + offlineTargets[t] > 0

StaysAs(t, c) == [](t \in monitored /\ condition[t] = c)

\* From the moment a monitored upstream stays down, requests eventually are
\* never sent to it while the host has another, in spite of answers that come
\* late, cookies and the entries that requests store.
DeadUpstreamIsLeft ==
    \A t \in Targets :
        ~Unfiltered /\ <>StaysAs(t, "down")
            => <>[](pc = "served" => picked # t)

\* A failing upstream ends up in the offline list, where it is checked every
\* 30 s.
FailureIsWatched ==
    \A t \in Targets : <>StaysAs(t, "down") => <>[](offlineTargets[t] > 0)

\* From the moment a monitored upstream stays up, it is eventually offered to
\* requests again for ever, in spite of late answers from when it was down.
LiveUpstreamServes ==
    \A t \in Targets : <>StaysAs(t, "up") => <>[](onlineStatus[t] # FALSE)

=============================================================================
