------------------------ MODULE UpstreamHealthProofs ------------------------
(***************************************************************************)
(* What UpstreamHealth promises for any number of upstreams, checks in     *)
(* progress and entries, whatever the host's options are.                  *)
(***************************************************************************)
EXTENDS UpstreamHealth, TLAPS

\* A list that loses or gains an entry is still a list.
LEMMA ListTypes ==
  ASSUME NEW list \in Entries, NEW t \in Targets
  PROVE  /\ RemoveTargetFromList(list, t) \subseteq Entries
         /\ Appended(list, t) \in Entries /\ Appended(list, t)[t] > 0
         /\ \A u \in Targets \ {t} : Appended(list, t)[u] = list[u]
         /\ \A new \in RemoveTargetFromList(list, t) :
               \A u \in Targets \ {t} : new[u] = list[u]
<1>1. list[t] \in 0 .. MaxEntries /\ MaxEntries \in Nat \ {0}
  BY BoundsAssumption DEF Entries
<1>2. OneLess(list[t]) \subseteq 0 .. MaxEntries
  BY <1>1 DEF OneLess
<1>3. OneMore(list[t]) \in 1 .. MaxEntries
  BY <1>1 DEF OneMore
<1> QED
  BY <1>1, <1>2, <1>3 DEF RemoveTargetFromList, Appended, Entries

LEMMA TypeInit == Init => TypeOK
<1> SUFFICES ASSUME Init PROVE TypeOK
  OBVIOUS
<1>1. condition \in [Targets -> Condition] /\ monitored \subseteq Targets
      /\ recorded \subseteq Targets
  BY DEF Init
<1>2. onlineTargets \in Entries /\ offlineTargets \in Entries
  BY BoundsAssumption DEF Init, Entries
<1>3. onlineStatus \in [Targets -> BOOLEAN \cup {None}]
  BY DEF Init
<1>4. /\ at \in [Checks -> {"free", "probe", "notify", "test",
                            "to_offline", "to_online", "log"}]
      /\ answer \in [Checks -> Condition] /\ logged \in [Checks -> BOOLEAN]
  BY DEF Init, Condition
<1>5. /\ pc \in {"none", "filter", "store", "served", "refused"}
      /\ left \subseteq Targets /\ seen \subseteq Targets
      /\ missing \in Targets \cup {None}
      /\ picked \in Targets \cup {None}
      /\ cookie \in Targets \cup {None}
  BY DEF Init
<1> QED
  BY <1>1, <1>2, <1>3, <1>4, <1>5 DEF TypeOK

\* A check is a check of some upstream.
LEMMA CheckTargets == \A k \in Checks : k[1] \in Targets
  BY BoundsAssumption

\* The type invariant is not inductive by itself: a request that is about to
\* store an upstream has one.
StoresSome == pc = "store" => missing \in Targets
TypeInv == TypeOK /\ StoresSome

LEMMA TypeNext == TypeInv /\ [Next]_vars => TypeInv'
<1> SUFFICES ASSUME TypeInv, [Next]_vars PROVE TypeInv'
  OBVIOUS
<1> USE DEF TypeInv, TypeOK, StoresSome
<1>1. CASE Change
  <2>1. PICK t \in Targets : \E new \in Conditions[t] \ {condition[t]} :
           condition' = [condition EXCEPT ![t] = new]
    BY <1>1 DEF Change
  <2>2. PICK new \in Conditions[t] : condition' = [condition EXCEPT ![t] = new]
    BY <2>1
  <2>3. new \in Condition
    BY TargetsAssumption
  <2> QED
    BY <1>1, <2>2, <2>3 DEF Change, monitor, lists, checks, request
<1>2. CASE SetTargets
  <2>1. /\ monitored' \subseteq Targets /\ recorded' \subseteq Targets
        /\ onlineTargets' \in Entries /\ offlineTargets' \in Entries
    BY <1>2, BoundsAssumption, TargetsAssumption DEF SetTargets, Entries
  <2> QED
    BY <1>2, <2>1 DEF SetTargets, checks, request
<1>3. ASSUME NEW t \in Targets, MasterPing(t) \/ ShadowPing(t) PROVE TypeInv'
  <2>1. PICK record \in BOOLEAN : Spawn(t, record)
    BY <1>3 DEF MasterPing, ShadowPing
  <2> QED
    BY <2>1 DEF Spawn, monitor, lists, request
<1>4. ASSUME NEW k \in Checks, CheckStep(k) PROVE TypeInv'
  <2>0. k[1] \in Targets
    BY CheckTargets
  <2>1. CASE Answer(k)
    BY <2>0, <2>1 DEF Answer, monitor, lists, request
  <2>2. CASE Notify(k)
    <3>1. PICK online \in BOOLEAN : NotifyIf(k, online)
      BY <2>2 DEF Notify
    <3>2. onlineStatus' \in [Targets -> BOOLEAN \cup {None}]
      BY <3>1, <2>0 DEF NotifyIf
    <3>3. at' \in [Checks -> {"free", "probe", "notify", "test",
                             "to_offline", "to_online", "log"}]
      BY <3>1 DEF NotifyIf
    <3> QED
      BY <3>1, <3>2, <3>3 DEF NotifyIf, monitor, lists, request
  <2>3. CASE Test(k)
    <3>1. /\ \E place \in {"to_offline", "to_online", "log"} :
                at' = [at EXCEPT ![k] = place]
          /\ answer' = [answer EXCEPT ![k] = "up"]
          /\ UNCHANGED <<condition, monitor, onlineStatus, logged, request>>
      BY <2>3, Zenon DEF Test, TestLists
    <3> QED
      BY <3>1 DEF Condition, monitor, lists, request
  <2>4. CASE MoveTargetToOffline(k)
    BY <2>0, <2>4, ListTypes DEF MoveTargetToOffline, request
  <2>5. CASE MoveTargetToOnline(k)
    BY <2>0, <2>5, ListTypes DEF MoveTargetToOnline, request
  <2>6. CASE Log(k)
    BY <2>0, <2>6 DEF Log, lists, request
  <2> QED
    BY <1>4, <2>1, <2>2, <2>3, <2>4, <2>5, <2>6 DEF CheckStep
<1>5. CASE RequestStart
  <2>1. CASE StickyHit
    BY <1>5, <2>1 DEF RequestStart, StickyHit, monitor, lists, checks
  <2>2. CASE ~StickyHit
    BY <1>5, <2>2 DEF RequestStart, monitor, lists, checks
  <2> QED
    BY <2>1, <2>2
<1>6. CASE FilterOfflineOrigins
  <2> DEFINE all == Unfiltered
  <2>0. Filter(all) /\ pc = "filter"
    BY <1>6 DEF FilterOfflineOrigins, Filter
  <2>1. CASE PickFrom(IF all THEN Targets ELSE seen)
    <3>1. \A ts : ts \subseteq Targets => Choices(ts) \subseteq Targets
      BY DEF Choices, Weighted
    <3> DEFINE ts == IF all THEN Targets ELSE seen
    <3>2. ts \subseteq Targets
      OBVIOUS
    <3>3. Choices(ts) \subseteq Targets
      BY <3>1, <3>2
    <3>4. /\ left' = {} /\ seen' = {} /\ missing' = missing
          /\ pc' \in {"served", "refused"}
          /\ picked' \in Targets \cup {None} /\ cookie' \in Targets \cup {None}
      BY <2>1, <3>3 DEF PickFrom
    <3> QED
      BY <2>0, <3>4 DEF Filter, monitor, lists, checks
  <2>2. CASE ~PickFrom(IF all THEN Targets ELSE seen)
    <3>1. PICK t \in left :
            \/ pc' = "store" /\ missing' = t /\ UNCHANGED <<left, seen>>
            \/ /\ UNCHANGED <<pc, missing>> /\ left' = left \ {t}
               /\ seen' = seen \cup {u \in {t} : onlineStatus[u]}
      BY <2>0, <2>2, Zenon DEF Filter
    <3>2. UNCHANGED <<picked, cookie>>
      BY <2>0, <2>2, Zenon DEF Filter
    <3> QED
      BY <2>0, <3>1, <3>2 DEF Filter, monitor, lists, checks
  <2> QED
    BY <2>1, <2>2
<1>7. CASE StoreMissing
  BY <1>7 DEF StoreMissing, monitor, lists, checks
<1>8. CASE Respond
  BY <1>8 DEF Respond, monitor, lists, checks
<1>9. CASE UNCHANGED vars
  BY <1>9 DEF vars, monitor, lists, checks, request
<1> QED
  BY <1>1, <1>2, <1>3, <1>4, <1>5, <1>6, <1>7, <1>8, <1>9 DEF Next, RequestStep

\* Every variable keeps its type, for every choice of the constants.
THEOREM TypeCorrect == Spec => []TypeOK
<1>1. Init => TypeInv
  BY TypeInit DEF TypeInv, StoresSome, Init
<1>2. TypeInv => TypeOK
  BY DEF TypeInv
<1> QED
  BY <1>1, <1>2, TypeNext, PTL DEF Spec

\* A step that leaves both lists and the monitored targets alone loses none.
LEMMA ListsKept ==
  ASSUME EveryTargetListed, UNCHANGED <<monitored, onlineTargets, offlineTargets>>
  PROVE  EveryTargetListed'
  BY DEF EveryTargetListed

LEMMA ListedNext == TypeInv /\ EveryTargetListed /\ [Next]_vars => EveryTargetListed'
<1> SUFFICES ASSUME TypeInv, EveryTargetListed, [Next]_vars
             PROVE  EveryTargetListed'
  OBVIOUS
<1>1. CASE SetTargets
  <2>1. PICK new \in Edits :
           /\ monitored' = new
           /\ onlineTargets' = [t \in Targets |->
                 IF t \in new /\ ~(offlineTargets[t] > 0) THEN 1 ELSE 0]
           /\ offlineTargets' = [t \in Targets |->
                 IF t \in new /\ offlineTargets[t] > 0 THEN 1 ELSE 0]
    BY <1>1 DEF SetTargets
  <2>2. \A t \in new : t \in Targets
    BY <2>1, TargetsAssumption
  <2> QED
    BY <2>1, <2>2 DEF EveryTargetListed
<1>2. ASSUME NEW k \in Checks, CheckStep(k) PROVE EveryTargetListed'
  <2>1. k[1] \in Targets /\ monitored \subseteq Targets
        /\ onlineTargets \in Entries /\ offlineTargets \in Entries
    BY CheckTargets DEF TypeInv, TypeOK
  <2>2. CASE MoveTargetToOffline(k)
    <3>1. /\ offlineTargets' \in Entries /\ offlineTargets'[k[1]] > 0
          /\ onlineTargets' \in Entries /\ monitored' = monitored
          /\ \A u \in Targets \ {k[1]} : /\ onlineTargets'[u] = onlineTargets[u]
                                       /\ offlineTargets'[u] = offlineTargets[u]
      BY <2>1, <2>2, ListTypes DEF MoveTargetToOffline
    <3> QED
      BY <2>1, <3>1, BoundsAssumption DEF EveryTargetListed, Entries
  <2>3. CASE MoveTargetToOnline(k)
    <3>1. /\ onlineTargets' \in Entries /\ onlineTargets'[k[1]] > 0
          /\ offlineTargets' \in Entries /\ monitored' = monitored
          /\ \A u \in Targets \ {k[1]} : /\ onlineTargets'[u] = onlineTargets[u]
                                       /\ offlineTargets'[u] = offlineTargets[u]
      BY <2>1, <2>3, ListTypes DEF MoveTargetToOnline
    <3> QED
      BY <2>1, <3>1, BoundsAssumption DEF EveryTargetListed, Entries
  <2>4. CASE Answer(k) \/ Notify(k) \/ Test(k) \/ Log(k)
    BY <2>4, ListsKept
    DEF Answer, Notify, NotifyIf, Test, TestLists, Log, monitor, lists
  <2> QED
    BY <1>2, <2>2, <2>3, <2>4 DEF CheckStep
<1>3. ASSUME NEW t \in Targets, MasterPing(t) \/ ShadowPing(t)
      PROVE  EveryTargetListed'
  BY <1>3, ListsKept DEF MasterPing, ShadowPing, Spawn, monitor, lists
<1>4. CASE Change \/ RequestStart \/ FilterOfflineOrigins \/ StoreMissing \/ Respond
  BY <1>4, ListsKept
  DEF Change, RequestStart, FilterOfflineOrigins, Filter, StoreMissing, Respond,
      monitor, lists
<1>5. CASE UNCHANGED vars
  BY <1>5, ListsKept DEF vars, monitor, lists
<1> QED
  BY <1>1, <1>2, <1>3, <1>4, <1>5 DEF Next, RequestStep

\* However many checks of a target overlap, and whatever edits change under
\* them, a monitored target is always in one of the two lists, so that a ticker
\* checks it.
THEOREM NeverUnlisted == Spec => []EveryTargetListed
<1>1. Init => TypeInv /\ EveryTargetListed
  <2>1. Init => EveryTargetListed
    BY DEF Init, EveryTargetListed
  <2> QED
    BY <2>1, TypeInit DEF TypeInv, StoresSome, Init
<1>2. TypeInv /\ EveryTargetListed /\ [Next]_vars => (TypeInv /\ EveryTargetListed)'
  BY TypeNext, ListedNext
<1> QED
  BY <1>1, <1>2, PTL DEF Spec

-----------------------------------------------------------------------------
(* What the monitor has found out stays so, as long as the upstream does:     *)
(* the part of DeadUpstreamIsLeft, FailureIsWatched and LiveUpstreamServes    *)
(* that does not depend on fairness.                                          *)

\* The map says t is offline, and nobody is under way who would say otherwise:
\* no check with an older answer, no request that did not find t in the map or
\* has already let it through.
KnownDead(t) ==
    /\ onlineStatus[t] = FALSE
    /\ missing # t /\ picked # t /\ t \notin seen
    /\ \A k \in Checks : k[1] = t /\ at[k] = "notify" => answer[k] = "down"

\* The map lets t through, and no check with an older answer is under way.
KnownLive(t) ==
    /\ onlineStatus[t] # FALSE
    /\ \A k \in Checks : k[1] = t /\ at[k] = "notify" => answer[k] # "down"

\* t is in the offline list, and no check is under way that takes it out.
Watched(t) ==
    /\ offlineTargets[t] > 0
    /\ \A k \in Checks : k[1] = t =>
          /\ at[k] # "to_online"
          /\ at[k] \in {"notify", "test"} => answer[k] # "up"

\* The map says t is offline, and nothing checks t or is to check it.
Abandoned(t) ==
    /\ t \notin monitored /\ onlineStatus[t] = FALSE
    /\ onlineTargets[t] = 0 /\ offlineTargets[t] = 0
    /\ missing # t /\ picked # t /\ t \notin seen
    /\ \A k \in Checks : k[1] = t => at[k] = "free"

\* What a request may leave behind: it stores nothing for, and lets through
\* nobody but, upstreams that are not offline in the map.
LEMMA RequestsAvoid ==
    ASSUME TypeInv, ~Unfiltered, NEW t \in Targets,
           onlineStatus[t] = FALSE, missing # t, picked # t, t \notin seen,
           RequestStart \/ RequestStep
    PROVE  /\ onlineStatus'[t] = FALSE /\ missing' # t /\ picked' # t /\ t \notin seen'
           /\ UNCHANGED <<condition, monitor, checks>>
<1> USE DEF TypeInv, TypeOK, StoresSome
<1>0. t # None
  BY NoneAssumption
<1>1. CASE RequestStart
  <2>1. UNCHANGED <<condition, monitor, onlineStatus, checks, seen>>
    BY <1>1 DEF RequestStart
  <2>2. CASE StickyHit
    <3>1. cookie # t
      BY <2>2 DEF StickyHit
    <3> QED
      BY <1>1, <2>1, <2>2, <3>1 DEF RequestStart
  <2>3. CASE ~StickyHit
    BY <1>1, <2>1, <2>3 DEF RequestStart
  <2> QED
    BY <2>2, <2>3
<1>2. CASE FilterOfflineOrigins
  <2>1. Filter(FALSE)
    <3>1. Unfiltered = FALSE
      BY DEF Unfiltered
    <3> QED
      BY <1>2, <3>1 DEF FilterOfflineOrigins
  <2>2. UNCHANGED <<condition, monitor, onlineStatus, checks>>
    BY <2>1 DEF Filter
  <2>3. CASE PickFrom(seen)
    <3>1. Choices(seen) \subseteq seen
      BY DEF Choices, Weighted
    <3> QED
      BY <2>2, <2>3, <3>1 DEF PickFrom
  <2>4. CASE /\ UNCHANGED <<picked, cookie>>
             /\ \E u \in left :
                   \/ onlineStatus[u] = None /\ missing' = u /\ UNCHANGED <<left, seen>>
                   \/ UNCHANGED missing /\ seen' = seen \cup {v \in {u} : onlineStatus[v]}
    <3>1. onlineStatus[t] # None
      BY NoneAssumption
    <3> QED
      BY <2>2, <2>4, <3>1
  <2> QED
    BY <2>1, <2>3, <2>4, Zenon DEF Filter
<1>3. CASE StoreMissing
  BY <1>0, <1>3 DEF StoreMissing
<1>4. CASE Respond
  BY <1>0, <1>4 DEF Respond
<1> QED
  BY <1>1, <1>2, <1>3, <1>4 DEF RequestStep

LEMMA TypeSafe == Spec => []TypeInv
<1>1. Init => TypeInv
  BY TypeInit DEF TypeInv, StoresSome, Init
<1> QED
  BY <1>1, TypeNext, PTL DEF Spec

\* A check goes on with an answer it had, or has just been given.
LEMMA CheckMoves ==
    ASSUME TypeInv, NEW k \in Checks, CheckStep(k)
    PROVE  /\ \A j \in Checks \ {k} : at'[j] = at[j] /\ answer'[j] = answer[j]
           /\ at[k] # "free" /\ condition' = condition /\ monitored' = monitored
           /\ at'[k] = "notify" => answer'[k] = condition[k[1]]
           /\ at'[k] = "test" => at[k] = "notify" /\ answer'[k] = answer[k]
           /\ at'[k] = "to_online" => at[k] = "test" /\ answer[k] = "up"
<1>0. /\ at \in [Checks -> {"free", "probe", "notify", "test", "to_offline", "to_online", "log"}]
      /\ answer \in [Checks -> Condition]
  BY DEF TypeInv, TypeOK
<1>1. CASE Answer(k)
  BY <1>0, <1>1 DEF Answer, monitor
<1>2. CASE Notify(k)
  BY <1>0, <1>2 DEF Notify, NotifyIf, monitor
<1>3. CASE Test(k)
  <2>1. /\ at[k] = "test" /\ answer' = [answer EXCEPT ![k] = "up"]
        /\ UNCHANGED <<condition, monitor>>
    BY <1>3, Zenon DEF Test, TestLists
  <2>2. \/ at' = [at EXCEPT ![k] = "to_offline"]
        \/ at' = [at EXCEPT ![k] = "log"]
        \/ answer[k] = "up" /\ at' = [at EXCEPT ![k] = "to_online"]
    BY <1>3, Zenon DEF Test, TestLists
  <2> QED
    BY <1>0, <2>1, <2>2 DEF monitor
<1>4. CASE MoveTargetToOffline(k) \/ MoveTargetToOnline(k)
  BY <1>0, <1>4 DEF MoveTargetToOffline, MoveTargetToOnline
<1>5. CASE Log(k)
  BY <1>0, <1>5 DEF Log
<1> QED
  BY <1>1, <1>2, <1>3, <1>4, <1>5 DEF CheckStep

\* A check that starts has no answer yet.
LEMMA PingMoves ==
    ASSUME TypeInv, NEW u \in Targets, MasterPing(u) \/ ShadowPing(u)
    PROVE  /\ \E k \in Checks : /\ k[1] = u /\ at[k] = "free"
                               /\ at' = [at EXCEPT ![k] = "probe"]
           /\ u \in monitored \/ offlineTargets[u] > 0
           /\ UNCHANGED <<condition, monitor, onlineStatus, answer, request>>
BY DEF MasterPing, ShadowPing, Spawn

\* What a check writes to the map: the answer it had when it came to that.
LEMMA CheckStores ==
    ASSUME TypeInv, NEW k \in Checks, CheckStep(k), NEW t \in Targets
    PROVE  /\ UNCHANGED request
           /\ \/ onlineStatus'[t] = onlineStatus[t]
              \/ k[1] = t /\ at[k] = "notify" /\ answer[k] # "down" /\ onlineStatus'[t] = TRUE
              \/ k[1] = t /\ at[k] = "notify" /\ answer[k] = "down" /\ onlineStatus'[t] = FALSE
<1>1. CASE Notify(k)
  <2>1. /\ at[k] = "notify" /\ UNCHANGED request
        /\ \/ onlineStatus' = [onlineStatus EXCEPT ![k[1]] = (answer[k] # "down")]
           \/ UNCHANGED onlineStatus
    BY <1>1, Zenon DEF Notify, NotifyIf
  <2>2. onlineStatus \in [Targets -> BOOLEAN \cup {None}]
    BY DEF TypeInv, TypeOK
  <2>3. (answer[k] # "down") = TRUE \/ (answer[k] = "down" /\ (answer[k] # "down") = FALSE)
    OBVIOUS
  <2> QED
    BY <2>1, <2>2, <2>3
<1>2. CASE Answer(k) \/ Test(k) \/ MoveTargetToOffline(k) \/ MoveTargetToOnline(k) \/ Log(k)
  <2>1. UNCHANGED <<onlineStatus, request>>
    BY <1>2 DEF Answer, Test, TestLists, MoveTargetToOffline, MoveTargetToOnline, Log
  <2> QED
    BY <2>1
<1> QED
  BY <1>1, <1>2 DEF CheckStep

LEMMA DeadStays ==
    ASSUME TypeInv, ~Unfiltered, NEW t \in Targets,
           KnownDead(t), condition[t] = "down", [Next]_vars
    PROVE  KnownDead(t)'
<1> USE DEF KnownDead
<1>1. CASE RequestStart \/ RequestStep
  BY <1>1, RequestsAvoid DEF checks
<1>2. CASE Change \/ SetTargets \/ UNCHANGED vars
  BY <1>2 DEF Change, SetTargets, vars, monitor, lists, checks, request
<1>3. ASSUME NEW u \in Targets, MasterPing(u) \/ ShadowPing(u) PROVE KnownDead(t)'
  BY <1>3, PingMoves DEF request, TypeInv, TypeOK
<1>4. ASSUME NEW k \in Checks, CheckStep(k) PROVE KnownDead(t)'
  <2>1. onlineStatus'[t] = FALSE /\ UNCHANGED request
    BY <1>4, CheckStores
  <2>2. ASSUME NEW j \in Checks, j[1] = t, at'[j] = "notify" PROVE answer'[j] = "down"
    <3>1. CASE j = k
      BY <1>4, <2>2, <3>1, CheckMoves
    <3>2. CASE j # k
      BY <1>4, <2>2, <3>2, CheckMoves
    <3> QED
      BY <3>1, <3>2
  <2> QED
    BY <2>1, <2>2 DEF request
<1> QED
  BY <1>1, <1>2, <1>3, <1>4 DEF Next

\* Once the failure of an upstream is known, no request is sent to it for as long
\* as it is down: not by a cookie, nor by a check that answers late, nor because
\* the host is edited, its monitoring ended and taken up again, or another
\* request did not find it in the map (GetRequestUpstreamTarget,
\* NotifyHostOnlineState).
THEOREM DeadStaysLeft ==
    ASSUME ~Unfiltered, NEW t \in Targets
    PROVE  Spec => [](KnownDead(t) /\ [](condition[t] = "down") => [](picked # t))
<1>1. TypeInv /\ KnownDead(t) /\ condition[t] = "down" /\ [Next]_vars => KnownDead(t)'
  BY DeadStays
<1>2. KnownDead(t) => picked # t
  BY DEF KnownDead
<1>3. Spec => []TypeInv
  BY TypeSafe
<1> QED
  BY <1>1, <1>2, <1>3, PTL DEF Spec

LEMMA LiveStays ==
    ASSUME TypeInv, NEW t \in Targets,
           KnownLive(t), condition[t] # "down", [Next]_vars
    PROVE  KnownLive(t)'
<1> USE DEF KnownLive
<1>0. /\ at \in [Checks -> {"free", "probe", "notify", "test", "to_offline", "to_online", "log"}]
      /\ onlineStatus \in [Targets -> BOOLEAN \cup {None}] /\ None # FALSE
  BY NoneAssumption DEF TypeInv, TypeOK
<1>1. CASE Change \/ SetTargets \/ RequestStart \/ FilterOfflineOrigins \/ Respond \/ UNCHANGED vars
  BY <1>1 DEF Change, SetTargets, RequestStart, FilterOfflineOrigins, Filter, Respond,
              vars, checks
<1>2. CASE StoreMissing
  BY <1>0, <1>2 DEF StoreMissing, checks
<1>3. ASSUME NEW u \in Targets, MasterPing(u) \/ ShadowPing(u) PROVE KnownLive(t)'
  BY <1>0, <1>3, PingMoves
<1>4. ASSUME NEW k \in Checks, CheckStep(k) PROVE KnownLive(t)'
  <2>1. onlineStatus'[t] # FALSE
    BY <1>4, CheckStores
  <2>2. ASSUME NEW j \in Checks, j[1] = t, at'[j] = "notify" PROVE answer'[j] # "down"
    <3>1. CASE j = k
      BY <1>4, <2>2, <3>1, CheckMoves
    <3>2. CASE j # k
      BY <1>4, <2>2, <3>2, CheckMoves
    <3> QED
      BY <3>1, <3>2
  <2> QED
    BY <2>1, <2>2
<1> QED
  BY <1>1, <1>2, <1>3, <1>4 DEF Next, RequestStep

\* Once an upstream is known to answer, it is offered to requests for as long as
\* it does, whatever its checks and the host's edits overlap with.
THEOREM LiveStaysOffered ==
    ASSUME NEW t \in Targets
    PROVE  Spec => [](KnownLive(t) /\ [](condition[t] # "down") => [](onlineStatus[t] # FALSE))
<1>1. TypeInv /\ KnownLive(t) /\ condition[t] # "down" /\ [Next]_vars => KnownLive(t)'
  BY LiveStays
<1>2. KnownLive(t) => onlineStatus[t] # FALSE
  BY DEF KnownLive
<1> QED
  BY <1>1, <1>2, TypeSafe, PTL DEF Spec

LEMMA WatchStays ==
    ASSUME TypeInv, NEW t \in Targets,
           Watched(t), condition[t] # "up", t \in monitored', [Next]_vars
    PROVE  Watched(t)'
<1> USE DEF Watched
<1>0. /\ at \in [Checks -> {"free", "probe", "notify", "test", "to_offline", "to_online", "log"}]
      /\ onlineTargets \in Entries /\ offlineTargets \in Entries
  BY DEF TypeInv, TypeOK
<1>1. CASE Change \/ RequestStart \/ RequestStep \/ UNCHANGED vars
  BY <1>1 DEF Change, RequestStart, RequestStep, FilterOfflineOrigins, Filter, StoreMissing,
              Respond, vars, monitor, lists, checks
<1>2. CASE SetTargets
  <2>1. offlineTargets'[t] = 1
    BY <1>2 DEF SetTargets
  <2> QED
    BY <1>2, <2>1 DEF SetTargets, checks
<1>3. ASSUME NEW u \in Targets, MasterPing(u) \/ ShadowPing(u) PROVE Watched(t)'
  BY <1>0, <1>3, PingMoves DEF monitor, lists
<1>4. ASSUME NEW k \in Checks, CheckStep(k) PROVE Watched(t)'
  <2>0. k[1] \in Targets
    BY CheckTargets
  <2>1. offlineTargets'[t] > 0
    <3>1. CASE Answer(k) \/ Notify(k) \/ Test(k) \/ Log(k)
      BY <3>1 DEF Answer, Notify, NotifyIf, Test, TestLists, Log, monitor, lists
    <3>2. CASE MoveTargetToOffline(k)
      BY <1>0, <2>0, <3>2, ListTypes DEF MoveTargetToOffline
    <3>3. CASE MoveTargetToOnline(k)
      <4>1. k[1] # t
        BY <3>3 DEF MoveTargetToOnline
      <4> QED
        BY <1>0, <2>0, <3>3, <4>1, ListTypes DEF MoveTargetToOnline
    <3> QED
      BY <1>4, <3>1, <3>2, <3>3 DEF CheckStep
  <2>2. ASSUME NEW j \in Checks, j[1] = t
        PROVE  at'[j] # "to_online" /\ (at'[j] \in {"notify", "test"} => answer'[j] # "up")
    <3>1. CASE j = k
      BY <1>4, <2>2, <3>1, CheckMoves
    <3>2. CASE j # k
      BY <1>4, <2>2, <3>2, CheckMoves
    <3> QED
      BY <3>1, <3>2
  <2> QED
    BY <2>1, <2>2
<1> QED
  BY <1>1, <1>2, <1>3, <1>4 DEF Next

\* An upstream that is in the offline list, and does not recover, stays in it for
\* as long as it is monitored: checks that overlap, results that come in another
\* order and edits that rebuild the lists do not take it out.
THEOREM FailureStaysWatched ==
    ASSUME NEW t \in Targets
    PROVE  Spec => [](Watched(t) /\ [](condition[t] # "up" /\ t \in monitored)
                        => [](offlineTargets[t] > 0))
<1>1. TypeInv /\ Watched(t) /\ condition[t] # "up" /\ (t \in monitored)' /\ [Next]_vars
        => Watched(t)'
  BY WatchStays
<1>2. Watched(t) => offlineTargets[t] > 0
  BY DEF Watched
<1> QED
  BY <1>1, <1>2, TypeSafe, PTL DEF Spec

LEMMA AbandonedStays ==
    ASSUME TypeInv, ~Unfiltered, NEW t \in Targets,
           Abandoned(t), t \notin monitored', [Next]_vars
    PROVE  Abandoned(t)'
<1> USE DEF Abandoned
<1>0. /\ at \in [Checks -> {"free", "probe", "notify", "test", "to_offline", "to_online", "log"}]
      /\ onlineTargets \in Entries /\ offlineTargets \in Entries
  BY DEF TypeInv, TypeOK
<1>1. CASE RequestStart \/ RequestStep
  BY <1>1, RequestsAvoid DEF checks, monitor, lists
<1>2. CASE Change \/ UNCHANGED vars
  BY <1>2 DEF Change, vars, monitor, lists, checks, request
<1>3. CASE SetTargets
  BY <1>3 DEF SetTargets, checks, request
<1>4. ASSUME NEW u \in Targets, MasterPing(u) \/ ShadowPing(u) PROVE Abandoned(t)'
  <2>1. u # t
    BY <1>4, PingMoves
  <2> QED
    BY <1>0, <1>4, <2>1, PingMoves DEF monitor, lists, request
<1>5. ASSUME NEW k \in Checks, CheckStep(k) PROVE Abandoned(t)'
  <2>0. k[1] \in Targets
    BY CheckTargets
  <2>1. k[1] # t
    BY <1>5, CheckMoves
  <2>2. onlineTargets'[t] = 0 /\ offlineTargets'[t] = 0
    <3>1. CASE Answer(k) \/ Notify(k) \/ Test(k) \/ Log(k)
      BY <3>1 DEF Answer, Notify, NotifyIf, Test, TestLists, Log, monitor, lists
    <3>2. CASE MoveTargetToOffline(k) \/ MoveTargetToOnline(k)
      BY <1>0, <2>0, <2>1, <3>2, ListTypes DEF MoveTargetToOffline, MoveTargetToOnline
    <3> QED
      BY <1>5, <3>1, <3>2 DEF CheckStep
  <2>3. onlineStatus'[t] = FALSE /\ UNCHANGED request
    BY <1>5, <2>1, CheckStores
  <2>4. \A j \in Checks : j[1] = t => at'[j] = "free"
    BY <1>5, <2>1, CheckMoves
  <2> QED
    BY <2>2, <2>3, <2>4 DEF request
<1> QED
  BY <1>1, <1>2, <1>3, <1>4, <1>5 DEF Next

\* The other side of this: an upstream whose monitoring is ended while the map
\* says it is offline, and of which no check is under way any more, gets no
\* request again until its host is monitored again, even if it has long
\* recovered: nothing is left that would put it back, and IsTargetOnline asks
\* the map alone.
THEOREM AbandonedStaysOut ==
    ASSUME ~Unfiltered, NEW t \in Targets
    PROVE  Spec => [](Abandoned(t) /\ [](t \notin monitored) => [](picked # t))
<1>1. TypeInv /\ Abandoned(t) /\ (t \notin monitored)' /\ [Next]_vars => Abandoned(t)'
  BY AbandonedStays
<1>2. Abandoned(t) => picked # t
  BY DEF Abandoned
<1> QED
  BY <1>1, <1>2, TypeSafe, PTL DEF Spec

=============================================================================
