------------------------- MODULE MCRouterLifecycle -------------------------
(* Instances of RouterLifecycle for TLC: which caller requests what. *)
EXTENDS RouterLifecycle, TLC

CONSTANTS c1, c2, a1, a2

\* One administrator at a time: the requests of one caller.
OneCaller == {c1}
TwoCallers == {c1, c2}
OneAddr == {a1}
TwoAddrs == {a1, a2}

SerialOps == [c \in {c1} |-> OpNames]
\* c1 starts the router and changes listening ports, c2 changes ports too.
UpdateOps == (c1 :> {"start", "ports"}) @@ (c2 :> {"ports", "edit"})
StopUpdateOps == (c1 :> {"start", "stop"}) @@ (c2 :> {"ports"})

IdsSymmetry == Permutations(Ids) \cup Permutations(Servers)
=============================================================================
