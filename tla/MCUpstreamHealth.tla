-------------------------- MODULE MCUpstreamHealth --------------------------
(* Instances of UpstreamHealth for TLC. *)
EXTENDS UpstreamHealth, TLC

CONSTANTS t1, t2

\* t1 comes and goes; t2 stays up, and serves only when t1 cannot.
FirstWeighted == (t1 :> 1) @@ (t2 :> 0)
FirstFails == (t1 :> {"up", "down"}) @@ (t2 :> {"up"})
\* Two checks of t1 overlap; one of t2, which is always up, changes nothing.
FirstChecked == {t1} \X {1, 2}

\* An edit keeps the upstreams, or also ends the monitoring of the host.
KeptOrEnded == {Targets, {}}
=============================================================================
