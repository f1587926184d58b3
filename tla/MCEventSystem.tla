---------------------------- MODULE MCEventSystem ----------------------------
(* Instances of EventSystem for TLC. *)
EXTENDS EventSystem, TLC

CONSTANTS t1, t2, c1, c2

Cleanups == (t1 :> c1) @@ (t2 :> c2)
==============================================================================
