--------------------------- MODULE MCPluginLifecycle ---------------------------
(* Instances of PluginLifecycle and of the event system it contains for TLC. *)
EXTENDS PluginLifecycle, TLC

CONSTANTS admin, request, cleanup1, cleanup2

Cleanups == (admin :> cleanup1) @@ (request :> cleanup2)
AllEvents == [l \in Listeners |-> Events]
================================================================================
