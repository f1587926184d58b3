---- MODULE MCStreamProxy ----
(* Instances of StreamProxy for TLC. *)
EXTENDS StreamProxy, TLC

CONSTANTS r1, r2

AllOps == [r \in Rules |-> OpNames]
\* r1 forwards TCP and UDP, and listening may fail; r2 forwards TCP.
TwoRuleModes == (r1 :> {Protos}) @@ (r2 :> {{"tcp"}})
\* Any protocols.
AnyModes == [r \in Rules |-> SUBSET Protos \ {{}}]
BothFail == {r1} \X Protos
====
