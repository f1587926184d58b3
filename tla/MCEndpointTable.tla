--------------------------- MODULE MCEndpointTable ---------------------------
(* Instances of EndpointTable for TLC. *)
EXTENDS EndpointTable, TLC

Symmetry == Permutations(Objects) \cup Permutations(Callers) \cup Permutations(Hosts)
                \cup Permutations(Settings)
==============================================================================
