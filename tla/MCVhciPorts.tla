---------------------------- MODULE MCVhciPorts ----------------------------
(* Instances of VhciPorts for TLC: every port fits every location. *)
EXTENDS VhciPortsProps, TLC

MCPortRange == [l \in Locations |-> Ports]

MCSymmetry == Permutations(Handles) \cup Permutations(Tries)
=============================================================================
