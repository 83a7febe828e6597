---------------------------- MODULE MCFleetUpdate ----------------------------
(* FleetUpdate for TLC: the nodes are model values, and interchangeable.     *)
EXTENDS FleetRollout, TLC

Symmetry == Permutations(Nodes)

==============================================================================
