---------------------------- MODULE MCFleetQuery ----------------------------
EXTENDS FleetQuery, TLC

Symmetry == Permutations(Versions) \cup Permutations(Serials)
              \cup Permutations(ProxyNames) \cup Permutations(HwIds)
              \cup Permutations(Settings)
=============================================================================
