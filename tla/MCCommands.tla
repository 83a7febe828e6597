----------------------------- MODULE MCCommands -----------------------------
(* Commands for TLC: every table, three processes.                           *)
EXTENDS Commands, TLC

CONSTANTS c1, c2, c3

\* An update of a hardware configuration needs two columns.
OneOrTwo == [t \in DOMAIN Flags |-> IF t = "hardware_configs" THEN 2 ELSE 1]
Symmetry == Permutations(Cmds)

=============================================================================
