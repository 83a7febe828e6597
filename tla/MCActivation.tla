----------------------------- MODULE MCActivation -----------------------------
(* Small instances of Activation for TLC. *)
EXTENDS Activation, TLC

CallSymmetry == Permutations(VersionCalls)
==============================================================================
