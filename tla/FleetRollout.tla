----------------------------- MODULE FleetRollout -----------------------------
(***************************************************************************)
(* UpdateFleet keeps the promise of Rollout.  A node is ready, or done,    *)
(* once it has reported so for this update; the orders are the commands    *)
(* published to it beyond the configuration itself.                        *)
(***************************************************************************)
EXTENDS FleetUpdate

Ready      == {n \in Nodes : "APPLICABLE" \in reported[n]}
Done       == {n \in Nodes : "APPLIED" \in reported[n]}
OrdersMade == [n \in Nodes |-> ordered[n] \ {"config"}]

Promise == INSTANCE Rollout
             WITH ready <- Ready, done <- Done, orders <- OrdersMade, outcome <- result

\* Every behaviour of the handler, the processor, the callback and the nodes is
\* one the abstract rollout allows (lines 466-1003): however the steps of the
\* four interleave and whatever fails, the orders come in two phases.
KeepsPromise == Promise!Spec

==============================================================================
