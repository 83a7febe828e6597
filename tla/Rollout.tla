------------------------------- MODULE Rollout -------------------------------
(***************************************************************************)
(* What a fleet update promises, with no broker, no channels and no        *)
(* goroutines: nodes become ready and then done, each of them may be       *)
(* ordered to apply, to keep (ack) or to drop (rollback) its new           *)
(* configuration, and the caller is told one outcome.                      *)
(*                                                                         *)
(* The promise is the one of a two-phase commit: nobody is ordered to      *)
(* apply before everybody is ready, nobody is ordered to keep the update   *)
(* before everybody has applied it, an update is never both kept and       *)
(* dropped, and "ok" means that every node was ordered to keep it.         *)
(***************************************************************************)
EXTENDS FiniteSets

CONSTANT Nodes     \* the nodes of the fleet

VARIABLES
  ready,           \* the nodes that accepted the new configuration
  done,            \* the nodes that run the new configuration
  orders,          \* orders[n]: what n was ordered to do
  outcome          \* what the caller of the update was told

rolloutVars == <<ready, done, orders, outcome>>

Orders == {"apply", "ack", "rollback"}

NobodyOrdered(o) == \A n \in Nodes : o \notin orders[n]

Init ==
  /\ ready = {}
  /\ done = {}
  /\ orders = [n \in Nodes |-> {}]
  /\ outcome = "none"

BecomeReady(n) ==
  /\ ready' = ready \cup {n}
  /\ UNCHANGED <<done, orders, outcome>>

BecomeDone(n) ==
  /\ done' = done \cup {n}
  /\ UNCHANGED <<ready, orders, outcome>>

Order(n, o) ==
  /\ orders' = [orders EXCEPT ![n] = @ \cup {o}]
  /\ UNCHANGED <<ready, done, outcome>>

OrderApply(n) ==
  /\ ready = Nodes
  /\ NobodyOrdered("ack") /\ NobodyOrdered("rollback")
  /\ Order(n, "apply")

OrderAck(n) ==
  /\ done = Nodes
  /\ NobodyOrdered("rollback")
  /\ Order(n, "ack")

OrderRollback(n) ==
  /\ NobodyOrdered("ack")
  /\ Order(n, "rollback")

\* The caller learns the outcome once; "ok" is not said before every node was
\* ordered to keep the update.
Conclude(o) ==
  /\ outcome = "none"
  /\ o = "ok" => \A n \in Nodes : "ack" \in orders[n]
  /\ outcome' = o
  /\ UNCHANGED <<ready, done, orders>>

Next ==
  \/ \E n \in Nodes :
       BecomeReady(n) \/ BecomeDone(n) \/ OrderApply(n) \/ OrderAck(n) \/ OrderRollback(n)
  \/ \E o \in {"ok", "err", "timeout"} : Conclude(o)

Spec == Init /\ [][Next]_rolloutVars

==============================================================================
