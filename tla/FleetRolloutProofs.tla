-------------------------- MODULE FleetRolloutProofs --------------------------
(***************************************************************************)
(* UpdateFleet implements Rollout, for every fleet: the initial states map *)
(* to initial states and every step to a step of Rollout or to none.       *)
(***************************************************************************)
EXTENDS FleetRollout, FleetUpdateProofs

(* Nothing was reported or ordered at the start.                           *)
LEMMA RefinementInit == Init => Promise!Init
  BY DEF Init, Promise!Init, Ready, Done, OrdersMade

(* A step that leaves the histories and the result alone is no step of     *)
(* Rollout.                                                                *)
LEMMA RefinementStutter ==
  ASSUME UNCHANGED <<reported, ordered, result>>
  PROVE  UNCHANGED Promise!rolloutVars
  BY DEF Promise!rolloutVars, Ready, Done, OrdersMade

(* The handler concludes once, and with "ok" only when all were told to keep *)
(* the update.                                                             *)
LEMMA RefinementConclude ==
  ASSUME TypeOK, IInv, UNCHANGED <<reported, ordered>>, result = "none",
         result' \in {"ok", "err", "timeout"}, result' = "ok" => AllAcked
  PROVE  Promise!Next
  <1>1. UNCHANGED <<Ready, Done, OrdersMade>>
    BY DEF Ready, Done, OrdersMade
  <1>2. result' = "ok" => \A n \in Nodes : "ack" \in OrdersMade[n]
    BY DEF AllAcked, OrdersMade
  <1>3. Promise!Conclude(result')
    BY <1>1, <1>2 DEF Promise!Conclude
  <1>4. QED
    BY <1>3 DEF Promise!Next

(* Every publish is an order Rollout allows, or the configuration itself.  *)
LEMMA RefinementPublish ==
  ASSUME TypeOK, IInv, NEW n \in Nodes, Publishing(n)
  PROVE  Promise!Next \/ UNCHANGED Promise!rolloutVars
  <1> NodesOK
    BY DEF TypeOK
  <1>1. PICK c \in Commands :
          /\ ordered' = ordered \/ ordered' = [ordered EXCEPT ![n] = @ \cup {c}]
          /\ ppc = (IF c = "config" THEN "publish" ELSE c)
          /\ UNCHANGED <<handlerVars, reported>>
    BY PublishingFacts
  <1>2. UNCHANGED <<reported, result>> /\ UNCHANGED <<Ready, Done>>
    BY <1>1 DEF handlerVars, Ready, Done
  <1>3. CASE ordered' = ordered
    BY <1>2, <1>3, RefinementStutter
  <1>4. CASE ordered' = [ordered EXCEPT ![n] = @ \cup {c}] /\ c = "config"
    <2>1. OrdersMade' = OrdersMade
      BY <1>4 DEF OrdersMade, NodesOK
    <2>2. QED
      BY <1>2, <2>1 DEF Promise!rolloutVars
  <1>5. CASE ordered' = [ordered EXCEPT ![n] = @ \cup {c}] /\ c # "config"
    <2>1. OrdersMade' = [OrdersMade EXCEPT ![n] = @ \cup {c}]
      BY <1>5 DEF OrdersMade, NodesOK
    <2>2. Promise!Order(n, c)
      BY <1>2, <2>1 DEF Promise!Order
    <2>3. \A v \in {"ack", "rollback"} : ~Ordered(v) => Promise!NobodyOrdered(v)
      BY DEF Ordered, Promise!NobodyOrdered, OrdersMade
    <2>4. CASE c = "apply"
      <3>1. Ready = Nodes /\ ~Ordered("ack") /\ ~Ordered("rollback")
        BY <1>1, <2>4 DEF IInv, StatusInv, OrderInv, AllReported, Ready
      <3>2. Promise!OrderApply(n)
        BY <2>2, <2>3, <2>4, <3>1 DEF Promise!OrderApply
      <3>3. QED
        BY <3>2 DEF Promise!Next
    <2>5. CASE c = "ack"
      <3>1. Done = Nodes /\ ~Ordered("rollback")
        BY <1>1, <2>5 DEF IInv, StatusInv, OrderInv, AllReported, Done
      <3>2. Promise!OrderAck(n)
        BY <2>2, <2>3, <2>5, <3>1 DEF Promise!OrderAck
      <3>3. QED
        BY <3>2 DEF Promise!Next
    <2>6. CASE c = "rollback"
      <3>1. ~Ordered("ack")
        BY <1>1, <2>6 DEF IInv, OrderInv
      <3>2. Promise!OrderRollback(n)
        BY <2>2, <2>3, <2>6, <3>1 DEF Promise!OrderRollback
      <3>3. QED
        BY <3>2 DEF Promise!Next
    <2>7. QED
      BY <1>5, <2>4, <2>5, <2>6 DEF Commands
  <1>6. QED
    BY <1>1, <1>3, <1>4, <1>5

(* A report makes its node ready, or done, or changes nothing.             *)
LEMMA RefinementReport ==
  ASSUME TypeOK, NEW n \in Nodes, NEW st, Say(n, st), UNCHANGED <<ordered, result>>
  PROVE  Promise!Next \/ UNCHANGED Promise!rolloutVars
  <1> NodesOK
    BY DEF TypeOK
  <1>1. reported' = [reported EXCEPT ![n] = @ \cup {st}] /\ OrdersMade' = OrdersMade
    BY DEF Say, OrdersMade
  <1>2. CASE st = "APPLICABLE"
    <2>1. Ready' = Ready \cup {n} /\ Done' = Done
      BY <1>1, <1>2 DEF Ready, Done, NodesOK
    <2>2. Promise!BecomeReady(n)
      BY <1>1, <2>1 DEF Promise!BecomeReady
    <2>3. QED
      BY <2>2 DEF Promise!Next
  <1>3. CASE st = "APPLIED"
    <2>1. Done' = Done \cup {n} /\ Ready' = Ready
      BY <1>1, <1>3 DEF Ready, Done, NodesOK
    <2>2. Promise!BecomeDone(n)
      BY <1>1, <2>1 DEF Promise!BecomeDone
    <2>3. QED
      BY <2>2 DEF Promise!Next
  <1>4. CASE st \notin {"APPLICABLE", "APPLIED"}
    <2>1. Ready' = Ready /\ Done' = Done
      BY <1>1, <1>4 DEF Ready, Done, NodesOK
    <2>2. QED
      BY <1>1, <2>1 DEF Promise!rolloutVars
  <1>5. QED
    BY <1>2, <1>3, <1>4

(* Only the steps that end the handler's wait set its result.              *)
LEMMA ResultFrame ==
  ASSUME [Next]_vars
  PROVE  \/ UNCHANGED result
         \/ GetClient \/ SubscribeFails \/ HandlerDone \/ HandlerTimeout
  BY VerdictFrame, PublishingFacts
  DEF Publishing, Exiting, Subscribe, CloseNodeChan, Cancel, Cleanup,
      PublishConfig, SendApply, SendAck, SendOrExit, SendRollback, PublishCancelled,
      AnnouncePublished, LoopCancelled, Receive, AnnounceApplicable, AnnounceApplied,
      AnnounceError, ApplySent, AckSent, RollbackSent, handlerVars

(* Every step of UpdateFleet is a step of Rollout, or none.                *)
LEMMA RefinementStep ==
  ASSUME TypeOK, IInv, [Next]_vars
  PROVE  Promise!Next \/ UNCHANGED Promise!rolloutVars
  <1>1. CASE UNCHANGED result /\ UNCHANGED nodeVars
    BY <1>1, RefinementStutter DEF nodeVars
  <1>2. ASSUME NEW n \in Nodes, Publishing(n)
        PROVE  Promise!Next \/ UNCHANGED Promise!rolloutVars
    BY <1>2, RefinementPublish
  <1>3. ASSUME NEW n \in Nodes, NodeSteps(n) \/ NodeRepeat(n)
        PROVE  Promise!Next \/ UNCHANGED Promise!rolloutVars
    <2>1. UNCHANGED <<ordered, result>> /\ (UNCHANGED reported \/ \E st : Say(n, st))
      BY <1>3 DEF NodeSteps, NodeConfig, NodeApply, NodeFinish, NodeRepeat, Hears, handlerVars
    <2>2. QED
      BY <2>1, RefinementStutter, RefinementReport
  <1>4. ASSUME NEW s, PickUp(s) \/ StrangerReport(s) PROVE UNCHANGED Promise!rolloutVars
    BY <1>4, RefinementStutter DEF PickUp, StrangerReport, handlerVars
  <1>5. CASE (GetClient \/ SubscribeFails \/ HandlerDone \/ HandlerTimeout) /\ result' # result
    <2>1. UNCHANGED <<reported, ordered>>
      BY <1>5 DEF GetClient, SubscribeFails, HandlerDone, HandlerTimeout, nodeVars
    <2>2. result = "none"
      BY <1>5 DEF GetClient, SubscribeFails, HandlerDone, HandlerTimeout, IInv, OrderInv
    <2>3. result' \in {"ok", "err", "timeout"} /\ (result' = "ok" => AllAcked)
      <3>1. CASE HandlerDone
        <4>1. Head(doneChan) = doneChan[1] /\ 1 \in 1 .. Len(doneChan)
              /\ doneChan[1] \in {"ok", "err"}
          BY <3>1 DEF HandlerDone, TypeOK, ChannelsOK
        <4>2. QED
          BY <3>1, <4>1 DEF HandlerDone, IInv, OrderInv
      <3>2. CASE ~HandlerDone
        BY <1>5, <3>2 DEF GetClient, SubscribeFails, HandlerTimeout
      <3>3. QED
        BY <3>1, <3>2
    <2>4. QED
      BY <2>1, <2>2, <2>3, RefinementConclude
  <1>6. CASE UNCHANGED nodeVars /\ result' # result
    BY <1>5, <1>6, ResultFrame
  <1>7. QED
    BY <1>1, <1>2, <1>3, <1>4, <1>6, NodeFrame DEF Reporters

(* UpdateFleet keeps the promise of Rollout, whatever the size of the      *)
(* fleet, as long as no report on an earlier update is under way.          *)
THEOREM PromiseKept == ASSUME "stale" \notin Faults PROVE Spec => KeepsPromise
  <1>1. TypeOK /\ IInv /\ [Next]_vars => [Promise!Next]_(Promise!rolloutVars)
    BY RefinementStep
  <1>2. QED
    BY RefinementInit, <1>1, InvCorrect, PTL DEF Spec, KeepsPromise, Promise!Spec

==============================================================================
