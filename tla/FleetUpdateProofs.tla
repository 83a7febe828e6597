-------------------------- MODULE FleetUpdateProofs --------------------------
(***************************************************************************)
(* Theorems about FleetUpdate for every fleet, every channel capacity and  *)
(* every number of unsolicited reports.                                    *)
(***************************************************************************)
EXTENDS FleetUpdate, FiniteSetTheorems, SequenceTheorems, TLAPS

------------------------------------------------------------------------------
(* Frames: which steps touch which group of variables *)

Publishing(n) == PublishConfig(n) \/ SendApply(n) \/ SendAck(n) \/ SendRollback(n)
Exiting ==
  PublishCancelled \/ AnnouncePublished \/ LoopCancelled \/ AnnounceApplicable
  \/ AnnounceApplied \/ AckSent \/ RollbackSent

(* Only publishes, deliveries to the callback, the nodes and other devices *)
(* change the queues of the broker, the nodes or the histories.            *)
LEMMA NodeFrame ==
  ASSUME [Next]_vars
  PROVE  \/ UNCHANGED nodeVars
         \/ \E n \in Nodes : Publishing(n) \/ NodeSteps(n) \/ NodeRepeat(n)
         \/ \E s \in Reporters : PickUp(s)
         \/ \E s \in Strangers : StrangerReport(s)
  BY DEF Publishing, Next, Running, Handler, Processor, Callback, Environment,
         GetClient, Subscribe, SubscribeFails, HandlerDone, HandlerTimeout, CloseNodeChan,
         Cancel, Cleanup, Expire, PublishCancelled, AnnouncePublished, LoopCancelled,
         Receive, AnnounceApplicable, AnnounceApplied, AnnounceError, ApplySent, AckSent,
         RollbackSent, PushToChan, PushToClosedChan, LoseSession, HangUp, vars

(* Only the handler's end, the processor and the callback change a channel. *)
LEMMA ChannelFrame ==
  ASSUME [Next]_vars
  PROVE  \/ UNCHANGED channelVars
         \/ HandlerDone \/ CloseNodeChan
         \/ \E n \in Nodes : Publishing(n)
         \/ Exiting \/ Receive
         \/ PushToChan \/ \E s \in Reporters : PickUp(s)
  BY DEF Publishing, Exiting, Next, Running, Handler, Processor, Callback, Environment,
         NodeSteps, GetClient, Subscribe, SubscribeFails, HandlerTimeout,
         Cancel, Cleanup, Expire, AnnounceError, ApplySent,
         PushToClosedChan, LoseSession, HangUp,
         NodeConfig, NodeApply, NodeFinish, NodeRepeat, Hears, StrangerReport, vars

(* Only the start of the processor and its own steps change its state.     *)
LEMMA ProcessorFrame ==
  ASSUME [Next]_vars
  PROVE  \/ UNCHANGED processorVars
         \/ Subscribe
         \/ \E n \in Nodes : Publishing(n)
         \/ Exiting \/ Receive \/ AnnounceError \/ ApplySent
  BY DEF Publishing, Exiting, Next, Running, Handler, Processor, Callback, Environment,
         NodeSteps, GetClient, SubscribeFails, HandlerDone, HandlerTimeout, CloseNodeChan,
         Cancel, Cleanup, Expire, PushToChan, PushToClosedChan, PickUp,
         LoseSession, HangUp, NodeConfig, NodeApply, NodeFinish, NodeRepeat, Hears,
         StrangerReport, vars

------------------------------------------------------------------------------
(* Type correctness *)

(* The capacities are natural numbers.                                     *)
LEMMA CapNat == NodeChanCap \in Nat /\ DoneChanCap = 1
  BY FS_CardinalityType, NodesAssumption, BoundsAssumption DEF NodeChanCap, DoneChanCap

(* The initial states are well typed.                                      *)
LEMMA TypeInit == Init => TypeOK
  <1> SUFFICES ASSUME Init PROVE TypeOK
    OBVIOUS
  <1>1. HandlerOK
    <2>1. 0 \in 0 .. MaxNoise
      BY BoundsAssumption
    <2>2. QED
      BY <2>1 DEF Init, HandlerOK
  <1>2. ProcessorOK
    BY DEF Init, ProcessorOK, GlobalStates
  <1>3. ChannelsOK
    BY CapNat DEF Init, ChannelsOK
  <1>4. NodesOK
    <2>1. \A s \in Reporters : OldReports(s) \subseteq Seq(Reports)
      <3>1. ASSUME NEW s \in Nodes, NEW st \in NodeStates
            PROVE  <<Report(s, st, "old")>> \in Seq(Reports)
        <4>1. Report(s, st, "old") \in Reports
          BY DEF Report, Reports, Received, Reporters
        <4>2. QED
          BY <4>1
      <3>2. <<>> \in Seq(Reports)
        OBVIOUS
      <3>3. ASSUME NEW s \in Reporters, NEW q \in OldReports(s)
            PROVE  q \in Seq(Reports)
        <4>1. q = <<>> \/ (s \in Nodes /\ \E st \in NodeStates : q = <<Report(s, st, "old")>>)
          BY <3>3 DEF OldReports
        <4>2. QED
          BY <3>1, <3>2, <4>1
      <3>4. QED
        BY <3>3
    <2>2. outbox \in [Reporters -> Seq(Reports)]
      BY <2>1 DEF Init, LeftOverReports
    <2>3. QED
      BY <2>2 DEF Init, NodesOK
  <1>5. QED
    BY <1>1, <1>2, <1>3, <1>4 DEF TypeOK

(* Every step keeps the handler's variables in their ranges.               *)
LEMMA HandlerStep == ASSUME TypeOK, [Next]_vars PROVE HandlerOK'
  <1> USE DEF HandlerOK
  <1> HandlerOK /\ ChannelsOK
    BY DEF TypeOK
  <1>1. CASE UNCHANGED handlerVars /\ UNCHANGED envVars
    BY <1>1 DEF handlerVars, envVars
  <1>2. CASE GetClient \/ Subscribe \/ SubscribeFails \/ HandlerTimeout \/ CloseNodeChan
              \/ Cancel \/ Cleanup \/ Expire
    BY <1>2 DEF GetClient, Subscribe, SubscribeFails, HandlerTimeout, CloseNodeChan,
                Cancel, Cleanup, Expire, envVars
  <1>3. CASE HandlerDone
    <2>1. Head(doneChan) \in {"ok", "err"}
      BY <1>3 DEF HandlerDone, ChannelsOK
    <2>2. QED
      BY <1>3, <2>1 DEF HandlerDone, envVars
  <1>4. CASE PushToClosedChan \/ LoseSession \/ HangUp
    BY <1>4 DEF PushToClosedChan, LoseSession, HangUp, handlerVars, envVars
  <1>5. ASSUME NEW n \in Nodes, NodeRepeat(n) PROVE HandlerOK'
    BY <1>5, BoundsAssumption DEF NodeRepeat, handlerVars
  <1>6. ASSUME NEW s \in Strangers, StrangerReport(s) PROVE HandlerOK'
    BY <1>6, BoundsAssumption DEF StrangerReport, handlerVars
  <1>7. QED
    BY <1>1, <1>2, <1>3, <1>4, <1>5, <1>6
    DEF Next, Running, Handler, Processor, Callback, Environment, NodeSteps, vars,
        PublishConfig, SendApply, SendAck, SendOrExit, SendRollback, PublishCancelled,
        AnnouncePublished, LoopCancelled, Receive, AnnounceApplicable, AnnounceApplied,
        AnnounceError, ApplySent, AckSent, RollbackSent, PushToChan, PickUp,
        NodeConfig, NodeApply, NodeFinish, Hears

(* A verdict is a global state, and what follows it a state of the processor. *)
LEMMA VerdictType ==
  ASSUME lastGlobal \in GlobalStates, NEW msg
  PROVE  /\ Verdict(msg) \in GlobalStates \cup {"reported"}
         /\ AfterVerdict(Verdict(msg)) \in
              {"announceApplicable", "announceApplied", "announceError", "loop"}
  <1>1. Verdict(msg) \in GlobalStates \cup {"reported"}
    BY DEF Verdict, GlobalStates
  <1>2. QED
    BY <1>1 DEF AfterVerdict

(* Every step keeps the processor's variables in their ranges.             *)
LEMMA ProcessorStep == ASSUME TypeOK, [Next]_vars PROVE ProcessorOK'
  <1> USE DEF ProcessorOK
  <1> ProcessorOK /\ ChannelsOK
    BY DEF TypeOK
  <1>1. CASE UNCHANGED processorVars
    BY <1>1 DEF processorVars, statusVars
  <1>2. CASE Subscribe
    BY <1>2 DEF Subscribe, statusVars
  <1>3. ASSUME NEW n \in Nodes, Publishing(n) PROVE ProcessorOK'
    BY <1>3 DEF Publishing, PublishConfig, SendApply, SendAck, SendOrExit, SendRollback,
                Exit, statusVars
  <1>4. CASE Exiting
    BY <1>4 DEF Exiting, PublishCancelled, AnnouncePublished, LoopCancelled,
                AnnounceApplicable, AnnounceApplied, AckSent, RollbackSent, Announce, Exit,
                statusVars, GlobalStates
  <1>5. CASE Receive
    <2>1. PICK msg \in Received \cup {NoReport} : HandleReport(msg)
      BY <1>5 DEF Receive, ChannelsOK
    <2>2. msg.state \in NodeStates \/ msg.from \notin Nodes
      BY NodesAssumption DEF Received, NoReport, Report
    <2>3. nodeState' \in [Nodes -> {"absent", "PUBLISHED"} \cup NodeStates]
      BY <2>1, <2>2 DEF HandleReport, NewNodeState, statusVars
    <2>4. lastGlobal' \in GlobalStates /\ ppc' \in {"exited", "announceApplicable",
                                                  "announceApplied", "announceError", "loop"}
      BY <2>1, VerdictType DEF HandleReport, Exit, statusVars
    <2>5. applySent' = applySent
      BY <2>1 DEF HandleReport, statusVars
    <2>6. QED
      BY <1>5, <2>3, <2>4, <2>5 DEF Receive
  <1>6. CASE AnnounceError
    BY <1>6 DEF AnnounceError, GlobalStates
  <1>7. CASE ApplySent
    BY <1>7 DEF ApplySent
  <1>8. QED
    BY <1>1, <1>2, <1>3, <1>4, <1>5, <1>6, <1>7, ProcessorFrame

(* Every step keeps the channels within their types and capacities.        *)
LEMMA ChannelsStep == ASSUME TypeOK, [Next]_vars PROVE ChannelsOK'
  <1> USE CapNat DEF ChannelsOK
  <1> ChannelsOK /\ NodesOK
    BY DEF TypeOK
  <1>0. \A e \in {"ok", "err"} : Exit(e) => doneChan' \in Seq({"ok", "err"})
                                          /\ Len(doneChan') <= DoneChanCap
    BY DEF Exit
  <1>1. CASE UNCHANGED channelVars
    BY <1>1 DEF channelVars
  <1>2. CASE HandlerDone
    BY <1>2 DEF HandlerDone
  <1>3. CASE CloseNodeChan
    BY <1>3 DEF CloseNodeChan
  <1>4. ASSUME NEW n \in Nodes, Publishing(n) PROVE ChannelsOK'
    BY <1>0, <1>4 DEF Publishing, PublishConfig, SendApply, SendAck, SendOrExit,
                      SendRollback, channelVars
  <1>5. CASE Exiting
    BY <1>0, <1>5 DEF Exiting, PublishCancelled, AnnouncePublished, LoopCancelled,
                      AnnounceApplicable, AnnounceApplied, AckSent, RollbackSent, Announce
  <1>6. CASE Receive
    <2>1. nodeChan' \in Seq(Received) /\ Len(nodeChan') <= NodeChanCap
      BY <1>6 DEF Receive
    <2>2. doneChan' \in Seq({"ok", "err"}) /\ Len(doneChan') <= DoneChanCap
      BY <1>0, <1>6 DEF Receive, HandleReport
    <2>3. QED
      BY <1>6, <2>1, <2>2 DEF Receive
  <1>7. CASE PushToChan
    BY <1>7 DEF PushToChan
  <1>8. ASSUME NEW s \in Reporters, PickUp(s) PROVE ChannelsOK'
    <2>1. Head(outbox[s]) \in Reports
      BY <1>8 DEF PickUp, NodesOK
    <2>2. cb' \in Received \cup {NoReport}
      BY <1>8, <2>1 DEF PickUp, Reports
    <2>3. QED
      BY <1>8, <2>2 DEF PickUp
  <1>9. QED
    BY <1>1, <1>2, <1>3, <1>4, <1>5, <1>6, <1>7, <1>8, ChannelFrame

(* Every step keeps the queues, phases and histories of the nodes typed.   *)
LEMMA NodesStep == ASSUME TypeOK, [Next]_vars PROVE NodesOK'
  <1> USE DEF NodesOK
  <1> NodesOK
    BY DEF TypeOK
  <1>1. CASE UNCHANGED nodeVars
    BY <1>1 DEF nodeVars
  <1>2. ASSUME NEW n \in Nodes, Publishing(n) PROVE NodesOK'
    <2>1. ASSUME NEW c \in Commands, Deliver(n, c)
          PROVE  inbox' \in [Nodes -> Seq(Commands)] /\ ordered' \in [Nodes -> SUBSET Commands]
      BY <2>1 DEF Deliver
    <2>2. inbox' \in [Nodes -> Seq(Commands)] /\ ordered' \in [Nodes -> SUBSET Commands]
      BY <1>2, <2>1 DEF Publishing, PublishConfig, SendApply, SendAck, SendOrExit,
                        SendRollback, Published, PublishFailed, Commands
    <2>3. UNCHANGED <<outbox, phase, reported>>
      BY <1>2 DEF Publishing, PublishConfig, SendApply, SendAck, SendOrExit, SendRollback
    <2>4. QED
      BY <2>2, <2>3
  <1>3. ASSUME NEW n \in Nodes, NEW st \in NodeStates, Say(n, st)
        PROVE  /\ outbox' \in [Reporters -> Seq(Reports)]
               /\ reported' \in [Nodes -> SUBSET NodeStates]
               /\ phase' \in [Nodes -> {"idle", "ack", "rollback"} \cup NodeStates]
    <2>1. Report(n, st, "this") \in Reports /\ n \in Reporters
      BY DEF Report, Reports, Received, Reporters
    <2>2. QED
      BY <1>3, <2>1 DEF Say
  <1>4. ASSUME NEW n \in Nodes, NodeSteps(n) PROVE NodesOK'
    <2>0. ASSUME NEW c, Hears(n, c)
          PROVE  inbox' \in [Nodes -> Seq(Commands)] /\ ordered' = ordered
      BY <2>0 DEF Hears
    <2>1. inbox' \in [Nodes -> Seq(Commands)] /\ ordered' = ordered
      BY <1>4, <2>0 DEF NodeSteps, NodeConfig, NodeApply, NodeFinish
    <2>2. CASE NodeConfig(n)
      BY <1>3, <2>1, <2>2 DEF NodeConfig, NodeStates
    <2>3. CASE NodeApply(n)
      BY <1>3, <2>1, <2>3 DEF NodeApply, NodeStates
    <2>4. CASE NodeFinish(n)
      BY <2>1, <2>4 DEF NodeFinish
    <2>5. QED
      BY <1>4, <2>2, <2>3, <2>4 DEF NodeSteps
  <1>5. ASSUME NEW n \in Nodes, NodeRepeat(n) PROVE NodesOK'
    BY <1>3, <1>5 DEF NodeRepeat
  <1>6. ASSUME NEW s \in Reporters, PickUp(s) PROVE NodesOK'
    BY <1>6 DEF PickUp
  <1>7. ASSUME NEW s \in Strangers, StrangerReport(s) PROVE NodesOK'
    <2>1. \A st \in {"APPLICABLE", "GARBLED"} : Report(s, st, "old") \in Reports
      BY DEF Report, Reports, Received, Reporters, NodeStates
    <2>2. s \in Reporters
      BY DEF Reporters
    <2>3. QED
      BY <1>7, <2>1, <2>2 DEF StrangerReport
  <1>8. QED
    BY <1>1, <1>2, <1>4, <1>5, <1>6, <1>7, NodeFrame

(* TypeOK holds throughout: in particular no channel ever holds more than  *)
(* its capacity, whatever the nodes and other devices send.                *)
THEOREM TypeCorrect == Spec => []TypeOK
  <1>1. TypeOK /\ [Next]_vars => TypeOK'
    BY HandlerStep, ProcessorStep, ChannelsStep, NodesStep DEF TypeOK
  <1>2. QED
    BY TypeInit, <1>1, PTL DEF Spec

------------------------------------------------------------------------------
(* The inductive invariant.  None of the gates is inductive by itself: an order *)
(* is justified by the processor's state, the processor's state by the reports  *)
(* it received, and these by what the nodes said, along outbox, cb and nodeChan. *)

Truthful(m) == m.from \in Nodes => m.state \in reported[m.from]

QueueInv ==
  /\ \A s \in Reporters : \A i \in 1 .. Len(outbox[s]) : Truthful(outbox[s][i])
  /\ Truthful(cb)
  /\ \A i \in 1 .. Len(nodeChan) : Truthful(nodeChan[i])

StatusInv ==
  /\ \A n \in Nodes : nodeState[n] \in NodeStates => nodeState[n] \in reported[n]
  /\ lastGlobal \in {"APPLICABLE", "APPLY_REQ"} => AllReported("APPLICABLE")
  /\ lastGlobal \in {"APPLIED", "ACKNOWLEDGED"} => AllReported("APPLIED")
  /\ ppc \in {"announceApplicable", "apply"} => AllReported("APPLICABLE")
  /\ ppc \in {"announceApplied", "ack"} => AllReported("APPLIED")

Ordered(c) == \E n \in Nodes : c \in ordered[n]
AllAcked   == \A n \in Nodes : "ack" \in ordered[n]

OrderInv ==
  /\ hpc \in {"connect", "subscribe"} => ppc = "idle"
  /\ Ordered("ack") => ppc \in {"ack", "exited"}
  /\ Ordered("rollback") => ppc \in {"rollback", "exited"}
  /\ ~(Ordered("ack") /\ Ordered("rollback"))
  /\ ppc = "ack" => \A n \in Nodes \ todo : "ack" \in ordered[n]
  /\ \A i \in 1 .. Len(doneChan) : doneChan[i] = "ok" => AllAcked
  /\ result = "ok" => AllAcked
  /\ hpc \in {"connect", "subscribe", "wait"} => result = "none"

GateInv == ApplyGate /\ AckGate /\ ToldIsTrue

IInv == QueueInv /\ StatusInv /\ OrderInv /\ GateInv

(* Histories only grow, so what all nodes have reported stays reported.    *)
LEMMA HistoriesGrow ==
  ASSUME TypeOK, [Next]_vars
  PROVE  /\ \A n \in Nodes : reported[n] \subseteq reported'[n] /\ ordered[n] \subseteq ordered'[n]
         /\ \A st : AllReported(st) => AllReported(st)'
         /\ \A m : Truthful(m) => (m.from \in Nodes => m.state \in reported'[m.from])
  <1> NodesOK
    BY DEF TypeOK
  <1>1. \A n \in Nodes : reported[n] \subseteq reported'[n] /\ ordered[n] \subseteq ordered'[n]
    <2>1. CASE UNCHANGED nodeVars
      BY <2>1 DEF nodeVars
    <2>2. ASSUME NEW n \in Nodes, Publishing(n)
          PROVE  /\ UNCHANGED reported
                 /\ UNCHANGED ordered \/ \E c \in Commands : Deliver(n, c)
      BY <2>2 DEF Publishing, PublishConfig, SendApply, SendAck, SendOrExit, SendRollback,
                  Published, PublishFailed, Commands
    <2>3. ASSUME NEW n \in Nodes, NEW c, Deliver(n, c)
          PROVE  \A m \in Nodes : ordered[m] \subseteq ordered'[m]
      BY <2>3 DEF Deliver, NodesOK
    <2>4. ASSUME NEW n \in Nodes, NodeSteps(n) \/ NodeRepeat(n)
          PROVE  /\ UNCHANGED ordered
                 /\ UNCHANGED reported \/ \E st : Say(n, st)
      BY <2>4 DEF NodeSteps, NodeConfig, NodeApply, NodeFinish, NodeRepeat, Hears
    <2>5. ASSUME NEW n \in Nodes, NEW st, Say(n, st)
          PROVE  \A m \in Nodes : reported[m] \subseteq reported'[m]
      BY <2>5 DEF Say, NodesOK
    <2>6. ASSUME NEW s, PickUp(s) \/ StrangerReport(s) PROVE UNCHANGED <<reported, ordered>>
      BY <2>6 DEF PickUp, StrangerReport
    <2>7. QED
      BY <2>1, <2>2, <2>3, <2>4, <2>5, <2>6, NodeFrame
  <1>2. QED
    BY <1>1 DEF AllReported, Truthful

(* Only these steps change what is on its way from the nodes to the processor. *)
LEMMA QueueFrame ==
  ASSUME [Next]_vars
  PROVE  \/ UNCHANGED <<nodeChan, cb, outbox, reported>>
         \/ Receive \/ PushToChan
         \/ \E n \in Nodes : NodeSteps(n) \/ NodeRepeat(n)
         \/ \E s \in Reporters : PickUp(s)
         \/ \E s \in Strangers : StrangerReport(s)
  BY DEF Next, Running, Handler, Processor, Callback, Environment,
         GetClient, Subscribe, SubscribeFails, HandlerDone, HandlerTimeout, CloseNodeChan,
         Cancel, Cleanup, Expire, PublishCancelled, AnnouncePublished, LoopCancelled,
         AnnounceApplicable, AnnounceApplied, AnnounceError, ApplySent, AckSent,
         RollbackSent, PublishConfig, SendApply, SendAck, SendOrExit, SendRollback,
         PushToClosedChan, LoseSession, HangUp, vars, nodeVars, channelVars

(* What is under way was said by the node it claims to come from.          *)
LEMMA QueueStep == ASSUME TypeOK, QueueInv, [Next]_vars PROVE QueueInv'
  <1> USE DEF QueueInv
  <1> NodesOK /\ ChannelsOK
    BY DEF TypeOK
  <1>0. \A m : Truthful(m) => (m.from \in Nodes => m.state \in reported'[m.from])
    BY HistoriesGrow
  <1>1. CASE UNCHANGED <<nodeChan, cb, outbox, reported>>
    BY <1>1 DEF Truthful
  <1>2. CASE Receive
    <2>1. UNCHANGED <<cb, outbox, reported>>
      BY <1>2 DEF Receive, nodeVars
    <2>2. nodeChan' = nodeChan \/ (nodeChan # <<>> /\ nodeChan' = Tail(nodeChan))
      BY <1>2 DEF Receive
    <2>3. \A i \in 1 .. Len(nodeChan') : \E j \in 1 .. Len(nodeChan) : nodeChan'[i] = nodeChan[j]
      <3>1. CASE nodeChan' = nodeChan
        BY <3>1
      <3>2. CASE nodeChan # <<>> /\ nodeChan' = Tail(nodeChan)
        BY <3>2 DEF ChannelsOK
      <3>3. QED
        BY <2>2, <3>1, <3>2
    <2>4. QED
      BY <2>1, <2>3 DEF Truthful
  <1>3. CASE PushToChan
    <2>1. UNCHANGED <<outbox, reported>> /\ cb' = NoReport /\ nodeChan' = Append(nodeChan, cb)
      BY <1>3 DEF PushToChan, nodeVars
    <2>2. \A i \in 1 .. Len(nodeChan') :
            nodeChan'[i] = cb \/ \E j \in 1 .. Len(nodeChan) : nodeChan'[i] = nodeChan[j]
      BY <2>1 DEF ChannelsOK
    <2>3. QED
      BY <2>1, <2>2, NodesAssumption DEF Truthful, NoReport, Report
  <1>4. ASSUME NEW n \in Nodes, NodeSteps(n) \/ NodeRepeat(n) PROVE QueueInv'
    <2>1. UNCHANGED <<nodeChan, cb>>
      BY <1>4 DEF NodeSteps, NodeConfig, NodeApply, NodeFinish, NodeRepeat, Hears, channelVars
    <2>2. CASE UNCHANGED <<outbox, reported>>
      BY <2>1, <2>2 DEF Truthful
    <2>3. ASSUME NEW st, Say(n, st) PROVE QueueInv'
      <3>1. n \in Reporters
        BY DEF Reporters
      <3>2. \A s \in Reporters : \A i \in 1 .. Len(outbox'[s]) :
              \/ s = n /\ outbox'[s][i] = Report(n, st, "this")
              \/ i \in 1 .. Len(outbox[s]) /\ outbox'[s][i] = outbox[s][i]
        BY <2>3, <3>1 DEF Say, NodesOK
      <3>3. st \in reported'[n]
        BY <2>3 DEF Say, NodesOK
      <3>4. QED
        BY <1>0, <2>1, <3>2, <3>3, SMTT(30) DEF Truthful, Report
    <2>4. QED
      BY <1>4, <2>2, <2>3 DEF NodeSteps, NodeConfig, NodeApply, NodeFinish, NodeRepeat
  <1>5. ASSUME NEW s \in Reporters, PickUp(s) PROVE QueueInv'
    <2>1. UNCHANGED <<nodeChan, reported>>
      BY <1>5 DEF PickUp
    <2>2. Head(outbox[s]) = outbox[s][1] /\ 1 \in 1 .. Len(outbox[s])
      BY <1>5 DEF PickUp, NodesOK
    <2>3. Truthful(cb)'
      BY <1>5, <2>1, <2>2, NodesAssumption DEF PickUp, Truthful, NoReport, Report
    <2>4. \A t \in Reporters : \A i \in 1 .. Len(outbox'[t]) :
            \E j \in 1 .. Len(outbox[t]) : outbox'[t][i] = outbox[t][j]
      BY <1>5 DEF PickUp, NodesOK
    <2>5. QED
      BY <2>1, <2>3, <2>4 DEF Truthful
  <1>6. ASSUME NEW s \in Strangers, StrangerReport(s) PROVE QueueInv'
    <2>1. UNCHANGED <<nodeChan, cb, reported>>
      BY <1>6 DEF StrangerReport, channelVars
    <2>2. \A t \in Reporters : \A i \in 1 .. Len(outbox'[t]) :
            \/ outbox'[t][i].from = s
            \/ i \in 1 .. Len(outbox[t]) /\ outbox'[t][i] = outbox[t][i]
      BY <1>6 DEF StrangerReport, NodesOK, Report, Reporters
    <2>3. QED
      BY <2>1, <2>2, NodesAssumption DEF Truthful
  <1>7. QED
    BY <1>1, <1>2, <1>3, <1>4, <1>5, <1>6, QueueFrame

(* What the processor believes of the nodes, the nodes have said.          *)
LEMMA StatusStep == ASSUME TypeOK, QueueInv, StatusInv, [Next]_vars PROVE StatusInv'
  <1> USE DEF StatusInv
  <1> ProcessorOK /\ ChannelsOK
    BY DEF TypeOK
  <1>0. /\ \A n \in Nodes : reported[n] \subseteq reported'[n]
        /\ \A st : AllReported(st) => AllReported(st)'
    BY HistoriesGrow
  <1>1. CASE UNCHANGED processorVars
    BY <1>0, <1>1 DEF processorVars, statusVars
  <1>2. CASE Subscribe
    BY <1>0, <1>2 DEF Subscribe, statusVars
  <1>3. ASSUME NEW n \in Nodes, Publishing(n) PROVE StatusInv'
    <2>1. UNCHANGED lastGlobal /\ (ppc' = ppc \/ ppc' = "exited")
      BY <1>3 DEF Publishing, PublishConfig, SendApply, SendAck, SendOrExit, SendRollback,
                  Exit, statusVars
    <2>2. \A m \in Nodes : nodeState'[m] = nodeState[m] \/ nodeState'[m] = "PUBLISHED"
      BY <1>3 DEF Publishing, PublishConfig, SendApply, SendAck, SendOrExit, SendRollback,
                  statusVars, ProcessorOK
    <2>3. QED
      BY <1>0, <2>1, <2>2 DEF NodeStates
  <1>4. CASE Exiting
    BY <1>0, <1>4 DEF Exiting, PublishCancelled, AnnouncePublished, LoopCancelled,
                      AnnounceApplicable, AnnounceApplied, AckSent, RollbackSent, Announce, Exit,
                      statusVars
  <1>5. CASE Receive
    <2>1. PICK msg : HandleReport(msg) /\ Truthful(msg) /\ msg \in Received \cup {NoReport}
      BY <1>5, NodesAssumption DEF Receive, QueueInv, ChannelsOK, Truthful, NoReport, Report
    <2>2. CASE UNCHANGED statusVars /\ ppc' = "exited"
      BY <1>0, <2>2 DEF statusVars
    <2>3. CASE /\ nodeState' = NewNodeState(msg)
               /\ lastGlobal' = IF msg.from \in Nodes /\ Verdict(msg) # "reported"
                                THEN Verdict(msg) ELSE lastGlobal
               /\ ppc' = AfterVerdict(Verdict(msg))
      <3>1. reported' = reported
        BY <1>5 DEF Receive, nodeVars
      <3>2. \A n \in Nodes : NewNodeState(msg)[n] \in NodeStates => NewNodeState(msg)[n] \in reported[n]
        BY <2>1 DEF NewNodeState, Truthful, ProcessorOK
      <3>3. \A st \in NodeStates : AllNodesInState(NewNodeState(msg), st) => AllReported(st)
        BY <3>2 DEF AllNodesInState, AllReported
      <3>4. /\ Verdict(msg) \in {"APPLICABLE", "APPLY_REQ"} => AllReported("APPLICABLE")
            /\ Verdict(msg) \in {"APPLIED", "ACKNOWLEDGED"} => AllReported("APPLIED")
        BY <3>3 DEF Verdict, NodeStates
      <3>5. /\ AfterVerdict(Verdict(msg)) \in {"announceApplicable", "apply"} => AllReported("APPLICABLE")
            /\ AfterVerdict(Verdict(msg)) \in {"announceApplied", "ack"} => AllReported("APPLIED")
        BY <3>4 DEF AfterVerdict
      <3>6. QED
        BY <1>0, <2>3, <3>1, <3>2, <3>4, <3>5
    <2>4. QED
      BY <2>1, <2>2, <2>3 DEF HandleReport, Exit
  <1>6. CASE AnnounceError
    BY <1>0, <1>6 DEF AnnounceError
  <1>7. CASE ApplySent
    BY <1>0, <1>7 DEF ApplySent
  <1>8. QED
    BY <1>1, <1>2, <1>3, <1>4, <1>5, <1>6, <1>7, ProcessorFrame

(* A publishing loop sends the one command of its phase.                   *)
LEMMA PublishingFacts ==
  ASSUME TypeOK, NEW n \in Nodes, Publishing(n)
  PROVE  \E c \in Commands :
           /\ ordered' = ordered \/ ordered' = [ordered EXCEPT ![n] = @ \cup {c}]
           /\ ppc = (IF c = "config" THEN "publish" ELSE c)
           /\ \/ ppc' = ppc /\ todo' = todo \ {n} /\ doneChan' = doneChan
                 /\ (c = "ack" => "ack" \in ordered'[n])
              \/ ppc' = "exited" /\ todo' = todo /\ doneChan' = Append(doneChan, "err")
           /\ UNCHANGED <<handlerVars, told, reported>>
  <1> NodesOK
    BY DEF TypeOK
  <1>1. CASE PublishConfig(n)
    BY <1>1 DEF PublishConfig, Published, PublishFailed, Deliver, Exit, Commands
  <1>2. CASE SendApply(n)
    BY <1>2 DEF SendApply, SendOrExit, Published, PublishFailed, Deliver, Exit, Commands
  <1>3. CASE SendAck(n)
    BY <1>3 DEF SendAck, SendOrExit, Published, PublishFailed, Deliver, Exit, Commands, NodesOK
  <1>4. CASE SendRollback(n)
    BY <1>4 DEF SendRollback, Published, PublishFailed, Deliver, Commands, channelVars
  <1>5. QED
    BY <1>1, <1>2, <1>3, <1>4 DEF Publishing

(* Only publishing changes what was ordered.                               *)
LEMMA OrderFrame ==
  ASSUME [Next]_vars
  PROVE  UNCHANGED ordered \/ \E n \in Nodes : Publishing(n)
  BY NodeFrame DEF nodeVars, NodeSteps, NodeConfig, NodeApply, NodeFinish, NodeRepeat, Hears,
                   PickUp, StrangerReport

(* Only these steps touch the variables the order of a verdict depends on. *)
LEMMA VerdictFrame ==
  ASSUME [Next]_vars
  PROVE  \/ UNCHANGED <<hpc, ppc, todo, result, doneChan, ordered>>
         \/ GetClient \/ Subscribe \/ SubscribeFails \/ HandlerDone \/ HandlerTimeout
         \/ CloseNodeChan \/ Cancel \/ Cleanup
         \/ \E n \in Nodes : Publishing(n)
         \/ Exiting \/ Receive \/ AnnounceError \/ ApplySent
  BY DEF Publishing, Exiting, Next, Running, Handler, Processor, Callback, Environment,
         NodeSteps, Expire, PushToChan, PushToClosedChan, PickUp, LoseSession, HangUp,
         NodeConfig, NodeApply, NodeFinish, NodeRepeat, Hears, StrangerReport,
         vars, handlerVars, processorVars, channelVars, nodeVars

(* The verdict, once its first order is out, is not revised.               *)
LEMMA OrderStep == ASSUME TypeOK, OrderInv, [Next]_vars PROVE OrderInv'
  <1> USE DEF OrderInv, Ordered, AllAcked
  <1> ProcessorOK /\ ChannelsOK /\ NodesOK
    BY DEF TypeOK
  <1>0. \A i \in 1 .. Len(Append(doneChan, "err")) :
          Append(doneChan, "err")[i] = "ok" => i \in 1 .. Len(doneChan) /\ doneChan[i] = "ok"
    BY DEF ChannelsOK
  <1>1. CASE UNCHANGED <<hpc, ppc, todo, result, doneChan, ordered>>
    BY <1>1
  <1>2. CASE GetClient \/ SubscribeFails \/ HandlerTimeout \/ CloseNodeChan \/ Cancel \/ Cleanup
    BY <1>2 DEF GetClient, SubscribeFails, HandlerTimeout, CloseNodeChan, Cancel, Cleanup,
                processorVars, channelVars, nodeVars
  <1>3. CASE Subscribe
    BY <1>3 DEF Subscribe, channelVars, nodeVars
  <1>4. CASE HandlerDone
    <2>1. \A i \in 1 .. Len(doneChan') : \E j \in 1 .. Len(doneChan) : doneChan'[i] = doneChan[j]
      BY <1>4 DEF HandlerDone, ChannelsOK
    <2>2. result' = doneChan[1] /\ 1 \in 1 .. Len(doneChan)
      BY <1>4 DEF HandlerDone, ChannelsOK
    <2>3. QED
      BY <1>4, <2>1, <2>2 DEF HandlerDone, processorVars, nodeVars
  <1>5. ASSUME NEW n \in Nodes, Publishing(n) PROVE OrderInv'
    <2>1. PICK c \in Commands :
           /\ ordered' = ordered \/ ordered' = [ordered EXCEPT ![n] = @ \cup {c}]
           /\ ppc = (IF c = "config" THEN "publish" ELSE c)
           /\ \/ ppc' = ppc /\ todo' = todo \ {n} /\ doneChan' = doneChan
                 /\ (c = "ack" => "ack" \in ordered'[n])
              \/ ppc' = "exited" /\ todo' = todo /\ doneChan' = Append(doneChan, "err")
           /\ UNCHANGED <<handlerVars, told, reported>>
      BY <1>5, PublishingFacts
    <2>2. \A m \in Nodes : /\ ordered[m] \subseteq ordered'[m]
                           /\ ordered'[m] \subseteq ordered[m] \cup {c}
      BY <2>1 DEF NodesOK
    <2>3. \A i \in 1 .. Len(doneChan') : doneChan'[i] = "ok" =>
            i \in 1 .. Len(doneChan) /\ doneChan[i] = "ok"
      BY <1>0, <2>1
    <2>4. UNCHANGED <<hpc, result>>
      BY <2>1 DEF handlerVars
    <2>5. QED
      BY <2>1, <2>2, <2>3, <2>4 DEF Commands
  <1>6. CASE Exiting
    <2>1. UNCHANGED <<hpc, result, ordered>>
      BY <1>6 DEF Exiting, PublishCancelled, AnnouncePublished, LoopCancelled, AnnounceApplicable,
                  AnnounceApplied, AckSent, RollbackSent, handlerVars, nodeVars
    <2>2. CASE \/ ppc # "idle" /\ ppc' = "exited" /\ doneChan' = Append(doneChan, "err")
               \/ /\ ppc \in {"publish", "announceApplicable", "announceApplied"}
                  /\ ppc' \in {"loop", "apply", "ack"} /\ doneChan' = doneChan
                  /\ (ppc' = "ack" => todo' = Nodes)
      <3>1. \A i \in 1 .. Len(doneChan') : doneChan'[i] = "ok" =>
              i \in 1 .. Len(doneChan) /\ doneChan[i] = "ok"
        BY <1>0, <2>2
      <3>2. CASE ppc # "idle" /\ ppc' = "exited" /\ doneChan' = Append(doneChan, "err")
        BY <2>1, <3>1, <3>2
      <3>3. CASE /\ ppc \in {"publish", "announceApplicable", "announceApplied"}
                 /\ ppc' \in {"loop", "apply", "ack"} /\ doneChan' = doneChan
                 /\ (ppc' = "ack" => todo' = Nodes)
        BY <2>1, <3>3
      <3>4. QED
        BY <2>2, <3>2, <3>3
    <2>3. CASE AckSent
      BY <2>1, <2>3 DEF AckSent, Exit, ChannelsOK
    <2>4. QED
      BY <1>6, <2>2, <2>3 DEF Exiting, PublishCancelled, AnnouncePublished, LoopCancelled,
                              AnnounceApplicable, AnnounceApplied, RollbackSent, Announce, Exit
  <1>7. CASE Receive
    <2>1. UNCHANGED <<hpc, result, ordered, todo>> /\ ppc = "loop"
      BY <1>7 DEF Receive, handlerVars, nodeVars
    <2>2. \/ ppc' = "exited" /\ doneChan' = Append(doneChan, "err")
          \/ ppc' # "ack" /\ ppc' # "idle" /\ doneChan' = doneChan
      BY <1>7 DEF Receive, HandleReport, Exit, AfterVerdict
    <2>3. \A i \in 1 .. Len(doneChan') : doneChan'[i] = "ok" =>
            i \in 1 .. Len(doneChan) /\ doneChan[i] = "ok"
      BY <1>0, <2>2
    <2>4. QED
      BY <2>1, <2>2, <2>3
  <1>8. CASE AnnounceError
    BY <1>8 DEF AnnounceError, handlerVars, channelVars, nodeVars
  <1>9. CASE ApplySent
    BY <1>9 DEF ApplySent, handlerVars, channelVars, nodeVars
  <1>10. QED
    BY <1>1, <1>2, <1>3, <1>4, <1>5, <1>6, <1>7, <1>8, <1>9, VerdictFrame

(* Orders and announcements are made only where StatusInv justifies them.  *)
LEMMA GateStep == ASSUME TypeOK, StatusInv, GateInv, [Next]_vars PROVE GateInv'
  <1> USE DEF GateInv, ApplyGate, AckGate, ToldIsTrue
  <1> NodesOK
    BY DEF TypeOK
  <1>0. \A st : AllReported(st) => AllReported(st)'
    BY HistoriesGrow
  <1>1. ApplyGate' /\ AckGate'
    <2>1. CASE UNCHANGED ordered
      BY <1>0, <2>1
    <2>2. ASSUME NEW n \in Nodes, Publishing(n) PROVE ApplyGate' /\ AckGate'
      <3>1. PICK c \in Commands :
             /\ ordered' = ordered \/ ordered' = [ordered EXCEPT ![n] = @ \cup {c}]
             /\ ppc = (IF c = "config" THEN "publish" ELSE c)
        BY <2>2, PublishingFacts
      <3>2. \A m \in Nodes : ordered'[m] \subseteq ordered[m] \cup {c}
        BY <3>1 DEF NodesOK
      <3>3. QED
        BY <1>0, <3>1, <3>2 DEF StatusInv, Commands
    <2>3. QED
      BY <2>1, <2>2, OrderFrame
  <1>2. ToldIsTrue'
    <2>1. \A st \in {"APPLICABLE", "APPLIED"} : st \in told' => st \in told \/ AllReported(st)
      <3>1. CASE UNCHANGED told
        BY <3>1
      <3>2. CASE Exiting
        BY <3>2 DEF Exiting, PublishCancelled, AnnouncePublished, LoopCancelled,
                    AnnounceApplicable, AnnounceApplied, AckSent, RollbackSent, Announce,
                    StatusInv
      <3>3. CASE AnnounceError
        BY <3>3 DEF AnnounceError
      <3>4. ASSUME NEW n \in Nodes, Publishing(n) PROVE UNCHANGED told
        BY <3>4, PublishingFacts
      <3>5. QED
        BY <3>1, <3>2, <3>3, <3>4, ProcessorFrame
        DEF processorVars, Subscribe, Receive, ApplySent
    <2>2. QED
      BY <1>0, <2>1
  <1>3. QED
    BY <1>1, <1>2

(* The invariant holds at the start when no earlier report is under way.   *)
LEMMA InvInit == ASSUME "stale" \notin Faults, Init PROVE IInv
  <1>1. \A s \in Reporters : outbox[s] = <<>>
    BY DEF Init, LeftOverReports, OldReports
  <1>2. QueueInv
    BY <1>1, NodesAssumption DEF Init, QueueInv, Truthful, NoReport, Report
  <1>3. StatusInv
    BY DEF Init, StatusInv, NodeStates
  <1>4. OrderInv
    BY DEF Init, OrderInv, Ordered
  <1>5. GateInv
    BY DEF Init, GateInv, ApplyGate, AckGate, ToldIsTrue
  <1>6. QED
    BY <1>2, <1>3, <1>4, <1>5 DEF IInv

(* The inductive invariant holds throughout.                               *)
LEMMA InvCorrect == ASSUME "stale" \notin Faults PROVE Spec => [](TypeOK /\ IInv)
  <1>1. Init => TypeOK /\ IInv
    BY TypeInit, InvInit
  <1>2. TypeOK /\ IInv /\ [Next]_vars => (TypeOK /\ IInv)'
    BY HandlerStep, ProcessorStep, ChannelsStep, NodesStep, QueueStep, StatusStep, OrderStep,
       GateStep DEF TypeOK, IInv
  <1>3. QED
    BY <1>1, <1>2, PTL DEF Spec

(* As long as no report on an earlier update is under way, nobody applies  *)
(* before all are ready, whatever the fleet.                               *)
THEOREM GatesHold == ASSUME "stale" \notin Faults PROVE Spec => []ApplyGate
  <1>1. IInv => ApplyGate
    BY DEF IInv, GateInv
  <1>2. QED
    BY <1>1, InvCorrect, PTL

(* Under the same assumption nobody is told to keep the update before all  *)
(* have applied it, and what the caller is told is true of every node.     *)
THEOREM NewsHold == ASSUME "stale" \notin Faults PROVE Spec => []NewsIsTrue
  <1>1. IInv => NewsIsTrue
    BY DEF IInv, GateInv, NewsIsTrue
  <1>2. QED
    BY <1>1, InvCorrect, PTL

(* What the processor has ordered so far does not depend on what the       *)
(* reports are about: this part of the invariant needs no assumption.      *)
LEMMA OrdersCorrect == Spec => [](TypeOK /\ OrderInv)
  <1>1. Init => TypeOK /\ OrderInv
    BY TypeInit DEF Init, OrderInv, Ordered
  <1>2. TypeOK /\ OrderInv /\ [Next]_vars => (TypeOK /\ OrderInv)'
    BY HandlerStep, ProcessorStep, ChannelsStep, NodesStep, OrderStep DEF TypeOK
  <1>3. QED
    BY <1>1, <1>2, PTL DEF Spec

(* UpdateFleet reports success only when every node was told to keep the   *)
(* update and none to drop it, whatever goes wrong, reports on an earlier  *)
(* update included.                                                        *)
THEOREM SuccessConfirmed == Spec => []SuccessMeansConfirmed
  <1>1. OrderInv => SuccessMeansConfirmed
    BY NodesAssumption DEF OrderInv, Ordered, AllAcked, SuccessMeansConfirmed
  <1>2. QED
    BY <1>1, OrdersCorrect, PTL

(* A verdict, once out, is the only order that follows, whatever goes      *)
(* wrong, reports on an earlier update included.                           *)
THEOREM VerdictIsFinal == Spec => FinalOrders
  <1> DEFINE Final == \A v \in {"ack", "rollback"} :
                        (\E m \in Nodes : v \in ordered[m])
                          => \A n \in Nodes : ordered'[n] \subseteq ordered[n] \cup {v}
  <1>1. TypeOK /\ OrderInv /\ [Next]_vars => [Final]_vars
    <2> SUFFICES ASSUME TypeOK, OrderInv, [Next]_vars PROVE Final
      OBVIOUS
    <2>1. CASE UNCHANGED ordered
      BY <2>1
    <2>2. ASSUME NEW n \in Nodes, Publishing(n) PROVE Final
      <3>1. PICK c \in Commands :
             /\ ordered' = ordered \/ ordered' = [ordered EXCEPT ![n] = @ \cup {c}]
             /\ ppc = (IF c = "config" THEN "publish" ELSE c)
        BY <2>2, PublishingFacts
      <3>2. \A m \in Nodes : ordered'[m] \subseteq ordered[m] \cup {c}
        BY <3>1 DEF TypeOK, NodesOK
      <3>3. \A v \in {"ack", "rollback"} : Ordered(v) => c = v
        BY <3>1 DEF OrderInv, Commands
      <3>4. QED
        BY <3>2, <3>3 DEF Ordered
    <2>3. QED
      BY <2>1, <2>2, OrderFrame
  <1>2. QED
    BY <1>1, OrdersCorrect, PTL DEF Spec, FinalOrders

------------------------------------------------------------------------------
(* The rollback.  That it reaches every node is not inductive: what it rests   *)
(* on is that the handler, while the context lives, waits for as long as the   *)
(* processor runs, so that no publishing loop is cut short, and that the       *)
(* processor has no other way out once it noted an error.  Neither needs the   *)
(* reports to be of this update.                                               *)

WaitInv ==
  /\ hpc \in {"subscribe", "wait"} => connected
  /\ hpc \in {"connect", "subscribe"} => ppc = "idle"
  /\ ~ctxDone /\ ppc \notin {"idle", "exited"} => hpc = "wait"
  /\ ppc # "exited" => doneChan = <<>>

SomeError == \E n \in Nodes : nodeState[n] = "ERROR"

ErrorInv ==
  /\ SomeError => ppc \in {"announceError", "rollback", "exited"}
  /\ lastGlobal = "ERROR" => ppc = "announceError"
  /\ ppc = "rollback" => \A n \in Nodes \ todo : "rollback" \in ordered[n]
  /\ RollbackComplete

(* A step of the processor ends it, or it goes on without a word to the handler. *)
LEMMA ProcessorMoves ==
  ASSUME Processor
  PROVE  /\ UNCHANGED handlerVars /\ ppc \notin {"idle", "exited"}
         /\ ppc' = "exited" \/ (ppc' # "idle" /\ doneChan' = doneChan)
  <1>1. ASSUME NEW n \in Nodes, Publishing(n)
        PROVE  /\ UNCHANGED handlerVars /\ ppc \notin {"idle", "exited"}
               /\ ppc' = "exited" \/ (ppc' # "idle" /\ doneChan' = doneChan)
    BY <1>1 DEF Publishing, PublishConfig, SendApply, SendAck, SendRollback, SendOrExit, Exit,
                channelVars
  <1>2. CASE Receive
    BY <1>2 DEF Receive, HandleReport, AfterVerdict, Exit
  <1>3. CASE Exiting
    BY <1>3 DEF Exiting, PublishCancelled, AnnouncePublished, LoopCancelled,
                AnnounceApplicable, AnnounceApplied, AckSent, RollbackSent, Announce, Exit
  <1>4. CASE AnnounceError \/ ApplySent
    BY <1>4 DEF AnnounceError, ApplySent, channelVars
  <1>5. QED
    BY <1>1, <1>2, <1>3, <1>4 DEF Processor, Publishing, Exiting

(* While its context lives the handler leaves wait only when the processor has ended. *)
LEMMA WaitStep ==
  ASSUME TypeOK, WaitInv, [Next]_vars
  PROVE  WaitInv'
  <1> USE DEF WaitInv
  <1>1. CASE UNCHANGED <<hpc, ctxDone, connected, ppc, doneChan>>
    BY <1>1
  <1>2. CASE GetClient \/ Subscribe \/ SubscribeFails \/ HandlerTimeout \/ CloseNodeChan
             \/ Cancel \/ Cleanup
    BY <1>2 DEF GetClient, Subscribe, SubscribeFails, HandlerTimeout, CloseNodeChan, Cancel,
                Cleanup, processorVars, channelVars
  <1>3. CASE HandlerDone
    BY <1>3 DEF HandlerDone, processorVars
  <1>4. CASE Processor
    BY <1>4, ProcessorMoves DEF handlerVars
  <1>5. CASE Expire
    BY <1>5 DEF Expire, processorVars, channelVars
  <1>6. QED
    BY <1>1, <1>2, <1>3, <1>4, <1>5
    DEF Next, Running, Handler, Callback, Environment, NodeSteps, PushToChan,
        PushToClosedChan, PickUp, LoseSession, HangUp, NodeConfig, NodeApply, NodeFinish,
        NodeRepeat, Hears, StrangerReport, vars, handlerVars, processorVars, channelVars

(* A report of an error leads to its announcement; no other report adds one. *)
LEMMA ReportOfError ==
  ASSUME TypeOK, ErrorInv, ppc = "loop",
         NEW msg \in Received \cup {NoReport}, HandleReport(msg)
  PROVE  /\ SomeError' => ppc' = "announceError"
         /\ lastGlobal' = "ERROR" => ppc' = "announceError"
         /\ ppc' # "rollback"
  <1> USE DEF ErrorInv
  <1> ProcessorOK
    BY DEF TypeOK
  <1>1. ~SomeError /\ lastGlobal # "ERROR"
    OBVIOUS
  <1>2. CASE UNCHANGED statusVars /\ ppc' = "exited"
    BY <1>1, <1>2 DEF statusVars, SomeError
  <1>3. CASE /\ nodeState' = NewNodeState(msg)
             /\ lastGlobal' = IF msg.from \in Nodes /\ Verdict(msg) # "reported"
                              THEN Verdict(msg) ELSE lastGlobal
             /\ ppc' = AfterVerdict(Verdict(msg))
    <2>1. \A n \in Nodes : NewNodeState(msg)[n] = "ERROR" => msg.from = n /\ msg.state = "ERROR"
      BY <1>1 DEF NewNodeState, SomeError, ProcessorOK
    <2>2. SomeError' => msg.from \in Nodes /\ msg.state = "ERROR"
      BY <1>3, <2>1 DEF SomeError
    <2>3. ASSUME msg.from \in Nodes, msg.state = "ERROR"
          PROVE  Verdict(msg) = "ERROR"
      <3>1. NewNodeState(msg)[msg.from] = "ERROR" /\ nodeState[msg.from] # "ERROR"
        BY <1>1, <2>3 DEF NewNodeState, SomeError, ProcessorOK
      <3>2. \A st \in {"APPLICABLE", "APPLIED"} : ~AllNodesInState(NewNodeState(msg), st)
        BY <2>3, <3>1 DEF AllNodesInState
      <3>3. QED
        BY <1>1, <2>3, <3>1, <3>2 DEF Verdict
    <2>4. Verdict(msg) = "ERROR" => ppc' = "announceError"
      BY <1>3 DEF AfterVerdict
    <2>5. ppc' # "rollback"
      BY <1>3 DEF AfterVerdict
    <2>6. QED
      BY <1>1, <1>3, <2>2, <2>3, <2>4, <2>5
  <1>4. QED
    BY <1>2, <1>3 DEF HandleReport, Exit

(* A publishing loop that nothing cuts short orders the rollback of a node   *)
(* before it leaves it behind, and none of the others runs after an error.   *)
LEMMA LoopOfError ==
  ASSUME "publish" \notin Faults, TypeOK, WaitInv, ErrorInv, NEW n \in Nodes, Publishing(n)
  PROVE  ErrorInv'
  <1> USE DEF ErrorInv
  <1> ProcessorOK /\ NodesOK
    BY DEF TypeOK
  <1>0. connected
    BY DEF WaitInv, Publishing, PublishConfig, SendApply, SendAck, SendRollback, SendOrExit
  <1>1. CASE PublishConfig(n)
    <2>1. ~SomeError /\ ~SomeError'
      <3>1. ~SomeError
        BY <1>1 DEF PublishConfig
      <3>2. nodeState' = nodeState \/ nodeState' = [nodeState EXCEPT ![n] = "PUBLISHED"]
        BY <1>1 DEF PublishConfig
      <3>3. \A m \in Nodes : nodeState'[m] \in {nodeState[m], "PUBLISHED"}
        BY <3>2 DEF ProcessorOK
      <3>4. QED
        BY <3>1, <3>3 DEF SomeError
    <2>2. lastGlobal' = lastGlobal /\ ppc = "publish" /\ ppc' \in {"publish", "exited"}
      BY <1>1 DEF PublishConfig, Exit
    <2>3. QED
      BY <2>1, <2>2 DEF SomeError, RollbackComplete
  <1>2. CASE SendApply(n) \/ SendAck(n)
    <2>1. ppc \in {"apply", "ack"} /\ ppc' \in {ppc, "exited"} /\ UNCHANGED statusVars
      BY <1>2 DEF SendApply, SendAck, SendOrExit, Exit
    <2>2. QED
      BY <2>1 DEF SomeError, RollbackComplete, statusVars
  <1>3. CASE SendRollback(n)
    <2>1. /\ ordered' = [ordered EXCEPT ![n] = @ \cup {"rollback"}] /\ todo' = todo \ {n}
          /\ ppc = "rollback" /\ ppc' = "rollback" /\ UNCHANGED statusVars
      BY <1>0, <1>3 DEF SendRollback, Published, PublishFailed, Deliver
    <2>2. \A m \in Nodes \ todo' : "rollback" \in ordered'[m]
      BY <2>1 DEF NodesOK
    <2>3. QED
      BY <2>1, <2>2 DEF SomeError, RollbackComplete, statusVars
  <1>4. QED
    BY <1>1, <1>2, <1>3 DEF Publishing

(* A context that has ended stays so.                                        *)
LEMMA ContextEnds == ASSUME [Next]_vars PROVE ctxDone => ctxDone'
  <1>1. CASE UNCHANGED handlerVars
    BY <1>1 DEF handlerVars
  <1>2. CASE Handler \/ Expire \/ LoseSession
    BY <1>2 DEF Handler, Expire, LoseSession, GetClient, Subscribe, SubscribeFails, HandlerDone,
                HandlerTimeout, CloseNodeChan, Cancel, Cleanup
  <1>3. QED
    BY <1>1, <1>2, ProcessorMoves
    DEF Next, Running, Callback, Environment, NodeSteps, PushToChan, PushToClosedChan, PickUp,
        HangUp, NodeConfig, NodeApply, NodeFinish, NodeRepeat, Hears, StrangerReport, vars

(* What is announced, and how the processor ends, keeps the promise.         *)
LEMMA ErrorStep ==
  ASSUME "publish" \notin Faults, TypeOK, WaitInv, ErrorInv, [Next]_vars
  PROVE  ErrorInv'
  <1> USE DEF ErrorInv
  <1> ProcessorOK /\ ChannelsOK
    BY DEF TypeOK
  <1>1. CASE UNCHANGED processorVars /\ UNCHANGED ordered
    BY <1>1, ContextEnds DEF processorVars, statusVars, SomeError, RollbackComplete
  <1>2. CASE Subscribe
    BY <1>2 DEF Subscribe, WaitInv, statusVars, nodeVars, SomeError, RollbackComplete
  <1>3. ASSUME NEW n \in Nodes, Publishing(n) PROVE ErrorInv'
    BY <1>3, LoopOfError
  <1>4. CASE Receive
    <2>1. PICK msg \in Received \cup {NoReport} : HandleReport(msg)
      BY <1>4 DEF Receive, ChannelsOK
    <2>2. ppc = "loop"
      BY <1>4 DEF Receive
    <2>3. QED
      BY <2>1, <2>2, ReportOfError DEF SomeError, RollbackComplete
  <1>5. CASE Exiting
    <2>1. UNCHANGED <<nodeState, ordered>>
      BY <1>5 DEF Exiting, PublishCancelled, AnnouncePublished, LoopCancelled,
                  AnnounceApplicable, AnnounceApplied, AckSent, RollbackSent, statusVars, nodeVars
    <2>2. CASE RollbackSent
      BY <2>1, <2>2 DEF RollbackSent, Exit, statusVars, SomeError, RollbackComplete
    <2>3. CASE AnnouncePublished \/ AnnounceApplicable \/ AnnounceApplied
      BY <2>1, <2>3 DEF AnnouncePublished, AnnounceApplicable, AnnounceApplied, Announce, Exit,
                        SomeError, RollbackComplete
    <2>4. CASE AckSent
      BY <2>1, <2>4 DEF AckSent, Exit, statusVars, SomeError, RollbackComplete
    <2>5. CASE PublishCancelled \/ LoopCancelled
      BY <2>1, <2>5 DEF PublishCancelled, LoopCancelled, Exit, handlerVars, statusVars,
                        SomeError, RollbackComplete
    <2>6. QED
      BY <1>5, <2>2, <2>3, <2>4, <2>5 DEF Exiting
  <1>6. CASE AnnounceError
    BY <1>6 DEF AnnounceError, nodeVars, SomeError, RollbackComplete
  <1>7. CASE ApplySent
    BY <1>7 DEF ApplySent, nodeVars, SomeError, RollbackComplete
  <1>8. QED
    BY <1>1, <1>2, <1>3, <1>4, <1>5, <1>6, <1>7, ProcessorFrame, OrderFrame

(* When no publish fails, a processor that ends while its context lives has  *)
(* ordered the rollback of every node if it noted an error, however the      *)
(* caller, other devices and reports on earlier updates behave.              *)
THEOREM RollbackReachesAll ==
  ASSUME "publish" \notin Faults
  PROVE  Spec => []RollbackComplete
  <1>1. Init => TypeOK /\ WaitInv /\ ErrorInv
    BY TypeInit DEF Init, WaitInv, ErrorInv, SomeError, RollbackComplete
  <1>2. TypeOK /\ WaitInv /\ ErrorInv /\ [Next]_vars => (TypeOK /\ WaitInv /\ ErrorInv)'
    BY HandlerStep, ProcessorStep, ChannelsStep, NodesStep, WaitStep, ErrorStep DEF TypeOK
  <1>3. ErrorInv => RollbackComplete
    BY DEF ErrorInv
  <1>4. QED
    BY <1>1, <1>2, <1>3, PTL DEF Spec

==============================================================================
