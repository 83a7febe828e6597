----------------------------- MODULE FleetUpdate -----------------------------
(***************************************************************************)
(* One call of MqttFactory.UpdateFleet                                     *)
(* (src/control/service/control_plane/mqtt_client.go, lines 466-1018):     *)
(*                                                                         *)
(*   - the gRPC handler UpdateFleet, which opens an MQTT client, subscribes*)
(*     to the reports of the nodes, starts the processor and waits for it  *)
(*     or for its five-minute context;                                     *)
(*   - the goroutine processFleetUpdate, which publishes the               *)
(*     configurations and drives the fleet from APPLICABLE over APPLIED to *)
(*     ACKNOWLEDGED, or to ROLLBACK;                                       *)
(*   - the subscription callback, run by the router of the MQTT library,   *)
(*     one report at a time, which hands each report to the processor      *)
(*     through the bounded channel nodeChan;                               *)
(*   - the nodes (another program), other devices that report on the same  *)
(*     topics, and the caller at the other end of the gRPC stream.         *)
(***************************************************************************)
EXTENDS Naturals, Sequences, FiniteSets

CONSTANTS
  Nodes,           \* the nodes named by the request
  Strangers,       \* other devices that publish on +/control/state
  NoNode,          \* the empty serial number of a zero nodeUpdateMessage
  BufPerNode,      \* capacity of nodeChan per node (4 in the code)
  MaxNoise,        \* bound: reports nobody asked for
  Faults           \* what may go wrong: a subset of AllFaults

AllFaults == {"connect", "subscribe", "reconnect", "publish", "timeout",
              "hangup", "reject", "stale"}

ASSUME NodesAssumption ==
  /\ Nodes # {} /\ IsFiniteSet(Nodes)
  /\ Nodes \cap Strangers = {}
  /\ NoNode \notin Nodes \cup Strangers
ASSUME BoundsAssumption ==
  /\ BufPerNode \in Nat \ {0}
  /\ MaxNoise \in Nat
  /\ Faults \subseteq AllFaults

VARIABLES
  \* the handler
  hpc,             \* where UpdateFleet stands
  result,          \* what it returns
  connected,       \* its MQTT client is connected
  subscribed,      \* the broker holds its subscription
  ctxDone,         \* its context has expired or was cancelled
  \* the processor
  ppc,             \* where processFleetUpdate stands
  todo,            \* the nodes the current publishing loop has not reached
  applySent,
  nodeState,       \* fleetStatus.nodes
  lastGlobal,      \* fleetStatus.lastGlobalState
  told,            \* the global states sent to the caller
  \* the channels
  nodeChan, chanOpen, doneChan,
  cb,              \* the report the running callback holds, or NoReport
  \* the nodes and the broker
  inbox,           \* inbox[n]: commands published to n and not handled yet
  outbox,          \* outbox[s]: reports published by s and not delivered yet
  phase,           \* phase[n]: the state n is in
  ordered,         \* history: ordered[n] is every command published to n
  reported,        \* history: reported[n] is every state n reported in this update
  \* the surroundings
  hungUp,          \* the caller has gone
  crashed,         \* the process died of a panic
  noise            \* reports nobody asked for, so far

handlerVars   == <<hpc, result, connected, subscribed, ctxDone>>
statusVars    == <<applySent, nodeState, lastGlobal>>
processorVars == <<ppc, todo, statusVars, told>>
channelVars   == <<nodeChan, chanOpen, doneChan, cb>>
nodeVars      == <<inbox, outbox, phase, ordered, reported>>
envVars       == <<hungUp, crashed, noise>>
vars          == <<handlerVars, processorVars, channelVars, nodeVars, envVars>>

------------------------------------------------------------------------------
(* Messages and channels *)

Reporters    == Nodes \cup Strangers
NodeStates   == {"APPLICABLE", "APPLIED", "ERROR"}
GlobalStates == {"PUBLISHED", "APPLICABLE", "APPLY_REQ", "APPLIED", "ACKNOWLEDGED",
                 "ERROR", "ROLLBACK"}
Commands     == {"config", "apply", "ack", "rollback"}

Report(s, st, tx) == [from |-> s, state |-> st, tx |-> tx]

\* The zero value of nodeUpdateMessage: what a receive from a closed and empty
\* nodeChan yields.  It also stands for "no callback is running".
NoReport == Report(NoNode, "ZERO", "old")

\* What the callback passes on, and what the topics may carry.
Received == [from : Reporters, state : NodeStates, tx : {"this", "old"}]
Reports  == Received \cup [from : Strangers, state : {"GARBLED"}, tx : {"old"}]

NodeChanCap == BufPerNode * Cardinality(Nodes)
DoneChanCap == 1

\* A node may still be reporting on an update that timed out earlier.
OldReports(s) ==
  {<<>>} \cup IF "stale" \in Faults /\ s \in Nodes
               THEN {<<Report(s, st, "old")>> : st \in NodeStates} ELSE {}

LeftOverReports ==
  /\ outbox \in [Reporters -> UNION {OldReports(s) : s \in Reporters}]
  /\ \A s \in Reporters : outbox[s] \in OldReports(s)

Init ==
  /\ hpc = "connect" /\ result = "none"
  /\ connected = FALSE /\ subscribed = FALSE /\ ctxDone = FALSE
  /\ ppc = "idle" /\ todo = {} /\ applySent = FALSE
  /\ nodeState = [n \in Nodes |-> "absent"]
  /\ lastGlobal = "PUBLISHED" /\ told = {}
  /\ nodeChan = <<>> /\ chanOpen = TRUE /\ doneChan = <<>> /\ cb = NoReport
  /\ inbox = [n \in Nodes |-> <<>>]
  /\ LeftOverReports
  /\ phase = [n \in Nodes |-> "idle"]
  /\ ordered = [n \in Nodes |-> {}] /\ reported = [n \in Nodes |-> {}]
  /\ hungUp = FALSE /\ crashed = FALSE /\ noise = 0

------------------------------------------------------------------------------
(* The handler: UpdateFleet *)

GetClient ==
  /\ hpc = "connect"
  /\ \/ connected' = TRUE /\ hpc' = "subscribe" /\ UNCHANGED result
     \/ /\ "connect" \in Faults
        /\ hpc' = "returned" /\ result' = "err" /\ UNCHANGED connected
  /\ UNCHANGED <<subscribed, ctxDone, processorVars, channelVars, nodeVars, envVars>>

\* The handler goes on with the processor running.  The token's error is read
\* before the token is waited for, so a refusal by the broker goes unnoticed.
Subscribe ==
  /\ hpc = "subscribe"
  /\ \/ subscribed' = TRUE
     \/ "subscribe" \in Faults /\ subscribed' = FALSE
  /\ hpc' = "wait" /\ ppc' = "publish" /\ todo' = Nodes
  /\ UNCHANGED <<result, connected, ctxDone, statusVars, told, channelVars, nodeVars, envVars>>

\* The library refuses the request at once: no processor is started.
SubscribeFails ==
  /\ hpc = "subscribe"
  /\ "subscribe" \in Faults
  /\ hpc' = "cancel" /\ result' = "err"
  /\ UNCHANGED <<connected, subscribed, ctxDone, processorVars, channelVars, nodeVars, envVars>>

HandlerDone ==
  /\ hpc = "wait" /\ doneChan # <<>>
  /\ result' = Head(doneChan) /\ doneChan' = Tail(doneChan)
  /\ subscribed' = FALSE /\ hpc' = "close"
  /\ UNCHANGED <<connected, ctxDone, processorVars, nodeChan, chanOpen, cb, nodeVars, envVars>>

HandlerTimeout ==
  /\ hpc = "wait" /\ ctxDone
  /\ result' = "timeout" /\ subscribed' = FALSE /\ hpc' = "close"
  /\ UNCHANGED <<connected, ctxDone, processorVars, channelVars, nodeVars, envVars>>

CloseNodeChan ==
  /\ hpc = "close"
  /\ chanOpen' = FALSE /\ hpc' = "cancel"
  /\ UNCHANGED <<result, connected, subscribed, ctxDone, processorVars,
                 nodeChan, doneChan, cb, nodeVars, envVars>>

\* The deferred calls, in their order: cancel, then cleanup.
Cancel ==
  /\ hpc = "cancel"
  /\ ctxDone' = TRUE /\ hpc' = "cleanup"
  /\ UNCHANGED <<result, connected, subscribed, processorVars, channelVars, nodeVars, envVars>>

Cleanup ==
  /\ hpc = "cleanup"
  /\ connected' = FALSE /\ subscribed' = FALSE /\ hpc' = "returned"
  /\ UNCHANGED <<result, ctxDone, processorVars, channelVars, nodeVars, envVars>>

\* The one goroutine of the MQTT library that reads the connection waits to
\* hand over a report while the callback before it waits for room in nodeChan:
\* no acknowledgement of a publish is read meanwhile.
Jammed ==
  /\ connected /\ cb # NoReport /\ Len(nodeChan) >= NodeChanCap
  /\ \E s \in Reporters : outbox[s] # <<>>

\* The processor waits for such an acknowledgement, and until it has it, it
\* takes no report out of nodeChan: nothing moves any more.
Stuck == Jammed /\ ppc \in {"publish", "apply", "ack", "rollback"} /\ todo # {}

\* Variant: the context has no deadline.
NeverExpires == FALSE

\* The context is derived from Background: only its own five minutes end it.
\* They may pass at any time when "timeout" is a fault, and otherwise only when
\* the update is stuck.
Expire ==
  /\ "timeout" \in Faults \/ Stuck
  /\ ~ctxDone /\ hpc \in {"subscribe", "wait", "close"}
  /\ ctxDone' = TRUE
  /\ UNCHANGED <<hpc, result, connected, subscribed, processorVars, channelVars,
                 nodeVars, envVars>>

------------------------------------------------------------------------------
(* The processor: processFleetUpdate *)

ClientGone == hungUp \/ hpc = "returned"

Deliver(n, c) ==
  /\ inbox' = [inbox EXCEPT ![n] = Append(@, c)]
  /\ ordered' = [ordered EXCEPT ![n] = @ \cup {c}]

\* Publish at QoS 2 and wait.  A publish that fails may have reached the node.
Published(n, c) == connected /\ ~Jammed /\ Deliver(n, c)
PublishFailed(n, c) ==
  \/ connected /\ ~Jammed /\ "publish" \in Faults /\ Deliver(n, c)
  \/ (~connected \/ "publish" \in Faults) /\ UNCHANGED <<inbox, ordered>>

\* Variant: doneChan is unbuffered, so only a waiting handler takes the error.
ExitUnbuffered(e) ==
  /\ hpc = "wait" /\ doneChan = <<>>
  /\ doneChan' = <<e>> /\ ppc' = "exited"

\* doneChan <- e; return
Exit(e) ==
  /\ Len(doneChan) < DoneChanCap
  /\ doneChan' = Append(doneChan, e)
  /\ ppc' = "exited"

PublishConfig(n) ==
  /\ ppc = "publish" /\ n \in todo /\ ~ctxDone
  /\ \/ /\ Published(n, "config")
        /\ todo' = todo \ {n}
        /\ nodeState' = [nodeState EXCEPT ![n] = "PUBLISHED"]
        /\ UNCHANGED <<ppc, doneChan>>
     \/ PublishFailed(n, "config") /\ Exit("err") /\ UNCHANGED <<todo, nodeState>>
  /\ UNCHANGED <<handlerVars, applySent, lastGlobal, told, nodeChan, chanOpen, cb,
                 outbox, phase, reported, envVars>>

\* Each publishing loop looks at the context before each node.
PublishCancelled ==
  /\ ppc \in {"publish", "apply", "ack", "rollback"} /\ todo # {} /\ ctxDone
  /\ Exit("err")
  /\ UNCHANGED <<handlerVars, todo, statusVars, told, nodeChan, chanOpen, cb, nodeVars, envVars>>

\* sendFleetResponse, then either the processor goes on or it exits.
Announce(st, global, next) ==
  \/ /\ ~ClientGone
     /\ told' = told \cup {st} /\ lastGlobal' = global /\ ppc' = next
     /\ todo' = (IF next = "loop" THEN {} ELSE Nodes)
     /\ UNCHANGED doneChan
  \/ ClientGone /\ Exit("err") /\ UNCHANGED <<todo, lastGlobal, told>>

AnnouncePublished ==
  /\ ppc = "publish" /\ todo = {}
  /\ Announce("PUBLISHED", "PUBLISHED", "loop")
  /\ UNCHANGED <<handlerVars, applySent, nodeState, nodeChan, chanOpen, cb, nodeVars, envVars>>

LoopCancelled ==
  /\ ppc = "loop" /\ ctxDone
  /\ Exit("err")
  /\ UNCHANGED <<handlerVars, todo, statusVars, told, nodeChan, chanOpen, cb, nodeVars, envVars>>

\* Variants: one node is enough; a node that is still ready counts as done.
SomeNodeInState(states, st) == \E n \in Nodes : states[n] = st
AllNodesReadyOrDone(states, st) == \A n \in Nodes : states[n] \in {"APPLICABLE", "APPLIED"}

AllNodesInState(states, st) == \A n \in Nodes : states[n] = st

NewNodeState(msg) ==
  IF msg.from \in Nodes THEN [nodeState EXCEPT ![msg.from] = msg.state] ELSE nodeState

\* The global state updateNodeStatus returns ("reported" stands for its error).
\* The transaction id of the report plays no part.
Verdict(msg) ==
  IF msg.from \notin Nodes THEN "ERROR"
  ELSE IF nodeState[msg.from] = msg.state THEN lastGlobal
  ELSE CASE msg.state = "ERROR" -> IF lastGlobal = "ERROR" THEN "reported" ELSE "ERROR"
         [] lastGlobal = "PUBLISHED" /\ AllNodesInState(NewNodeState(msg), "APPLICABLE")
                                -> "APPLICABLE"
         [] lastGlobal \in {"APPLICABLE", "APPLY_REQ"}
              /\ AllNodesInState(NewNodeState(msg), "APPLIED")
                                -> "APPLIED"
         [] OTHER               -> lastGlobal

\* Variant: an unchanged global state is taken for readiness.
AfterVerdictHasty(v) ==
  CASE v \in {"PUBLISHED", "APPLICABLE"} /\ ~applySent -> "announceApplicable"
    [] v = "APPLIED"                                   -> "announceApplied"
    [] v = "ERROR"                                     -> "announceError"
    [] OTHER                                           -> "loop"

AfterVerdict(v) ==
  CASE v = "APPLICABLE" /\ ~applySent -> "announceApplicable"
    [] v = "APPLIED"                  -> "announceApplied"
    [] v = "ERROR"                    -> "announceError"
    [] OTHER                          -> "loop"

\* Receive a report, pass it on to the caller and update the fleet's status.
HandleReport(msg) ==
  \/ ClientGone /\ Exit("err") /\ UNCHANGED statusVars
  \/ /\ ~ClientGone
     /\ nodeState' = NewNodeState(msg)
     /\ lastGlobal' = IF msg.from \in Nodes /\ Verdict(msg) # "reported"
                      THEN Verdict(msg) ELSE lastGlobal
     /\ ppc' = AfterVerdict(Verdict(msg))
     /\ UNCHANGED <<applySent, doneChan>>

Receive ==
  /\ ppc = "loop"
  /\ \/ nodeChan # <<>> /\ HandleReport(Head(nodeChan)) /\ nodeChan' = Tail(nodeChan)
     \/ nodeChan = <<>> /\ ~chanOpen /\ HandleReport(NoReport) /\ UNCHANGED nodeChan
  /\ UNCHANGED <<handlerVars, todo, told, chanOpen, cb, nodeVars, envVars>>

AnnounceApplicable ==
  /\ ppc = "announceApplicable"
  /\ Announce("APPLICABLE", "APPLY_REQ", "apply")
  /\ UNCHANGED <<handlerVars, applySent, nodeState, nodeChan, chanOpen, cb, nodeVars, envVars>>

AnnounceApplied ==
  /\ ppc = "announceApplied"
  /\ Announce("APPLIED", "ACKNOWLEDGED", "ack")
  /\ UNCHANGED <<handlerVars, applySent, nodeState, nodeChan, chanOpen, cb, nodeVars, envVars>>

\* Variant: the processor gives up when the caller cannot be told of the error.
AnnounceErrorOrExit ==
  /\ ppc = "announceError"
  /\ Announce("ERROR", "ROLLBACK", "rollback")
  /\ UNCHANGED <<handlerVars, applySent, nodeState, nodeChan, chanOpen, cb, nodeVars, envVars>>

\* The caller's absence is only logged: the rollback goes on without it.
AnnounceError ==
  /\ ppc = "announceError"
  /\ told' = IF ClientGone THEN told ELSE told \cup {"ERROR"}
  /\ lastGlobal' = "ROLLBACK" /\ ppc' = "rollback" /\ todo' = Nodes
  /\ UNCHANGED <<handlerVars, applySent, nodeState, channelVars, nodeVars, envVars>>

\* The loops of sendUpdateApplyRequest and sendUpdateAcknowledgement stop at the
\* first publish that fails.
SendOrExit(at, c, n) ==
  /\ ppc = at /\ n \in todo /\ ~ctxDone
  /\ \/ Published(n, c) /\ todo' = todo \ {n} /\ UNCHANGED <<ppc, doneChan>>
     \/ PublishFailed(n, c) /\ Exit("err") /\ UNCHANGED todo
  /\ UNCHANGED <<handlerVars, statusVars, told, nodeChan, chanOpen, cb,
                 outbox, phase, reported, envVars>>

\* Variant: the loop goes on after an acknowledgement that was not published.
SendAckBestEffort(n) ==
  /\ ppc = "ack" /\ n \in todo /\ ~ctxDone
  /\ Published(n, "ack") \/ PublishFailed(n, "ack")
  /\ todo' = todo \ {n}
  /\ UNCHANGED <<handlerVars, ppc, statusVars, told, channelVars,
                 outbox, phase, reported, envVars>>

SendApply(n) == SendOrExit("apply", "apply", n)
SendAck(n)   == SendOrExit("ack", "ack", n)

ApplySent ==
  /\ ppc = "apply" /\ todo = {}
  /\ applySent' = TRUE /\ ppc' = "loop"
  /\ UNCHANGED <<handlerVars, todo, nodeState, lastGlobal, told, channelVars, nodeVars, envVars>>

\* Variant: the return after the acknowledgement is missing.
AckSentNoReturn ==
  /\ ppc = "ack" /\ todo = {} /\ ppc' = "loop"
  /\ UNCHANGED <<handlerVars, todo, statusVars, told, channelVars, nodeVars, envVars>>

AckSent ==
  /\ ppc = "ack" /\ todo = {}
  /\ Exit("ok")
  /\ UNCHANGED <<handlerVars, todo, statusVars, told, nodeChan, chanOpen, cb, nodeVars, envVars>>

\* The loop of sendRollbackRequest goes on after a publish that fails.
SendRollback(n) ==
  /\ ppc = "rollback" /\ n \in todo /\ ~ctxDone
  /\ Published(n, "rollback") \/ PublishFailed(n, "rollback")
  /\ todo' = todo \ {n}
  /\ UNCHANGED <<handlerVars, ppc, statusVars, told, channelVars,
                 outbox, phase, reported, envVars>>

RollbackSent ==
  /\ ppc = "rollback" /\ todo = {}
  /\ Exit("err")
  /\ UNCHANGED <<handlerVars, todo, statusVars, told, nodeChan, chanOpen, cb, nodeVars, envVars>>

------------------------------------------------------------------------------
(* The subscription callback, run by the router one report at a time *)

\* A payload that does not parse is dropped.
PickUp(s) ==
  /\ connected /\ subscribed /\ cb = NoReport /\ outbox[s] # <<>>
  /\ cb' = IF Head(outbox[s]).state = "GARBLED" THEN NoReport ELSE Head(outbox[s])
  /\ outbox' = [outbox EXCEPT ![s] = Tail(@)]
  /\ UNCHANGED <<handlerVars, processorVars, nodeChan, chanOpen, doneChan,
                 inbox, phase, ordered, reported, envVars>>

\* Variants: the channel has no bound; a full channel makes the callback drop
\* the report instead of waiting.
PushUnbounded ==
  /\ cb # NoReport /\ chanOpen
  /\ nodeChan' = Append(nodeChan, cb) /\ cb' = NoReport
  /\ UNCHANGED <<handlerVars, processorVars, chanOpen, doneChan, nodeVars, envVars>>
PushOrDrop ==
  /\ cb # NoReport /\ chanOpen
  /\ nodeChan' = IF Len(nodeChan) < NodeChanCap THEN Append(nodeChan, cb) ELSE nodeChan
  /\ cb' = NoReport
  /\ UNCHANGED <<handlerVars, processorVars, chanOpen, doneChan, nodeVars, envVars>>

PushToChan ==
  /\ cb # NoReport /\ chanOpen /\ Len(nodeChan) < NodeChanCap
  /\ nodeChan' = Append(nodeChan, cb) /\ cb' = NoReport
  /\ UNCHANGED <<handlerVars, processorVars, chanOpen, doneChan, nodeVars, envVars>>

\* Sending on a closed channel panics, in a goroutine nothing recovers.
PushToClosedChan ==
  /\ cb # NoReport /\ ~chanOpen
  /\ crashed' = TRUE
  /\ UNCHANGED <<handlerVars, processorVars, channelVars, nodeVars, hungUp, noise>>

------------------------------------------------------------------------------
(* The nodes, other devices, the connection and the caller *)

Say(n, st) ==
  /\ outbox' = [outbox EXCEPT ![n] = Append(@, Report(n, st, "this"))]
  /\ reported' = [reported EXCEPT ![n] = @ \cup {st}]
  /\ phase' = [phase EXCEPT ![n] = st]

Hears(n, c) ==
  /\ inbox[n] # <<>> /\ Head(inbox[n]) = c
  /\ inbox' = [inbox EXCEPT ![n] = Tail(@)]
  /\ UNCHANGED <<handlerVars, processorVars, channelVars, ordered, envVars>>

NodeConfig(n) ==
  /\ Hears(n, "config")
  /\ Say(n, "APPLICABLE") \/ ("reject" \in Faults /\ Say(n, "ERROR"))

\* A node applies what it accepted, and disregards the command otherwise.
NodeApply(n) ==
  /\ Hears(n, "apply")
  /\ \/ /\ phase[n] = "APPLICABLE"
        /\ Say(n, "APPLIED") \/ ("reject" \in Faults /\ Say(n, "ERROR"))
     \/ phase[n] # "APPLICABLE" /\ UNCHANGED <<outbox, reported, phase>>

NodeFinish(n) ==
  \E c \in {"ack", "rollback"} :
    /\ Hears(n, c)
    /\ phase' = [phase EXCEPT ![n] = c]
    /\ UNCHANGED <<outbox, reported>>

\* A node may report the state it is in once more.
NodeRepeat(n) ==
  /\ noise < MaxNoise /\ phase[n] \in NodeStates
  /\ Say(n, phase[n]) /\ noise' = noise + 1
  /\ UNCHANGED <<handlerVars, processorVars, channelVars, inbox, ordered, hungUp, crashed>>

StrangerReport(s) ==
  /\ noise < MaxNoise
  /\ \E st \in {"APPLICABLE", "GARBLED"} :
       outbox' = [outbox EXCEPT ![s] = Append(@, Report(s, st, "old"))]
  /\ noise' = noise + 1
  /\ UNCHANGED <<handlerVars, processorVars, channelVars, inbox, phase, ordered, reported,
                 hungUp, crashed>>

\* The connection breaks and the library opens a new, clean session: nothing
\* subscribes again.
LoseSession ==
  /\ "reconnect" \in Faults /\ connected /\ subscribed
  /\ subscribed' = FALSE
  /\ UNCHANGED <<hpc, result, connected, ctxDone, processorVars, channelVars, nodeVars, envVars>>

HangUp ==
  /\ "hangup" \in Faults /\ ~hungUp /\ hpc # "returned"
  /\ hungUp' = TRUE
  /\ UNCHANGED <<handlerVars, processorVars, channelVars, nodeVars, crashed, noise>>

------------------------------------------------------------------------------
Handler ==
  \/ GetClient \/ Subscribe \/ SubscribeFails \/ HandlerDone \/ HandlerTimeout
  \/ CloseNodeChan \/ Cancel \/ Cleanup

Processor ==
  \/ \E n \in Nodes : PublishConfig(n) \/ SendApply(n) \/ SendAck(n) \/ SendRollback(n)
  \/ PublishCancelled \/ AnnouncePublished \/ LoopCancelled \/ Receive
  \/ AnnounceApplicable \/ AnnounceApplied \/ AnnounceError
  \/ ApplySent \/ AckSent \/ RollbackSent

Callback == PushToChan \/ PushToClosedChan \/ \E s \in Reporters : PickUp(s)

NodeSteps(n) == NodeConfig(n) \/ NodeApply(n) \/ NodeFinish(n)

Environment ==
  \/ \E n \in Nodes : NodeRepeat(n)
  \/ \E s \in Strangers : StrangerReport(s)
  \/ LoseSession \/ HangUp

Running == Handler \/ Processor \/ Callback \/ Expire \/ Environment

\* Nothing is left to do once the handler and the processor have ended, or the
\* process has died.
Ended == crashed \/ (hpc = "returned" /\ ppc \in {"idle", "exited"})

\* The nodes are programs of their own and outlive the server.
Next ==
  \/ ~crashed /\ Running
  \/ \E n \in Nodes : NodeSteps(n)
  \/ Ended /\ UNCHANGED vars

Spec == Init /\ [][Next]_vars

\* Goroutines run when they can, the library completes what it was asked for,
\* and timers fire.
Progress ==
  /\ WF_vars(~crashed /\ Handler)
  /\ WF_vars(~crashed /\ Processor)
  /\ WF_vars(~crashed /\ Callback)
  /\ WF_vars(~crashed /\ Expire)

FairSpec == Spec /\ Progress

\* Nodes answer as well.
CooperativeSpec == FairSpec /\ \A n \in Nodes : WF_vars(NodeSteps(n))

------------------------------------------------------------------------------
(* Properties *)

HandlerOK ==
  /\ hpc \in {"connect", "subscribe", "wait", "close", "cancel", "cleanup", "returned"}
  /\ result \in {"none", "ok", "err", "timeout"}
  /\ connected \in BOOLEAN /\ subscribed \in BOOLEAN /\ ctxDone \in BOOLEAN
  /\ hungUp \in BOOLEAN /\ crashed \in BOOLEAN /\ noise \in 0 .. MaxNoise

ProcessorOK ==
  /\ ppc \in {"idle", "publish", "loop", "announceApplicable", "apply", "announceApplied",
              "ack", "announceError", "rollback", "exited"}
  /\ todo \subseteq Nodes
  /\ applySent \in BOOLEAN
  /\ nodeState \in [Nodes -> {"absent", "PUBLISHED"} \cup NodeStates]
  /\ lastGlobal \in GlobalStates /\ told \subseteq GlobalStates

ChannelsOK ==
  /\ nodeChan \in Seq(Received) /\ Len(nodeChan) <= NodeChanCap
  /\ doneChan \in Seq({"ok", "err"}) /\ Len(doneChan) <= DoneChanCap
  /\ chanOpen \in BOOLEAN
  /\ cb \in Received \cup {NoReport}

NodesOK ==
  /\ inbox \in [Nodes -> Seq(Commands)]
  /\ outbox \in [Reporters -> Seq(Reports)]
  /\ phase \in [Nodes -> {"idle", "ack", "rollback"} \cup NodeStates]
  /\ ordered \in [Nodes -> SUBSET Commands]
  /\ reported \in [Nodes -> SUBSET NodeStates]

\* The type invariant.  Beyond the ranges it says that no channel ever holds more
\* than make(chan, n) allowed (lines 478-479).
TypeOK == HandlerOK /\ ProcessorOK /\ ChannelsOK /\ NodesOK

AllReported(st) == \A m \in Nodes : st \in reported[m]

\* No node is ordered to apply its new configuration before every node of the
\* fleet has accepted its own (lines 632-655).
ApplyGate == \A n \in Nodes : "apply" \in ordered[n] => AllReported("APPLICABLE")

\* No node is told that the update stands before every node runs it
\* (lines 657-683).
AckGate == \A n \in Nodes : "ack" \in ordered[n] => AllReported("APPLIED")

\* What the caller is told of the fleet is true of every node (lines 1006-1018).
ToldIsTrue == \A st \in {"APPLICABLE", "APPLIED"} : st \in told => AllReported(st)

\* Neither a node nor the caller hears that the fleet got somewhere before every
\* node said so (lines 657-683 and 1006-1018).
NewsIsTrue == AckGate /\ ToldIsTrue

\* UpdateFleet returns without an error only after every node was told to keep
\* the update, and none to drop it (lines 549-559).
SuccessMeansConfirmed ==
  result = "ok" => \A n \in Nodes : "ack" \in ordered[n] /\ "rollback" \notin ordered[n]

\* Once a node was told to keep or to drop the update, no node is sent anything
\* but the same order (lines 679-682 and 706-708).
FinalOrders ==
  [][\A v \in {"ack", "rollback"} :
       (\E m \in Nodes : v \in ordered[m])
         => \A n \in Nodes : ordered'[n] \subseteq ordered[n] \cup {v}]_vars

\* When a node's error was taken note of, the processor does not end, as long as
\* its context lives, before it ordered every node to roll back, were the caller
\* gone or not (lines 685-709).  It needs publishes that succeed; that the context
\* of a handler that returned is cancelled takes no order back.
RollbackComplete ==
  (ppc = "exited" /\ ~ctxDone /\ \E n \in Nodes : nodeState[n] = "ERROR")
    => \A m \in Nodes : "rollback" \in ordered[m]

\* UpdateFleet returns, whatever the nodes, the broker and the caller do: its
\* own timeout sees to it (lines 548-564).
HandlerReturns == <>(crashed \/ hpc = "returned")

\* The processor outlives the handler only for a while: it is never left
\* blocked on doneChan (line 479) or on a publish.
ProcessorExits == (ppc # "idle") ~> (crashed \/ ppc = "exited")

\* While no publish fails, no connection breaks and the caller stays, the update
\* is decided and all nodes end alike: all keep it and the handler says so, or all
\* roll back and the handler says so.  The nodes get there even when a late report
\* kills the server as its handler closes nodeChan.  The one way out is a jam:
\* reports fill nodeChan while a publishing loop is under way, the deadline cuts the
\* loop short, and the close kills the server (lines 523 and 548-564).
AllOrNothing ==
  <>\/ result = "ok" /\ \A n \in Nodes : phase[n] = "ack"
    \/ result = "err" /\ \A n \in Nodes : phase[n] = "rollback"
    \/ crashed /\ todo # {}
    \/ hungUp

==============================================================================
