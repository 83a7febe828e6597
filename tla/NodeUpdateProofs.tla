-------------------------- MODULE NodeUpdateProofs --------------------------
(* Proofs about NodeUpdate: what callers are told, what nodes are asked, and *)
(* what a call leaves behind, for any calls, nodes and faults.               *)
EXTENDS NodeUpdate, TLAPS

USE DEF recordVars, brokerVars, handlerVars, goVars, callerVars, nodeVars, historyVars, vars

-----------------------------------------------------------------------------
(* Types. *)

(* Admitting a session and unsubscribing change states and routes only.      *)
LEMMA AdmitTypes ==
  ASSUME TypeOK, NEW k \in Calls, Admit(k)
  PROVE  conn' \in [Calls -> {"new", "connecting", "up", "lost", "closed"}]
  BY DEF TypeOK, Admit

(* Unsubscribing leaves sessions and routes of their types.                  *)
LEMMA UnsubscribedTypes ==
  ASSUME TypeOK, NEW topics, Unsubscribed(topics)
  PROVE  /\ session' \in [Calls -> SUBSET Nodes]
         /\ route' \in [Calls -> [Nodes -> Updates \cup {Null}]]
  <1>1. session' \in [Calls -> SUBSET Nodes]
    BY DEF TypeOK, Unsubscribed, Live
  <1>2. CASE rec \in Calls
    <2>1. [n \in Nodes |-> IF n \in topics THEN Null ELSE route[rec][n]]
            \in [Nodes -> Updates \cup {Null}]
      BY <1>2 DEF TypeOK
    <2>2. QED
      BY <1>1, <1>2, <2>1 DEF TypeOK, Unsubscribed
  <1>3. CASE rec \notin Calls
    BY <1>1, <1>3 DEF TypeOK, Unsubscribed
  <1>4. QED
    BY <1>2, <1>3

(* What is sent to a caller is appended to what it was told.                 *)
LEMMA TellTypes ==
  ASSUME TypeOK, NEW u \in Updates, NEW s \in States \cup {"PUBLISHED"}, Tell(u, s)
  PROVE  told' \in [Updates -> Seq(States \cup {"PUBLISHED"})]
  BY DEF TypeOK, Tell

(* Cleanup empties a queue, subscribing routes a topic to an update.         *)
LEMMA CleanupTypes ==
  ASSUME TypeOK, NEW c \in Calls, Cleanup(c)
  PROVE  inbox' \in [Calls -> Seq(Report)]
  <1>1. inbox \in [Calls -> Seq(Report)]
    BY DEF TypeOK
  <1>2. CASE rec \in Calls
    BY <1>1, <1>2 DEF Cleanup
  <1>3. CASE rec \notin Calls
    <2>1. inbox' = inbox
      BY <1>1, <1>3 DEF Cleanup
    <2>2. QED
      BY <1>1, <2>1
  <1>4. QED
    BY <1>2, <1>3

(* So does subscribing, whatever the broker answers.                         *)
LEMMA SubscribeTypes ==
  ASSUME TypeOK, NEW u \in Updates, Subscribe(u)
  PROVE  /\ session' \in [Calls -> SUBSET Nodes]
         /\ route' \in [Calls -> [Nodes -> Updates \cup {Null}]]
  <1>1. NodeOf[u] \in Nodes
    BY CallsAssumption
  <1>2. CASE rec \in Calls
    <2>1. /\ session \in [Calls -> SUBSET Nodes]
          /\ route \in [Calls -> [Nodes -> Updates \cup {Null}]]
      BY DEF TypeOK
    <2>2. [session EXCEPT ![rec] = @ \cup {NodeOf[u]}] \in [Calls -> SUBSET Nodes]
      BY <1>1, <1>2, <2>1
    <2>3. [route[rec] EXCEPT ![NodeOf[u]] = u] \in [Nodes -> Updates \cup {Null}]
      BY <1>1, <1>2, <2>1
    <2>4. [route EXCEPT ![rec] = [route[rec] EXCEPT ![NodeOf[u]] = u]]
            \in [Calls -> [Nodes -> Updates \cup {Null}]]
      BY <1>2, <2>1, <2>3
    <2>5. \/ route' = [route EXCEPT ![rec] = [route[rec] EXCEPT ![NodeOf[u]] = u]]
          \/ route' = route
      BY <1>2, <2>1 DEF Subscribe
    <2>6. QED
      BY <2>1, <2>2, <2>4, <2>5 DEF Subscribe
  <1>3. CASE rec \notin Calls
    BY <1>3 DEF TypeOK, Subscribe, Live
  <1>4. QED
    BY <1>2, <1>3

(* The router takes the oldest report of a queue.                            *)
LEMMA RouteTypes ==
  ASSUME TypeOK, NEW k \in Calls, RouteReport(k)
  PROVE  /\ inbox' \in [Calls -> Seq(Report)]
         /\ Head(inbox[k]) \in Report
         /\ route[k][Head(inbox[k]).node] \in Updates \cup {Null}
         /\ seen' \in [Updates -> Seq(States)]
  <1>1. inbox \in [Calls -> Seq(Report)] /\ seen \in [Updates -> Seq(States)]
        /\ route \in [Calls -> [Nodes -> Updates \cup {Null}]]
    BY DEF TypeOK
  <1>2. Head(inbox[k]) \in Report /\ inbox' \in [Calls -> Seq(Report)]
    <2>1. inbox[k] # <<>> /\ inbox' = [inbox EXCEPT ![k] = Tail(@)]
      BY DEF RouteReport
    <2>2. Head(inbox[k]) \in Report /\ Tail(inbox[k]) \in Seq(Report)
      BY <1>1, <2>1
    <2>3. QED
      BY <1>1, <2>1, <2>2
  <1> DEFINE r == Head(inbox[k])
             u == route[k][r.node]
  <1>3. r.node \in Nodes /\ r.state \in States \cup {"malformed"} /\ u \in Updates \cup {Null}
    BY <1>1, <1>2 DEF Report
  <1>4. ASSUME u = Null \/ r.state = "malformed" PROVE seen' \in [Updates -> Seq(States)]
    <2>1. seen' = seen
      BY <1>4 DEF RouteReport
    <2>2. QED
      BY <1>1, <2>1
  <1>5. ASSUME u # Null, r.state # "malformed" PROVE seen' \in [Updates -> Seq(States)]
    <2>1. u \in Updates
      BY <1>3, <1>5
    <2>2. r.state \in States
      BY <1>3, <1>5
    <2>3. seen' = [seen EXCEPT ![u] = Append(@, r.state)]
      BY <1>5 DEF RouteReport
    <2>4. QED
      BY <1>1, <2>1, <2>2, <2>3
  <1>6. QED
    BY <1>2, <1>3, <1>4, <1>5

(* A report goes to the queues of those who subscribed to its node.          *)
LEMMA ReportTypes ==
  ASSUME TypeOK, NEW n \in Nodes, NEW s \in States \cup {"malformed"}, NodeReports(n, s)
  PROVE  inbox' \in [Calls -> Seq(Report)]
  <1>1. [node |-> n, state |-> s] \in Report
    BY DEF Report
  <1>2. inbox \in [Calls -> Seq(Report)]
    BY DEF TypeOK
  <1>3. QED
    BY <1>1, <1>2 DEF NodeReports

(* Publishing a configuration starts the goroutine or ends the handler.      *)
LEMMA PublishTypes ==
  ASSUME TypeOK, NEW u \in Updates, PublishConfig(u)
  PROVE  /\ gor' \in [Updates -> GoStates] /\ config' \subseteq Nodes
         /\ \A v \in Updates : gor'[v] = gor[v] \/ gor'[v] = "greet"
         /\ pc' \in [Calls -> CallStates]
         /\ result' \in [Calls -> {"none", "ok", "error", "timeout"}]
  <1>1. /\ gor \in [Updates -> GoStates] /\ config \subseteq Nodes /\ pc \in [Calls -> CallStates]
        /\ result \in [Calls -> {"none", "ok", "error", "timeout"}]
        /\ NodeOf[u] \in Nodes /\ u \in Calls
    BY CallsAssumption DEF TypeOK, Calls
  <1>2. CASE MayPublish /\ config' = config \cup {NodeOf[u]} /\ pc' = [pc EXCEPT ![u] = "waiting"]
             /\ gor' = [gor EXCEPT ![u] = "greet"] /\ UNCHANGED result
    BY <1>1, <1>2 DEF GoStates, CallStates
  <1>3. CASE Unwind(u, "error") /\ UNCHANGED <<config, gor>>
    BY <1>1, <1>3 DEF Unwind, CallStates
  <1>4. QED
    BY <1>2, <1>3 DEF PublishConfig

(* Sending a state to the caller ends the goroutine or lets it loop.         *)
LEMMA SendTypes ==
  ASSUME TypeOK, NEW u \in Updates, SendState(u)
  PROVE  /\ gor' \in [Updates -> GoStates]
         /\ \A v \in Updates : gor'[v] = gor[v] \/ gor'[v] \in {"loop", "done", "failed"}
  <1>1. gor \in [Updates -> GoStates]
    BY DEF TypeOK
  <1>2. \E to \in {"loop", "done", "failed"} : gor' = [gor EXCEPT ![u] = to]
    BY DEF SendState, GoStep
  <1>3. QED
    BY <1>1, <1>2 DEF GoStates

(* A report that was received is a state of a node.                          *)
ValOK == \A u \in Updates : gor[u] \in {"answer", "send"} => val[u] \in States
CbOK == \A k \in Calls : cb[k].to # Null => cb[k].state \in States \cup {"malformed"}
Types == TypeOK /\ ValOK /\ CbOK

(* Dialing starts a connection or is answered by the state of one.           *)
LEMMA DialTypes ==
  ASSUME TypeOK, NEW c \in Calls, Dial(c)
  PROVE  /\ conn' \in [Calls -> {"new", "connecting", "up", "lost", "closed"}]
         /\ dial' \in [Calls -> Calls \cup {Null}]
         /\ pc' \in [Calls -> CallStates] /\ open' \in [Calls -> BOOLEAN]
         /\ result' \in [Calls -> {"none", "ok", "error", "timeout"}]
  <1> USE DEF TypeOK, CallStates
  <1>1. CASE DialAnswered(c) /\ UNCHANGED <<conn, dial>>
    <2>1. \/ pc' = [pc EXCEPT ![c] = "connected"] /\ UNCHANGED <<result, open>>
          \/ Fail(c)
      BY <1>1 DEF DialAnswered
    <2>2. pc' \in [Calls -> CallStates] /\ open' \in [Calls -> BOOLEAN]
      BY <2>1 DEF Fail
    <2>3. result' \in [Calls -> {"none", "ok", "error", "timeout"}]
      BY <2>1 DEF Fail
    <2>4. QED
      BY <1>1, <2>2, <2>3
  <1>2. CASE DialStarted(c) /\ UNCHANGED <<result, open>> /\ rec \in Calls
    BY <1>2 DEF DialStarted
  <1>3. QED
    BY <1>1, <1>2 DEF Dial

(* The handler, the connections and cleanup keep the types.                  *)
LEMMA HandlerTypes ==
  ASSUME Types, NEW c \in Calls, HandlerStep(c) \/ ConnectionStep(c) PROVE Types'
  <1> USE DEF Types, TypeOK, ValOK, CbOK, CallStates
  <1>1. CASE GetClient(c)
    BY <1>1 DEF GetClient
  <1>2. CASE ConnectFails(c)
    BY <1>2 DEF ConnectFails, Fail
  <1>11. CASE Dial(c)
    BY <1>11, DialTypes DEF Dial
  <1>3. CASE PublishRequest(c)
    BY <1>3 DEF PublishRequest, Unwind
  <1>4. CASE Cleanup(c)
    BY <1>4, CleanupTypes, UnsubscribedTypes DEF Cleanup
  <1>5. CASE Subscribe(c)
    <2>1. c \in Updates /\ NodeOf[c] \in Nodes
      BY <1>5, CallsAssumption DEF Subscribe
    <2>2. QED
      BY <1>5, <2>1, SubscribeTypes DEF Subscribe, Unwind
  <1>6. CASE Connect(c)
    BY <1>6, AdmitTypes DEF Connect
  <1>7. CASE Reconnect(c)
    BY <1>7, AdmitTypes DEF Reconnect
  <1>8. CASE Drop(c)
    BY <1>8, BoundsAssumption DEF Drop
  <1>9. CASE RouteReport(c)
    <2> DEFINE r == Head(inbox[c])
               u == route[c][r.node]
    <2>1. u \in Updates \cup {Null} /\ r.state \in States \cup {"malformed"}
      BY <1>9, RouteTypes DEF Report
    <2>2. CASE u = Null
      <3>1. cb' = cb
        BY <1>9, <2>2 DEF RouteReport
      <3>2. QED
        BY <1>9, <3>1, RouteTypes DEF RouteReport
    <2>3. CASE u # Null
      <3>1. cb' = [cb EXCEPT ![c] = [to |-> u, state |-> r.state]]
        BY <1>9, <2>3 DEF RouteReport
      <3>2. [to |-> u, state |-> r.state] \in [to : Updates \cup {Null}, state : States \cup {"malformed", "none"}]
        BY <2>1
      <3>3. cb' \in [Calls -> [to : Updates \cup {Null}, state : States \cup {"malformed", "none"}]]
            /\ CbOK'
        BY <2>1, <3>1, <3>2
      <3>4. QED
        BY <1>9, <3>3, RouteTypes DEF RouteReport
    <2>4. QED
      BY <2>2, <2>3
  <1>10. QED
    BY <1>1, <1>2, <1>3, <1>4, <1>5, <1>6, <1>7, <1>8, <1>9, <1>11 DEF HandlerStep, ConnectionStep

(* A report that was answered stays with the goroutine, or is given up.      *)
LEMMA OnwardTypes ==
  ASSUME TypeOK, ValOK, NEW u \in Updates, NEW to \in {"send", "failed"},
         GoStep(u, "answer", to), UNCHANGED val
  PROVE  gor' \in [Updates -> GoStates] /\ ValOK'
  BY DEF GoStep, GoStates, TypeOK, ValOK

(* A step of a goroutine takes it where it goes, and moves no other.         *)
LEMMA GoStepTypes ==
  ASSUME gor \in [Updates -> GoStates], NEW u \in Updates, NEW from, NEW to \in GoStates,
         GoStep(u, from, to)
  PROVE  /\ gor' \in [Updates -> GoStates]
         /\ \A v \in Updates : gor'[v] = gor[v] \/ gor'[v] = to
  BY DEF GoStep

(* A value and a goroutine that move together keep what goes with the other. *)
LEMMA ReceiveTypes ==
  ASSUME TypeOK, ValOK, NEW u \in Updates, NEW k \in Calls, Receive(u, k), cb[k].state \in States
  PROVE  val' \in [Updates -> States \cup {"none"}] /\ ValOK'
  <1>1. val \in [Updates -> States \cup {"none"}] /\ gor \in [Updates -> GoStates]
    BY DEF TypeOK
  <1>2. /\ val' = [val EXCEPT ![u] = cb[k].state]
        /\ gor' = [gor EXCEPT ![u] = "answer"]
    BY DEF Receive, GoStep
  <1>3. QED
    BY <1>1, <1>2 DEF ValOK

(* and leaves its callback empty.                                            *)
LEMMA ReceivedCb ==
  ASSUME TypeOK, CbOK, NEW u \in Updates, NEW k \in Calls, Receive(u, k)
  PROVE  /\ cb' \in [Calls -> [to : Updates \cup {Null}, state : States \cup {"malformed", "none"}]]
         /\ CbOK'
  <1>1. cb \in [Calls -> [to : Updates \cup {Null}, state : States \cup {"malformed", "none"}]]
    BY DEF TypeOK
  <1>2. cb' = [cb EXCEPT ![k] = NoCb]
    BY DEF Receive
  <1>3. NoCb.to = Null /\ NoCb \in [to : Updates \cup {Null}, state : States \cup {"malformed", "none"}]
    BY DEF NoCb
  <1>4. \A l \in Calls : cb'[l] = cb[l] \/ cb'[l] = NoCb
    BY <1>1, <1>2
  <1>5. CbOK'
    BY <1>3, <1>4 DEF CbOK
  <1>6. QED
    BY <1>1, <1>2, <1>3, <1>5

(* So do an update and its goroutine.                                        *)
LEMMA UpdateTypes ==
  ASSUME Types, NEW u \in Updates, UpdateStep(u) \/ GoroutineStep(u) \/ HangUp(u)
  PROVE  Types'
  <1> USE DEF Types, TypeOK, ValOK, CbOK, CallStates, GoStates, Calls
  <1>0. NodeOf[u] \in Nodes /\ NoCb \in [to : Updates \cup {Null}, state : States \cup {"malformed", "none"}]
    BY CallsAssumption DEF NoCb
  <1>1. CASE PublishConfig(u)
    BY <1>1, PublishTypes DEF PublishConfig
  <1>2. CASE Finish(u)
    BY <1>2, UnsubscribedTypes DEF Finish, Unwind
  <1>3. CASE Timeout(u)
    BY <1>3, UnsubscribedTypes DEF Timeout, Unwind
  <1>4. ASSUME NEW k \in Calls, FinishUnreadable(u, k) PROVE Types'
    BY <1>0, <1>4, UnsubscribedTypes DEF FinishUnreadable, Unwind, NoCb
  <1>5. CASE Greet(u)
    <2>1. told' \in [Updates -> Seq(States \cup {"PUBLISHED"})]
      BY <1>5, TellTypes DEF Greet
    <2>2. /\ gor' \in [Updates -> GoStates]
          /\ \A v \in Updates : gor'[v] = gor[v] \/ gor'[v] \in {"loop", "failed"}
      <3>1. PICK to \in {"loop", "failed"} : GoStep(u, "greet", to)
        BY <1>5 DEF Greet
      <3>2. QED
        BY <3>1, GoStepTypes
    <2>3. QED
      BY <1>5, <2>1, <2>2 DEF Greet, GoFrame
  <1>6. CASE StreamDone(u)
    BY <1>6 DEF StreamDone, GoStep, GoFrame
  <1>7. ASSUME NEW k \in Calls, Receive(u, k) PROVE Types'
    <2>1. cb[k].state \in States
      BY <1>7, CallsAssumption DEF Receive
    <2>2. /\ gor' \in [Updates -> GoStates]
          /\ \A v \in Updates : gor'[v] = gor[v] \/ gor'[v] = "answer"
      <3>1. GoStep(u, "loop", "answer")
        BY <1>7 DEF Receive
      <3>2. QED
        BY <3>1, GoStepTypes
    <2>3. val' \in [Updates -> States \cup {"none"}] /\ ValOK'
      BY <1>7, <2>1, ReceiveTypes
    <2>4. /\ cb' \in [Calls -> [to : Updates \cup {Null}, state : States \cup {"malformed", "none"}]]
          /\ CbOK'
      BY <1>7, ReceivedCb
    <2>5. UNCHANGED <<rec, subs, dial, conn, session, route, inbox, pc, result, ack, open, told,
                      config, apply, reported, drops, seen, overlapped, abandoned>>
      BY <1>7 DEF Receive, GoFrame, recordVars, brokerVars, handlerVars, callerVars, nodeVars, historyVars
    <2>6. QED
      BY <2>2, <2>3, <2>4, <2>5
  <1>8. CASE AskToApply(u)
    <2>1. CASE GoStep(u, "answer", "send") /\ apply' = apply \cup {NodeOf[u]}
      BY <1>0, <1>8, <2>1, OnwardTypes DEF AskToApply, GoFrame
    <2>2. CASE GoStep(u, "answer", "failed") /\ UNCHANGED apply
      BY <1>8, <2>2, OnwardTypes DEF AskToApply, GoFrame
    <2>3. QED
      BY <1>8, <2>1, <2>2 DEF AskToApply
  <1>9. CASE Acknowledge(u)
    <2>1. ack' \in [Updates -> {"none", "sent", "failed"}]
      BY <1>9, ZenonT(30) DEF Acknowledge
    <2>2. QED
      BY <1>9, <2>1, OnwardTypes DEF Acknowledge, GoFrame
  <1>10. CASE PassOn(u)
    BY <1>10, OnwardTypes DEF PassOn, GoFrame
  <1>11. CASE SendState(u)
    <2>1. told' \in [Updates -> Seq(States \cup {"PUBLISHED"})]
      BY <1>11, TellTypes DEF SendState, GoStep
    <2>2. QED
      BY <1>11, <2>1, SendTypes DEF SendState, GoFrame
  <1>12. CASE HangUp(u)
    BY <1>12 DEF HangUp
  <1>13. QED
    BY <1>1, <1>2, <1>3, <1>4, <1>5, <1>6, <1>7, <1>8, <1>9, <1>10, <1>11, <1>12
    DEF UpdateStep, GoroutineStep

(* So does a report of a node.                                               *)
LEMMA NodeTypes ==
  ASSUME Types, NEW n \in Nodes, NEW s \in Reports, NodeReports(n, s) PROVE Types'
  <1> USE DEF Types, TypeOK, ValOK, CbOK
  <1>1. s \in States \cup {"malformed"}
    BY DEF Reports
  <1>2. inbox' \in [Calls -> Seq(Report)]
    BY <1>1, ReportTypes
  <1>3. QED
    BY <1>1, <1>2 DEF NodeReports

(* And the initial state has them.                                           *)
LEMMA TypesInit == Init => Types
  <1> SUFFICES ASSUME Init PROVE Types
    OBVIOUS
  <1>1. /\ inbox \in [Calls -> Seq(Report)] /\ drops \in 0 .. MaxDrops
        /\ route \in [Calls -> [Nodes -> Updates \cup {Null}]]
        /\ cb \in [Calls -> [to : Updates \cup {Null}, state : States \cup {"malformed", "none"}]]
    BY BoundsAssumption DEF Init, NoCb
  <1>2. TypeOK
    <2>1. /\ told \in [Updates -> Seq(States \cup {"PUBLISHED"})]
          /\ reported \in [Nodes -> Seq(States \cup {"malformed"})]
          /\ seen \in [Updates -> Seq(States)] /\ session \in [Calls -> SUBSET Nodes]
      BY DEF Init
    <2>2. /\ conn \in [Calls -> {"new", "connecting", "up", "lost", "closed"}]
          /\ pc \in [Calls -> CallStates] /\ gor \in [Updates -> GoStates]
          /\ result \in [Calls -> {"none", "ok", "error", "timeout"}]
      BY DEF Init, CallStates, GoStates
    <2>3. QED
      BY <1>1, <2>1, <2>2 DEF Init, TypeOK
  <1>3. ValOK /\ CbOK
    BY DEF Init, ValOK, CbOK, NoCb
  <1>4. QED
    BY <1>2, <1>3 DEF Types

(* Every step keeps the types.                                               *)
LEMMA TypesStep == Types /\ [Next]_vars => Types'
  <1>1. Types /\ UNCHANGED vars => Types'
    BY DEF Types, TypeOK, ValOK, CbOK
  <1>2. QED
    BY <1>1, HandlerTypes, UpdateTypes, NodeTypes DEF Next, Calls

(* The types hold in every reachable state.                                  *)
LEMMA TypesCorrect == Spec => []Types
  BY TypesInit, TypesStep, PTL DEF Spec

(* Every variable keeps its type, in every interleaving of any calls.        *)
THEOREM UpdateTypesHold == Spec => []TypeOK
  <1>1. Types => TypeOK
    BY DEF Types
  <1>2. QED
    BY <1>1, TypesCorrect, PTL

-----------------------------------------------------------------------------
(* What nodes said, from their publication to the caller. *)

(* What nodes said and were sent depends on each other.                      *)
NodesInv ==
  /\ \A n \in Nodes : Said[n] # {} => n \in config
  /\ \A n \in Nodes : "APPLIED" \in Said[n] => n \in apply
  /\ \A n \in apply : n \in config /\ "APPLICABLE" \in Said[n]

(* What is on its way was said, by the node that its update is for.          *)
InboxInv == \A k \in Calls : \A i \in DOMAIN inbox[k] : inbox[k][i].state \in Said[inbox[k][i].node]
RouteInv == \A k \in Calls, n \in Nodes : route[k][n] # Null => NodeOf[route[k][n]] = n
CbInv == \A k \in Calls : cb[k].to # Null => cb[k].state \in Said[NodeOf[cb[k].to]]

(* So was what a goroutine holds and what a caller was told.                 *)
ValInv == \A u \in Updates : gor[u] \in {"answer", "send"} => val[u] \in Said[NodeOf[u]]
ToldInv == \A u \in Updates : "APPLIED" \in Told[u] => "APPLIED" \in Said[NodeOf[u]]

ReportInv == NodesInv /\ InboxInv /\ RouteInv /\ CbInv /\ ValInv /\ ToldInv

(* Appending to a sequence adds to what is in it.                            *)
LEMMA RangeOfAppend ==
  ASSUME NEW S, NEW q \in Seq(S), NEW x \in S, NEW p, p = Append(q, x)
  PROVE  {p[i] : i \in DOMAIN p} = {q[i] : i \in DOMAIN q} \cup {x}
  <1>1. /\ DOMAIN p = DOMAIN q \cup {Len(q) + 1}
        /\ \A i \in DOMAIN q : p[i] = q[i]
        /\ p[Len(q) + 1] = x
    OBVIOUS
  <1>2. QED
    BY <1>1, ZenonT(30)

(* A report adds one thing to what its node said.                            *)
LEMMA SaidGrows ==
  ASSUME TypeOK, NEW n \in Nodes, NEW t \in Reports, NodeReports(n, t)
  PROVE  Said' = [Said EXCEPT ![n] = @ \cup {t}]
  <1>1. reported \in [Nodes -> Seq(States \cup {"malformed"})] /\ t \in States \cup {"malformed"}
    BY DEF TypeOK, Reports
  <1>2. reported' = [reported EXCEPT ![n] = Append(@, t)]
    BY DEF NodeReports
  <1>3. {reported'[n][i] : i \in DOMAIN reported'[n]} = {reported[n][i] : i \in DOMAIN reported[n]} \cup {t}
    <2>1. reported[n] \in Seq(States \cup {"malformed"}) /\ reported'[n] = Append(reported[n], t)
          /\ t \in States \cup {"malformed"}
      BY <1>1, <1>2
    <2> DEFINE q == reported[n]
               p == reported'[n]
               S == States \cup {"malformed"}
    <2> HIDE DEF q, p, S
    <2>2. q \in Seq(S) /\ t \in S /\ p = Append(q, t)
      BY <2>1 DEF q, p, S
    <2>3. {p[i] : i \in DOMAIN p} = {q[i] : i \in DOMAIN q} \cup {t}
      BY <2>2, RangeOfAppend
    <2>4. QED
      BY <2>3 DEF q, p
  <1>4. Said'[n] = Said[n] \cup {t}
    <2>1. Said[n] = {reported[n][i] : i \in DOMAIN reported[n]}
          /\ Said'[n] = {reported'[n][i] : i \in DOMAIN reported'[n]}
      BY DEF Said
    <2>2. QED
      BY <1>3, <2>1
  <1>6. ASSUME NEW m \in Nodes \ {n} PROVE Said'[m] = Said[m]
    <2>1. reported'[m] = reported[m]
      BY <1>1, <1>2
    <2>2. QED
      BY <2>1 DEF Said
  <1>7. /\ Said = [m \in Nodes |-> Said[m]]
        /\ Said' = [m \in Nodes |-> Said'[m]]
    BY DEF Said
  <1>8. QED
    BY <1>4, <1>6, <1>7

(* What a node said stays said.                                              *)
LEMMA SaidStays == ASSUME TypeOK, [Next]_vars PROVE \A n \in Nodes : Said[n] \subseteq Said'[n]
  <1>1. Said = [n \in Nodes |-> Said[n]]
    BY DEF Said
  <1>2. CASE UNCHANGED reported
    BY <1>2 DEF Said
  <1>3. ASSUME NEW n \in Nodes, NEW t \in Reports, NodeReports(n, t)
        PROVE  \A m \in Nodes : Said[m] \subseteq Said'[m]
    BY <1>1, <1>3, SaidGrows
  <1>4. QED
    BY <1>2, <1>3
    DEF Next, HandlerStep, UpdateStep, GoroutineStep, ConnectionStep, GetClient, Dial, ConnectFails,
        PublishRequest, Cleanup, Subscribe, PublishConfig, Finish, Timeout, FinishUnreadable,
        Greet, StreamDone, Receive, AskToApply, Acknowledge, PassOn, SendState, GoFrame,
        Connect, Reconnect, Drop, RouteReport, HangUp

(* A node says something only after its configuration, and APPLIED only      *)
(* after it was asked; it is asked only after it said APPLICABLE.            *)
LEMMA NodesStep == Types /\ ReportInv /\ [Next]_vars => NodesInv'
  <1> SUFFICES ASSUME Types, ReportInv, [Next]_vars PROVE NodesInv'
    OBVIOUS
  <1>0. TypeOK /\ apply \subseteq Nodes /\ Said = [n \in Nodes |-> Said[n]]
    BY DEF Types, TypeOK, Said
  <1> USE DEF ReportInv, NodesInv
  <1>1. ASSUME UNCHANGED reported, apply' = apply, config \subseteq config' PROVE NodesInv'
    BY <1>1 DEF Said
  <1>2. ASSUME NEW u \in Updates, AskToApply(u) PROVE NodesInv'
    <2>1. "APPLICABLE" \in Said[NodeOf[u]] /\ NodeOf[u] \in Nodes
      BY <1>2, CallsAssumption DEF AskToApply, GoStep, ValInv
    <2>2. /\ UNCHANGED config /\ Said' = Said
          /\ apply' \subseteq apply \cup {NodeOf[u]} /\ apply \subseteq apply'
      BY <1>0, <1>2 DEF AskToApply, Said
    <2>3. QED
      BY <1>0, <2>1, <2>2
  <1>3. ASSUME NEW n \in Nodes, NEW t \in Reports, NodeReports(n, t) PROVE NodesInv'
    <2>1. n \in config /\ (t = "APPLIED" => n \in apply) /\ UNCHANGED <<config, apply>>
      BY <1>3 DEF NodeReports, MaySay
    <2>2. Said' = [Said EXCEPT ![n] = @ \cup {t}]
      BY <1>0, <1>3, SaidGrows
    <2>3. QED
      BY <1>0, <2>1, <2>2
  <1> HIDE DEF NodesInv
  <1>4. QED
    BY <1>1, <1>2, <1>3
    DEF Next, HandlerStep, UpdateStep, GoroutineStep, ConnectionStep, GetClient, Dial, ConnectFails,
        PublishRequest, PublishConfig, Cleanup, Subscribe, Finish, Timeout, FinishUnreadable, Greet,
        StreamDone, Receive, Acknowledge, PassOn, SendState, GoFrame, Connect, Reconnect, Drop,
        RouteReport, HangUp

(* A topic is routed to an update of its node only.                          *)
LEMMA RoutesStep == Types /\ ReportInv /\ [Next]_vars => RouteInv'
  <1> SUFFICES ASSUME Types, ReportInv, [Next]_vars PROVE RouteInv'
    OBVIOUS
  <1>0. RouteInv /\ route \in [Calls -> [Nodes -> Updates \cup {Null}]]
    BY DEF ReportInv, Types, TypeOK
  <1> USE DEF RouteInv
  <1>1. CASE UNCHANGED route
    BY <1>0, <1>1
  <1>2. ASSUME NEW topics, Unsubscribed(topics) PROVE RouteInv'
    <2>1. \A k \in Calls, n \in Nodes : route'[k][n] \in {route[k][n], Null}
      BY <1>0, <1>2 DEF Unsubscribed
    <2>2. QED
      BY <1>0, <2>1
  <1>3. ASSUME NEW u \in Updates, Subscribe(u) PROVE RouteInv'
    <2>1. \A k \in Calls, n \in Nodes :
            route'[k][n] = route[k][n] \/ (n = NodeOf[u] /\ route'[k][n] = u)
      BY <1>0, <1>3 DEF Subscribe
    <2>2. QED
      BY <1>0, <2>1
  <1>4. ASSUME NEW c \in Calls, Subscribe(c) PROVE c \in Updates
    BY <1>4 DEF Subscribe
  <1> HIDE DEF RouteInv
  <1>5. QED
    BY <1>1, <1>2, <1>3, <1>4
    DEF Next, HandlerStep, UpdateStep, GoroutineStep, ConnectionStep, GetClient, Dial, ConnectFails,
        PublishRequest, Cleanup, PublishConfig, Finish, Timeout, FinishUnreadable,
        Greet, StreamDone, Receive, AskToApply, Acknowledge, PassOn, SendState, GoFrame,
        Connect, Reconnect, Drop, RouteReport, HangUp, NodeReports

(* A report enters a queue when it is made.                                  *)
LEMMA InboxStep == Types /\ ReportInv /\ [Next]_vars => InboxInv'
  <1> SUFFICES ASSUME Types, ReportInv, [Next]_vars PROVE InboxInv'
    OBVIOUS
  <1>0. /\ TypeOK /\ inbox \in [Calls -> Seq(Report)]
        /\ \A k \in Calls : \A i \in DOMAIN inbox[k] : inbox[k][i].node \in Nodes
    <2>1. TypeOK /\ inbox \in [Calls -> Seq(Report)]
      BY DEF Types, TypeOK
    <2>2. ASSUME NEW k \in Calls, NEW i \in DOMAIN inbox[k] PROVE inbox[k][i] \in Report
      BY <2>1
    <2>3. QED
      BY <2>1, <2>2 DEF Report
  <1>1. \A k \in Calls : \A i \in DOMAIN inbox[k] : inbox[k][i].state \in Said'[inbox[k][i].node]
    BY <1>0, SaidStays DEF ReportInv, InboxInv
  <1>2. CASE UNCHANGED inbox
    BY <1>1, <1>2 DEF InboxInv
  <1>3. ASSUME NEW c \in Calls, Cleanup(c) PROVE InboxInv'
    <2>1. \A k \in Calls : inbox'[k] = inbox[k] \/ inbox'[k] = <<>>
      BY <1>0, <1>3 DEF Cleanup
    <2>2. QED
      BY <1>1, <2>1 DEF InboxInv
  <1>4. ASSUME NEW c \in Calls, RouteReport(c) PROVE InboxInv'
    <2>1. inbox[c] # <<>> /\ inbox' = [inbox EXCEPT ![c] = Tail(@)] /\ inbox[c] \in Seq(Report)
      BY <1>0, <1>4 DEF RouteReport
    <2>2. \A i \in DOMAIN Tail(inbox[c]) : Tail(inbox[c])[i] = inbox[c][i + 1] /\ i + 1 \in DOMAIN inbox[c]
      BY <2>1
    <2>3. \A k \in Calls : \A i \in DOMAIN inbox'[k] : \E j \in DOMAIN inbox[k] : inbox'[k][i] = inbox[k][j]
      BY <1>0, <2>1, <2>2, Zenon
    <2>4. QED
      BY <1>1, <2>3, SMTT(30) DEF InboxInv
  <1>5. ASSUME NEW n \in Nodes, NEW t \in Reports, NodeReports(n, t) PROVE InboxInv'
    <2> DEFINE m == [node |-> n, state |-> t]
    <2>1. m \in Report
      BY DEF Report, Reports
    <2>2. \A k \in Calls : inbox'[k] = inbox[k] \/ inbox'[k] = Append(inbox[k], m)
      BY <1>5 DEF NodeReports
    <2>3. ASSUME NEW k \in Calls, NEW i \in DOMAIN Append(inbox[k], m)
          PROVE  Append(inbox[k], m)[i] = m \/ (i \in DOMAIN inbox[k] /\ Append(inbox[k], m)[i] = inbox[k][i])
      <3>1. inbox[k] \in Seq(Report)
        BY <1>0
      <3> HIDE DEF m
      <3>2. QED
        BY <3>1
    <2>4. t \in Said'[n]
      <3>1. Said = [x \in Nodes |-> Said[x]]
        BY DEF Said
      <3>2. QED
        BY <1>0, <1>5, <3>1, SaidGrows
    <2>5. m.node = n /\ m.state = t
      OBVIOUS
    <2> HIDE DEF m
    <2>6. ASSUME NEW k \in Calls, NEW i \in DOMAIN inbox'[k]
          PROVE  inbox'[k][i].state \in Said'[inbox'[k][i].node]
      BY <1>1, <2>2, <2>3, <2>4, <2>5, SMTT(30)
    <2>7. QED
      BY <2>6 DEF InboxInv
  <1>6. QED
    BY <1>2, <1>3, <1>4, <1>5
    DEF Next, HandlerStep, UpdateStep, GoroutineStep, ConnectionStep, GetClient, Dial, ConnectFails,
        PublishRequest, Subscribe, PublishConfig, Finish, Timeout, FinishUnreadable,
        Greet, StreamDone, Receive, AskToApply, Acknowledge, PassOn, SendState, GoFrame,
        Connect, Reconnect, Drop, HangUp

(* The callback of an update gets reports of its node.                       *)
LEMMA CbStep == Types /\ ReportInv /\ [Next]_vars => CbInv'
  <1> SUFFICES ASSUME Types, ReportInv, [Next]_vars PROVE CbInv'
    OBVIOUS
  <1>0. /\ TypeOK /\ inbox \in [Calls -> Seq(Report)]
        /\ cb \in [Calls -> [to : Updates \cup {Null}, state : States \cup {"malformed", "none"}]]
        /\ \A u \in Updates : NodeOf[u] \in Nodes
    BY CallsAssumption DEF Types, TypeOK
  <1>1. \A k \in Calls : cb[k].to # Null => cb[k].state \in Said'[NodeOf[cb[k].to]]
    BY <1>0, SaidStays DEF ReportInv, CbInv
  <1>2. CASE UNCHANGED cb
    BY <1>1, <1>2 DEF CbInv
  <1>3. ASSUME NEW k \in Calls, cb' = [cb EXCEPT ![k] = NoCb] PROVE CbInv'
    BY <1>0, <1>1, <1>3 DEF NoCb, CbInv
  <1>4. ASSUME NEW c \in Calls, RouteReport(c) PROVE CbInv'
    <2> DEFINE r == Head(inbox[c])
               u == route[c][r.node]
    <2>1. inbox[c] \in Seq(Report) /\ inbox[c] # <<>>
      BY <1>0, <1>4 DEF RouteReport
    <2>2. r = inbox[c][1] /\ 1 \in DOMAIN inbox[c] /\ r \in Report
      BY <2>1
    <2>3. r.node \in Nodes /\ r.state \in Said[r.node]
      BY <2>2 DEF ReportInv, InboxInv, Report
    <2>4. r.state \in Said'[r.node]
      BY <1>0, <2>3, SaidStays
    <2>5. u # Null => NodeOf[u] = r.node
      BY <2>3, SMTT(30) DEF ReportInv, RouteInv
    <2>6. cb' = cb \/ (u # Null /\ cb' = [cb EXCEPT ![c] = [to |-> u, state |-> r.state]])
      BY <1>4 DEF RouteReport
    <2>7. CASE cb' = cb
      BY <1>1, <2>7 DEF CbInv
    <2>8. CASE u # Null /\ cb' = [cb EXCEPT ![c] = [to |-> u, state |-> r.state]]
      <3>1. cb'[c].to = u /\ cb'[c].state = r.state /\ \A k \in Calls \ {c} : cb'[k] = cb[k]
        BY <1>0, <2>8
      <3>2. u # Null /\ r.state \in Said'[NodeOf[u]]
        BY <2>4, <2>5, <2>8
      <3> HIDE DEF r, u
      <3>3. ASSUME NEW k \in Calls, cb'[k].to # Null PROVE cb'[k].state \in Said'[NodeOf[cb'[k].to]]
        BY <1>1, <3>1, <3>2, <3>3
      <3>4. QED
        BY <3>3 DEF CbInv
    <2>9. QED
      BY <2>6, <2>7, <2>8, SMTT(30)
  <1>5. QED
    BY <1>2, <1>3, <1>4
    DEF Next, HandlerStep, UpdateStep, GoroutineStep, ConnectionStep, GetClient, Dial, ConnectFails,
        PublishRequest, Cleanup, Subscribe, PublishConfig, Finish, Timeout, FinishUnreadable,
        Greet, StreamDone, Receive, AskToApply, Acknowledge, PassOn, SendState, GoFrame,
        Connect, Reconnect, Drop, HangUp, NodeReports

(* A goroutine takes its report from the callback.                           *)
LEMMA ValStep == Types /\ ReportInv /\ [Next]_vars => ValInv'
  <1> SUFFICES ASSUME Types, ReportInv, [Next]_vars PROVE ValInv'
    OBVIOUS
  <1>0. /\ TypeOK /\ gor \in [Updates -> GoStates] /\ val \in [Updates -> States \cup {"none"}]
        /\ \A u \in Updates : NodeOf[u] \in Nodes
    BY CallsAssumption DEF Types, TypeOK
  <1>1. \A u \in Updates : gor[u] \in {"answer", "send"} => val[u] \in Said'[NodeOf[u]]
    BY <1>0, SaidStays DEF ReportInv, ValInv
  <1>2. CASE UNCHANGED <<gor, val>>
    BY <1>1, <1>2 DEF ValInv
  <1>3. ASSUME NEW u \in Updates, NEW k \in Calls, Receive(u, k) PROVE ValInv'
    <2>1. cb[k].to = u /\ u # Null /\ val' = [val EXCEPT ![u] = cb[k].state]
          /\ gor' = [gor EXCEPT ![u] = "answer"]
      BY <1>3, CallsAssumption DEF Receive, GoStep, Calls
    <2>2. cb[k].state \in Said'[NodeOf[u]]
      BY <1>0, <2>1, SaidStays DEF ReportInv, CbInv
    <2>3. QED
      BY <1>0, <1>1, <2>1, <2>2 DEF ValInv
  <1>4. ASSUME NEW u \in Updates, UNCHANGED val, NEW to \in GoStates \ {"answer"},
               gor' = [gor EXCEPT ![u] = to], to = "send" => gor[u] = "answer"
        PROVE  ValInv'
    BY <1>0, <1>1, <1>4 DEF ValInv
  <1>5. ASSUME NEW u \in Updates, GoroutineStep(u) \/ UpdateStep(u) PROVE ValInv'
    <2>1. CASE Greet(u) \/ StreamDone(u) \/ SendState(u)
      BY <1>4, <2>1 DEF Greet, StreamDone, SendState, GoStep, GoStates
    <2>2. CASE AskToApply(u) \/ Acknowledge(u) \/ PassOn(u)
      BY <1>4, <2>2 DEF AskToApply, Acknowledge, PassOn, GoStep, GoStates
    <2>3. CASE PublishConfig(u) \/ Finish(u)
      BY <1>2, <1>4, <2>3 DEF PublishConfig, Finish, GoStates
    <2>4. CASE Timeout(u) \/ \E k \in Calls : FinishUnreadable(u, k)
      BY <1>2, <2>4 DEF Timeout, FinishUnreadable
    <2>5. QED
      BY <1>3, <1>5, <2>1, <2>2, <2>3, <2>4 DEF GoroutineStep, UpdateStep
  <1>6. QED
    BY <1>2, <1>5
    DEF Next, HandlerStep, ConnectionStep, GetClient, Dial, ConnectFails, PublishRequest, Cleanup,
        Subscribe, Connect, Reconnect, Drop, RouteReport, HangUp, NodeReports

(* What is sent to a caller is added to what it was told.                    *)
LEMMA ToldGrows ==
  ASSUME TypeOK, NEW u \in Updates, NEW x \in States \cup {"PUBLISHED"}, Tell(u, x)
  PROVE  Told'[u] = Told[u] \cup {x} /\ \A v \in Updates \ {u} : Told'[v] = Told[v]
  <1>1. told \in [Updates -> Seq(States \cup {"PUBLISHED"})] /\ told' = [told EXCEPT ![u] = Append(@, x)]
    BY DEF TypeOK, Tell
  <1>2. told[u] \in Seq(States \cup {"PUBLISHED"}) /\ told'[u] = Append(told[u], x)
    BY <1>1
  <1>3. {told'[u][i] : i \in DOMAIN told'[u]} = {told[u][i] : i \in DOMAIN told[u]} \cup {x}
    <2> DEFINE q == told[u]
               p == told'[u]
               S == States \cup {"PUBLISHED"}
    <2> HIDE DEF q, p, S
    <2>1. q \in Seq(S) /\ x \in S /\ p = Append(q, x)
      BY <1>2 DEF q, p, S
    <2>2. {p[i] : i \in DOMAIN p} = {q[i] : i \in DOMAIN q} \cup {x}
      BY <2>1, RangeOfAppend
    <2>3. QED
      BY <2>2 DEF q, p
  <1>4. Told[u] = {told[u][i] : i \in DOMAIN told[u]} /\ Told'[u] = {told'[u][i] : i \in DOMAIN told'[u]}
    BY DEF Told
  <1>5. ASSUME NEW v \in Updates \ {u} PROVE Told'[v] = Told[v]
    <2>1. told'[v] = told[v]
      BY <1>1
    <2>2. QED
      BY <2>1 DEF Told
  <1>6. QED
    BY <1>3, <1>4, <1>5

(* A goroutine tells its caller what it holds.                               *)
LEMMA ToldStep == Types /\ ReportInv /\ [Next]_vars => ToldInv'
  <1> SUFFICES ASSUME Types, ReportInv, [Next]_vars PROVE ToldInv'
    OBVIOUS
  <1>0. TypeOK /\ \A u \in Updates : NodeOf[u] \in Nodes
    BY CallsAssumption DEF Types
  <1>1. \A u \in Updates : "APPLIED" \in Told[u] => "APPLIED" \in Said'[NodeOf[u]]
    BY <1>0, SaidStays DEF ReportInv, ToldInv
  <1>2. CASE UNCHANGED told
    <2>1. Told' = Told
      BY <1>2 DEF Told
    <2>2. QED
      BY <1>1, <2>1 DEF ToldInv
  <1>3. ASSUME NEW u \in Updates, NEW x \in States \cup {"PUBLISHED"}, Tell(u, x),
               x = "APPLIED" => x \in Said'[NodeOf[u]]
        PROVE  ToldInv'
    BY <1>0, <1>1, <1>3, ToldGrows DEF ToldInv
  <1>4. ASSUME NEW u \in Updates, Greet(u) PROVE ToldInv'
    BY <1>2, <1>3, <1>4 DEF Greet
  <1>5. ASSUME NEW u \in Updates, SendState(u) PROVE ToldInv'
    <2>1. CASE Tell(u, val[u]) /\ gor[u] = "send"
      <3>1. val[u] \in States
        BY <2>1 DEF Types, ValOK
      <3>2. val[u] \in Said'[NodeOf[u]]
        BY <1>0, <2>1, SaidStays DEF ReportInv, ValInv
      <3>3. QED
        BY <1>3, <2>1, <3>1, <3>2
    <2>2. QED
      BY <1>2, <1>5, <2>1 DEF SendState, GoStep
  <1>6. QED
    BY <1>2, <1>4, <1>5
    DEF Next, HandlerStep, UpdateStep, GoroutineStep, ConnectionStep, GetClient, Dial, ConnectFails,
        PublishRequest, Cleanup, Subscribe, PublishConfig, Finish, Timeout, FinishUnreadable,
        StreamDone, Receive, AskToApply, Acknowledge, PassOn, GoFrame,
        Connect, Reconnect, Drop, RouteReport, HangUp, NodeReports

(* Whatever calls overlap and whosever connection they work on: a node is    *)
(* asked to apply only after it said that it can, and a caller is told that  *)
(* the update is applied only after the node said so.                        *)
THEOREM AppliedWasReported == Spec => []AppliedIsReported
  <1>1. Init => ReportInv
    BY DEF Init, ReportInv, NodesInv, InboxInv, RouteInv, CbInv, ValInv, ToldInv, Said, Told, NoCb
  <1>2. Types /\ ReportInv /\ [Next]_vars => ReportInv'
    BY NodesStep, InboxStep, RoutesStep, CbStep, ValStep, ToldStep DEF ReportInv
  <1>3. ReportInv => AppliedIsReported
    BY CallsAssumption DEF ReportInv, NodesInv, ToldInv, AppliedIsReported
  <1>4. QED
    BY <1>1, <1>2, <1>3, TypesCorrect, PTL DEF Spec

-----------------------------------------------------------------------------
(* What a call leaves behind. *)

(* The updates whose caller was last told how it ended.                      *)
EndTold == {u \in Updates : told[u] # <<>> /\ told[u][Len(told[u])] \in {"APPLIED", "ERROR"}}
EndInv ==
  \A u \in Updates : /\ gor[u] = "done" => u \in EndTold
                     /\ result[u] = "ok" => /\ gor[u] = "ended" /\ u \in EndTold
                                            /\ pc[u] \in {"cleanup", "returned"}

(* A goroutine is done only when it told the end, and a result is ok only    *)
(* when the handler met a goroutine that was done.                           *)
LEMMA EndStep == Types /\ EndInv /\ [Next]_vars => EndInv'
  <1> SUFFICES ASSUME Types, EndInv, [Next]_vars PROVE EndInv'
    OBVIOUS
  <1>0. /\ gor \in [Updates -> GoStates] /\ Updates \cap Certs = {} /\ Updates \subseteq Calls
        /\ result \in [Calls -> {"none", "ok", "error", "timeout"}]
        /\ told \in [Updates -> Seq(States \cup {"PUBLISHED"})] /\ pc \in [Calls -> CallStates]
    BY CallsAssumption DEF Types, TypeOK, Calls
  <1>1. ASSUME UNCHANGED <<gor, told>>,
               \A u \in Updates : result'[u] = "ok" =>
                 result[u] = "ok" /\ (pc[u] \in {"cleanup", "returned"} => pc'[u] \in {"cleanup", "returned"})
        PROVE  EndInv'
    BY <1>1 DEF EndInv, EndTold
  <1>2. ASSUME NEW c \in Calls, HandlerStep(c) PROVE EndInv'
    <2>1. CASE GetClient(c) \/ Cleanup(c)
      BY <1>0, <1>1, <2>1 DEF GetClient, Cleanup
    <2>2. CASE ConnectFails(c)
      BY <1>0, <1>1, <2>2 DEF ConnectFails, Fail
    <2>6. CASE Dial(c)
      <3>1. UNCHANGED <<gor, told>> /\ pc[c] = "dialing" /\ result'[c] \in {result[c], "error"}
            /\ \A u \in Calls \ {c} : result'[u] = result[u] /\ pc'[u] = pc[u]
        BY <1>0, <2>6 DEF Dial, DialAnswered, DialStarted, Fail
      <3>2. QED
        BY <1>0, <1>1, <3>1
    <2>3. CASE PublishRequest(c)
      BY <1>0, <1>1, <2>3 DEF PublishRequest, Unwind
    <2>4. CASE Subscribe(c)
      BY <1>0, <1>1, <2>4 DEF Subscribe, Unwind
    <2>5. QED
      BY <1>2, <2>1, <2>2, <2>3, <2>4, <2>6 DEF HandlerStep
  <1>3. ASSUME NEW u \in Updates, UNCHANGED <<pc, result, told>>, NEW to \in GoStates \ {"done"},
               gor' = [gor EXCEPT ![u] = to], gor[u] # "ended"
        PROVE  EndInv'
    BY <1>0, <1>3 DEF EndInv, EndTold
  <1>4. ASSUME NEW u \in Updates, GoroutineStep(u) \/ HangUp(u) PROVE EndInv'
    <2>1. CASE StreamDone(u) \/ (\E k \in Calls : Receive(u, k)) \/ AskToApply(u)
               \/ Acknowledge(u) \/ PassOn(u)
      BY <1>3, <2>1 DEF StreamDone, Receive, AskToApply, Acknowledge, PassOn, GoStep, GoStates,
         GoFrame
    <2>2. ASSUME NEW x \in States \cup {"PUBLISHED"}, Tell(u, x), UNCHANGED <<pc, result>>, gor[u] # "ended",
                 NEW to \in GoStates, gor' = [gor EXCEPT ![u] = to],
                 to = "done" => x \in {"APPLIED", "ERROR"}
          PROVE  EndInv'
      <3>1. told' = [told EXCEPT ![u] = Append(@, x)] /\ told[u] \in Seq(States \cup {"PUBLISHED"})
        BY <1>0, <2>2 DEF Tell
      <3>2. told'[u] = Append(told[u], x) /\ \A v \in Updates \ {u} : told'[v] = told[v]
        BY <1>0, <3>1
      <3>3. told'[u] # <<>> /\ told'[u][Len(told'[u])] = x
        <4>1. ASSUME NEW q \in Seq(States \cup {"PUBLISHED"})
              PROVE  Append(q, x) # <<>> /\ Append(q, x)[Len(Append(q, x))] = x
          OBVIOUS
        <4>2. QED
          BY <3>1, <3>2, <4>1
      <3>4. (to = "done" => u \in EndTold') /\ \A v \in Updates \ {u} : v \in EndTold => v \in EndTold'
        BY <2>2, <3>2, <3>3 DEF EndTold
      <3>5. result[u] # "ok"
        BY <2>2 DEF EndInv
      <3>6. QED
        BY <1>0, <2>2, <3>4, <3>5 DEF EndInv
    <2>3. CASE Greet(u)
      <3>1. CASE Tell(u, "PUBLISHED") /\ GoStep(u, "greet", "loop")
        BY <2>2, <2>3, <3>1 DEF Greet, GoStep, GoFrame, GoStates
      <3>2. CASE UNCHANGED told /\ GoStep(u, "greet", "failed")
        BY <1>3, <2>3, <3>2 DEF Greet, GoStep, GoFrame, GoStates
      <3>3. QED
        BY <2>3, <3>1, <3>2 DEF Greet
    <2>4. CASE SendState(u)
      <3>1. CASE Tell(u, val[u]) /\ gor[u] = "send"
                 /\ gor' = [gor EXCEPT ![u] = IF val[u] \in {"APPLIED", "ERROR"} THEN "done" ELSE "loop"]
        <4>1. val[u] \in States \cup {"PUBLISHED"}
          BY <3>1 DEF Types, ValOK
        <4>2. UNCHANGED <<pc, result>>
          BY <2>4 DEF SendState, GoFrame
        <4>3. QED
          BY <2>2, <3>1, <4>1, <4>2 DEF GoStates
      <3>2. CASE UNCHANGED told /\ GoStep(u, "send", "failed")
        BY <1>3, <2>4, <3>2 DEF SendState, GoStep, GoFrame, GoStates
      <3>3. QED
        BY <2>4, <3>1, <3>2 DEF SendState, GoStep
    <2>5. CASE HangUp(u)
      BY <1>1, <2>5 DEF HangUp
    <2>6. QED
      BY <1>4, <2>1, <2>3, <2>4, <2>5 DEF GoroutineStep
  <1>5. ASSUME NEW u \in Updates, UpdateStep(u) PROVE EndInv'
    <2>1. CASE PublishConfig(u)
      <3>1. CASE gor' = [gor EXCEPT ![u] = "greet"] /\ UNCHANGED <<result, told>>
        BY <1>0, <2>1, <3>1 DEF EndInv, EndTold, PublishConfig, Unwind
      <3>2. CASE Unwind(u, "error") /\ UNCHANGED <<gor, told>>
        BY <1>0, <1>1, <3>2 DEF Unwind
      <3>3. QED
        BY <2>1, <3>1, <3>2 DEF PublishConfig
    <2>2. CASE Finish(u)
      <3>1. /\ gor' = [gor EXCEPT ![u] = "ended"] /\ UNCHANGED told
            /\ result' = [result EXCEPT ![u] = IF gor[u] = "done" THEN "ok" ELSE "error"]
            /\ pc' = [pc EXCEPT ![u] = "cleanup"]
        BY <2>2 DEF Finish, Unwind
      <3>2. QED
        BY <1>0, <3>1 DEF EndInv, EndTold
    <2>3. CASE Timeout(u) \/ \E k \in Calls : FinishUnreadable(u, k)
      BY <1>0, <1>1, <2>3 DEF Timeout, FinishUnreadable, Unwind
    <2>4. QED
      BY <1>5, <2>1, <2>2, <2>3 DEF UpdateStep
  <1>6. ASSUME NEW c \in Calls, Connect(c) PROVE EndInv'
    BY <1>0, <1>1, <1>6 DEF Connect
  <1>7. QED
    BY <1>1, <1>2, <1>4, <1>5, <1>6
    DEF Next, ConnectionStep, Reconnect, Drop, RouteReport, NodeReports

(* A call that returns without an error told its caller how the update ended *)
(* and has left no goroutine behind.                                         *)
THEOREM OkIsTheEnd == Spec => []OkMeansEnded
  <1>1. Init => EndInv
    BY CallsAssumption DEF Init, EndInv, Calls
  <1>2. EndInv => OkMeansEnded
    BY DEF EndInv, EndTold, OkMeansEnded
  <1>3. QED
    BY <1>1, <1>2, EndStep, TypesCorrect, PTL DEF Spec

(* Calls that come one after another, none giving up on a connection under   *)
(* way: the one at work has its own connection in the record, every other    *)
(* connection is closed, and topics are noted only once it subscribed.       *)
CleanInv ==
  ~overlapped /\ ~abandoned =>
    /\ \A c \in Calls, d \in Calls : Running(c) /\ Running(d) => c = d
    /\ \A c \in Calls : Running(c) => rec = c
    /\ \A c \in Calls : conn[c] \notin {"new", "closed"} => Running(c)
    /\ \A c \in Calls : pc[c] = "dialing" => conn[c] \in {"new", "closed"}
    /\ \A c \in Calls : pc[c] = "connecting" => dial[c] = c
    /\ subs # {} => \E c \in Calls : Running(c) /\ pc[c] \notin {"dialing", "connecting", "connected"}

(* A call that returns closes the connection that it made.                   *)
LEMMA CleanStep == Types /\ CleanInv /\ [Next]_vars => CleanInv'
  <1> SUFFICES ASSUME Types, CleanInv, [Next]_vars PROVE CleanInv'
    OBVIOUS
  <1>0. /\ pc \in [Calls -> CallStates] /\ Updates \subseteq Calls
        /\ conn \in [Calls -> {"new", "connecting", "up", "lost", "closed"}]
        /\ subs \subseteq Nodes /\ rec \in Calls \cup {Null}
        /\ dial \in [Calls -> Calls \cup {Null}]
    BY DEF Types, TypeOK, Calls
  <1> USE DEF CleanInv, Running
  <1>1. ASSUME UNCHANGED <<rec, subs, dial, conn, pc, overlapped, abandoned>> PROVE CleanInv'
    BY <1>1
  <1>2. ASSUME NEW c \in Calls, GetClient(c) PROVE CleanInv'
    <2>1. CASE \E d \in Calls : Running(d)
      BY <1>2, <2>1 DEF GetClient
    <2>2. CASE \A d \in Calls : ~Running(d)
      BY <1>0, <1>2, <2>2 DEF GetClient
    <2>3. QED
      BY <2>1, <2>2
  <1>3. ASSUME NEW c \in Calls, ConnectFails(c) PROVE CleanInv'
    <2>1. CASE overlapped \/ abandoned
      BY <1>0, <1>3, <2>1 DEF ConnectFails
    <2>2. CASE ~overlapped /\ ~abandoned
      <3>1. dial[c] = c /\ rec = c /\ \A d \in Calls : Running(d) => d = c
        BY <1>3, <2>2 DEF ConnectFails
      <3>2. QED
        BY <1>0, <1>3, <2>2, <3>1 DEF ConnectFails, Fail
    <2>3. QED
      BY <2>1, <2>2
  <1>10. ASSUME NEW c \in Calls, Dial(c) PROVE CleanInv'
    <2>1. CASE overlapped \/ abandoned
      BY <1>10, <2>1 DEF Dial
    <2>2. CASE ~overlapped /\ ~abandoned
      <3>1. rec = c /\ pc[c] = "dialing" /\ \A d \in Calls : Running(d) => d = c
        BY <1>10, <2>2 DEF Dial
      <3>2. subs = {}
        BY <2>2, <3>1
      <3>3. CASE DialAnswered(c) /\ UNCHANGED <<rec, subs, conn, dial>>
        BY <1>0, <2>2, <3>1, <3>2, <3>3 DEF DialAnswered, Fail
      <3>4. CASE DialStarted(c) /\ UNCHANGED <<rec, subs>>
        BY <1>0, <2>2, <3>1, <3>2, <3>4 DEF DialStarted
      <3>5. QED
        BY <1>10, <3>3, <3>4 DEF Dial
    <2>3. QED
      BY <2>1, <2>2
  <1>4. ASSUME NEW c \in Calls, Cleanup(c) PROVE CleanInv'
    BY <1>0, <1>4 DEF Cleanup
  <1>5. ASSUME NEW c \in Calls, UNCHANGED <<rec, dial, conn, overlapped, abandoned>>,
               pc[c] \in {"connected", "subscribed", "waiting"},
               NEW to \in {"subscribed", "waiting", "cleanup"}, pc' = [pc EXCEPT ![c] = to]
        PROVE  CleanInv'
    BY <1>0, <1>5
  <1>6. ASSUME NEW c \in Calls, PublishRequest(c) \/ Subscribe(c) PROVE CleanInv'
    <2>1. CASE PublishRequest(c)
      BY <1>5, <2>1 DEF PublishRequest, Unwind
    <2>2. CASE Subscribe(c)
      BY <1>5, <2>2 DEF Subscribe, Unwind
    <2>3. QED
      BY <1>6, <2>1, <2>2
  <1>7. ASSUME NEW c \in Calls, Connect(c) \/ Reconnect(c) \/ Drop(c) PROVE CleanInv'
    <2>1. CASE Connect(c)
      BY <1>0, <2>1 DEF Connect, Admit
    <2>2. CASE Reconnect(c)
      BY <1>0, <2>2 DEF Reconnect, Admit
    <2>3. CASE Drop(c)
      BY <1>0, <2>3 DEF Drop
    <2>4. QED
      BY <1>7, <2>1, <2>2, <2>3
  <1>8. ASSUME NEW u \in Updates, UpdateStep(u) PROVE CleanInv'
    <2>1. CASE PublishConfig(u)
      BY <1>0, <1>5, <2>1 DEF PublishConfig, Unwind
    <2>2. CASE Finish(u)
      BY <1>0, <1>5, <2>2 DEF Finish, Unwind
    <2>3. CASE Timeout(u)
      BY <1>0, <1>5, <2>3 DEF Timeout, Unwind
    <2>4. ASSUME NEW k \in Calls, FinishUnreadable(u, k) PROVE CleanInv'
      BY <1>0, <1>5, <2>4 DEF FinishUnreadable, Unwind
    <2>5. QED
      BY <1>8, <2>1, <2>2, <2>3, <2>4 DEF UpdateStep
  <1> HIDE DEF CleanInv
  <1>9. QED
    BY <1>1, <1>2, <1>3, <1>4, <1>6, <1>7, <1>8, <1>10
    DEF Next, HandlerStep, ConnectionStep, GoroutineStep, RouteReport, Greet, StreamDone, Receive,
        AskToApply, Acknowledge, PassOn, SendState, GoFrame, HangUp, NodeReports

(* When all calls have returned, one after another and none giving up, every *)
(* connection is closed and the record holds no topic.                       *)
THEOREM IdleRecordIsClean == Spec => []IdleIsClean
  <1>1. Init => CleanInv
    BY DEF Init, CleanInv, Running
  <1>2. CleanInv => IdleIsClean
    BY DEF CleanInv, IdleIsClean
  <1>3. QED
    BY <1>1, <1>2, CleanStep, TypesCorrect, PTL DEF Spec

-----------------------------------------------------------------------------
(* From the callback to the caller, in order. *)

(* The connections whose router runs, or may run, the callback of an update: *)
(* at most one, and none before the update subscribed.                       *)
Src == [u \in Updates |-> {k \in Calls : cb[k].to = u \/ \E n \in Nodes : route[k][n] = u}]
Early == {"idle", "dialing", "connecting", "connected"}
SrcInv ==
  \A u \in Updates :
    /\ \A k \in Src[u], l \in Src[u] : k = l
    /\ pc[u] \in Early => Src[u] = {}
    /\ pc[u] \in Early \cup {"subscribed"} => gor[u] = "off"

(* What the router does to the callbacks.                                    *)
LEMMA RouteFrame ==
  ASSUME Types, NEW k \in Calls, RouteReport(k)
  PROVE  /\ UNCHANGED route /\ cb[k] = NoCb
         /\ \A l \in Calls \ {k} : cb'[l] = cb[l]
         /\ \/ cb'[k] = cb[k]
            \/ cb'[k] = [to |-> route[k][Head(inbox[k]).node], state |-> Head(inbox[k]).state]
  <1>1. cb \in [Calls -> [to : Updates \cup {Null}, state : States \cup {"malformed", "none"}]]
    BY DEF Types, TypeOK
  <1>2. UNCHANGED route /\ cb[k] = NoCb
    BY DEF RouteReport
  <1>3. \/ cb' = cb
        \/ cb' = [cb EXCEPT ![k] = [to |-> route[k][Head(inbox[k]).node],
                                   state |-> Head(inbox[k]).state]]
    BY DEF RouteReport
  <1>4. QED
    BY <1>1, <1>2, <1>3

(* Only subscribing adds a connection.                                       *)
LEMMA SrcSteps ==
  ASSUME Types, [Next]_vars, NEW v \in Updates
  PROVE  \/ Src'[v] \subseteq Src[v]
         \/ Subscribe(v) /\ pc'[v] \notin Early /\ \E k \in Calls : Src'[v] \subseteq Src[v] \cup {k}
  <1>0. /\ route \in [Calls -> [Nodes -> Updates \cup {Null}]] /\ Null \notin Updates
        /\ cb \in [Calls -> [to : Updates \cup {Null}, state : States \cup {"malformed", "none"}]]
        /\ pc \in [Calls -> CallStates]
    BY CallsAssumption DEF Types, TypeOK, Calls
  <1> USE DEF Src
  <1>1. ASSUME UNCHANGED <<route, cb>> PROVE Src'[v] \subseteq Src[v]
    BY <1>1
  <1>2. ASSUME NEW topics, Unsubscribed(topics), UNCHANGED cb PROVE Src'[v] \subseteq Src[v]
    <2>1. \A k \in Calls, n \in Nodes : route'[k][n] \in {route[k][n], Null}
      BY <1>0, <1>2 DEF Unsubscribed
    <2>2. QED
      BY <1>0, <1>2, <2>1
  <1>3. ASSUME NEW topics, Unsubscribed(topics), NEW k \in Calls, cb' = [cb EXCEPT ![k] = NoCb]
        PROVE  Src'[v] \subseteq Src[v]
    <2>1. \A l \in Calls, n \in Nodes : route'[l][n] \in {route[l][n], Null}
      BY <1>0, <1>3 DEF Unsubscribed
    <2>2. \A l \in Calls : cb'[l].to \in {cb[l].to, Null}
      BY <1>0, <1>3 DEF NoCb
    <2>3. QED
      BY <1>0, <2>1, <2>2
  <1>4. ASSUME NEW u \in Updates, NEW k \in Calls, Receive(u, k) PROVE Src'[v] \subseteq Src[v]
    <2>1. UNCHANGED route /\ \A l \in Calls : cb'[l].to \in {cb[l].to, Null}
      BY <1>0, <1>4 DEF Receive, GoFrame, NoCb
    <2>2. QED
      BY <1>0, <2>1
  <1>5. ASSUME NEW k \in Calls, RouteReport(k) PROVE Src'[v] \subseteq Src[v]
    <2> DEFINE u == route[k][Head(inbox[k]).node]
    <2>1. Head(inbox[k]).node \in Nodes
      BY <1>5, RouteTypes, SMTT(30) DEF Types, Report
    <2>2. /\ UNCHANGED route /\ \A l \in Calls \ {k} : cb'[l] = cb[l]
          /\ cb'[k] = cb[k] \/ cb'[k] = [to |-> u, state |-> Head(inbox[k]).state]
      BY <1>5, RouteFrame
    <2>3. cb'[k].to = cb[k].to \/ cb'[k].to = u
      BY <2>2
    <2>4. QED
      BY <2>1, <2>2, <2>3
  <1>6. ASSUME NEW u \in Updates, Subscribe(u)
        PROVE  \/ Src'[v] \subseteq Src[v]
               \/ v = u /\ pc'[v] \notin Early /\ \E k \in Calls : Src'[v] \subseteq Src[v] \cup {k}
    <2>1. CASE UNCHANGED route
      BY <1>6, <2>1 DEF Subscribe
    <2>2. CASE rec \in Calls /\ route' = [route EXCEPT ![rec][NodeOf[u]] = u] /\ pc' = [pc EXCEPT ![u] = "subscribed"]
      <3>1. UNCHANGED cb /\ \A k \in Calls, n \in Nodes :
              route'[k][n] = route[k][n] \/ (k = rec /\ route'[k][n] = u)
        BY <1>0, <1>6, <2>2 DEF Subscribe
      <3>2. v # u => Src'[v] \subseteq Src[v]
        BY <3>1
      <3>3. Src'[u] \subseteq Src[u] \cup {rec}
        BY <3>1
      <3>4. pc'[u] = "subscribed"
        BY <1>0, <2>2 DEF Calls
      <3>5. QED
        BY <2>2, <3>2, <3>3, <3>4 DEF Early
    <2>3. QED
      BY <1>6, <2>1, <2>2 DEF Subscribe, Live
  <1> HIDE DEF Src
  <1>7. ASSUME NEW c \in Calls, Subscribe(c) PROVE c \in Updates
    BY <1>7 DEF Subscribe
  <1>8. ASSUME NEW c \in Calls, Cleanup(c) PROVE Src'[v] \subseteq Src[v]
    BY <1>2, <1>8 DEF Cleanup
  <1>9. ASSUME NEW u \in Updates, UpdateStep(u) PROVE Src'[v] \subseteq Src[v]
    <2>1. CASE PublishConfig(u)
      BY <1>1, <2>1 DEF PublishConfig
    <2>2. CASE Finish(u) \/ Timeout(u)
      BY <1>2, <2>2 DEF Finish, Timeout
    <2>3. ASSUME NEW k \in Calls, FinishUnreadable(u, k) PROVE Src'[v] \subseteq Src[v]
      BY <1>3, <2>3 DEF FinishUnreadable
    <2>4. QED
      BY <1>9, <2>1, <2>2, <2>3 DEF UpdateStep
  <1>10. QED
    BY <1>1, <1>4, <1>5, <1>6, <1>7, <1>8, <1>9
    DEF Next, HandlerStep, GoroutineStep, ConnectionStep, GetClient, Dial, ConnectFails,
        PublishRequest, Greet, StreamDone, AskToApply, Acknowledge, PassOn, SendState, GoFrame,
        Connect, Reconnect, Drop, HangUp, NodeReports

(* A goroutine starts after its handler subscribed.                          *)
LEMMA StagesStep ==
  ASSUME Types, [Next]_vars, NEW v \in Updates
  PROVE  /\ pc'[v] \in Early => pc[v] \in Early
         /\ pc'[v] \in Early \cup {"subscribed"} =>
              pc[v] \in Early \cup {"subscribed"} /\ (gor[v] = "off" => gor'[v] = "off")
         /\ Subscribe(v) => pc[v] \in Early
  <1>0. pc \in [Calls -> CallStates] /\ gor \in [Updates -> GoStates] /\ Updates \subseteq Calls
    BY DEF Types, TypeOK, Calls
  <1> USE <1>0 DEF Early
  <1>1. CASE UNCHANGED <<pc, gor>>
    BY <1>1 DEF Subscribe
  <1>2. ASSUME NEW c \in Calls, HandlerStep(c) PROVE pc'[v] \in {"cleanup", "returned"} \/
          ((pc'[v] \in Early => pc[v] \in Early) /\ (pc'[v] = "subscribed" => pc[v] \in Early \cup {"subscribed"}))
    BY <1>2 DEF HandlerStep, GetClient, Dial, DialAnswered, DialStarted, ConnectFails, Fail,
                PublishRequest, Unwind, Cleanup, Subscribe
  <1>3. ASSUME NEW c \in Calls, HandlerStep(c) PROVE UNCHANGED gor
    BY <1>3 DEF HandlerStep, GetClient, Dial, ConnectFails, PublishRequest, Cleanup, Subscribe
  <1>4. ASSUME NEW c \in Calls, Connect(c) PROVE UNCHANGED gor /\ (pc'[v] = pc[v] \/ (pc[v] = "connecting" /\ pc'[v] = "connected"))
    BY <1>4 DEF Connect
  <1>5. ASSUME NEW u \in Updates, UpdateStep(u)
        PROVE  \/ pc'[v] \in {"waiting", "cleanup"}
               \/ pc'[v] = pc[v] /\ gor'[v] = gor[v]
    <2>1. CASE PublishConfig(u)
      BY <1>5, <2>1 DEF PublishConfig, Unwind
    <2>2. CASE Finish(u)
      BY <1>5, <2>2 DEF Finish, Unwind
    <2>3. CASE Timeout(u)
      BY <1>5, <2>3 DEF Timeout, Unwind
    <2>4. ASSUME NEW k \in Calls, FinishUnreadable(u, k)
          PROVE  pc'[v] = "cleanup" \/ (pc'[v] = pc[v] /\ gor'[v] = gor[v])
      BY <1>5, <2>4 DEF FinishUnreadable, Unwind
    <2>5. QED
      BY <1>5, <2>1, <2>2, <2>3, <2>4 DEF UpdateStep
  <1>6. ASSUME NEW u \in Updates, GoroutineStep(u) PROVE UNCHANGED pc /\ (gor[v] = "off" => gor'[v] = "off")
    BY <1>6 DEF GoroutineStep, Greet, StreamDone, Receive, AskToApply, Acknowledge, PassOn,
       SendState, GoStep, GoFrame
  <1>7. Subscribe(v) => pc[v] \in Early
    BY DEF Subscribe
  <1>8. QED
    BY <1>1, <1>2, <1>3, <1>4, <1>5, <1>6, <1>7
    DEF Next, ConnectionStep, Reconnect, Drop, RouteReport, HangUp, NodeReports

(* An update has one connection whose router may run its callback.           *)
LEMMA SrcStep == Types /\ SrcInv /\ [Next]_vars => SrcInv'
  <1> SUFFICES ASSUME Types, SrcInv, [Next]_vars, NEW v \in Updates
               PROVE  /\ \A k \in Src'[v], l \in Src'[v] : k = l
                      /\ pc'[v] \in Early => Src'[v] = {}
                      /\ pc'[v] \in Early \cup {"subscribed"} => gor'[v] = "off"
    BY DEF SrcInv, Early
  <1>1. /\ \A k \in Src[v], l \in Src[v] : k = l
        /\ pc[v] \in Early => Src[v] = {}
        /\ pc[v] \in Early \cup {"subscribed"} => gor[v] = "off"
    BY DEF SrcInv
  <1>2. pc'[v] \in Early \cup {"subscribed"} => gor'[v] = "off"
    BY <1>1, StagesStep
  <1>3. CASE Src'[v] \subseteq Src[v]
    BY <1>1, <1>2, <1>3, StagesStep
  <1>4. CASE Subscribe(v) /\ pc'[v] \notin Early /\ \E k \in Calls : Src'[v] \subseteq Src[v] \cup {k}
    <2>1. Src[v] = {}
      BY <1>1, <1>4, StagesStep
    <2>2. QED
      BY <1>2, <1>4, <2>1
  <1>5. QED
    BY <1>3, <1>4, SrcSteps

(* The callbacks that hold a readable report; how many reports of the node   *)
(* were taken up but not told yet depends on where the goroutine stands.     *)
Waiting == [u \in Updates |-> {k \in Calls : cb[k].to = u /\ cb[k].state # "malformed"}]
Pending == [u \in Updates |-> IF Waiting[u] = {} THEN 0 ELSE 1]
Relayed(t, s) ==
  /\ Len(t) <= Len(s) + 1
  /\ \A i \in 1 .. Len(t) : t[i] = IF i = 1 THEN "PUBLISHED" ELSE s[i - 1]
Stage(g, t, s, x, p) ==
  /\ g \in {"off", "greet"} => t = <<>> /\ Len(s) = p
  /\ g = "loop" => Len(s) + 1 = Len(t) + p
  /\ g \in {"answer", "send"} => Len(t) >= 1 /\ Len(s) = Len(t) + p /\ x = s[Len(t)]
IsLast(x, s) == Len(s) >= 1 /\ x = s[Len(s)]
Followed ==
  {u \in Updates :
    /\ Relayed(told[u], seen[u])
    /\ Stage(gor[u], told[u], seen[u], val[u], Pending[u])
    /\ \A k \in Waiting[u] : IsLast(cb[k].state, seen[u])}
FollowInv == Updates \subseteq Followed

(* A step keeps this when it leaves what it speaks of, or ends the goroutine. *)
LEMMA FollowKept ==
  ASSUME NEW v \in Updates, v \in Followed,
         \/ gor'[v] = gor[v] \/ gor'[v] \in {"done", "failed", "ended"}
         \/ <<gor[v], gor'[v]>> \in {<<"off", "greet">>, <<"answer", "send">>},
         val'[v] = val[v], told'[v] = told[v], seen'[v] = seen[v],
         \A k \in Calls :
           \/ cb'[k] = cb[k]
           \/ /\ cb[k].to # v \/ cb[k].state = "malformed"
              /\ cb'[k].to # v \/ cb'[k].state = "malformed"
  PROVE  v \in Followed'
  <1>1. Waiting'[v] = Waiting[v] /\ Pending'[v] = Pending[v]
    BY DEF Waiting, Pending
  <1>2. \A k \in Waiting[v] : cb'[k] = cb[k]
    BY DEF Waiting
  <1>3. /\ Relayed(told[v], seen[v])
        /\ Stage(gor[v], told[v], seen[v], val[v], Pending[v])
        /\ \A k \in Waiting[v] : IsLast(cb[k].state, seen[v])
    BY DEF Followed
  <1>4. Stage(gor'[v], told'[v], seen'[v], val'[v], Pending'[v])
    <2>1. CASE gor'[v] = gor[v]
      BY <1>1, <1>3, <2>1
    <2>2. CASE gor'[v] \in {"done", "failed", "ended"}
      BY <2>2 DEF Stage
    <2>3. CASE <<gor[v], gor'[v]>> \in {<<"off", "greet">>, <<"answer", "send">>}
      BY <1>1, <1>3, <2>3 DEF Stage
    <2>4. QED
      BY <2>1, <2>2, <2>3
  <1>5. QED
    BY <1>1, <1>2, <1>3, <1>4 DEF Followed

(* The goroutine's own steps: it greets, receives and sends.                 *)
LEMMA FollowGreets ==
  ASSUME Types, NEW u \in Updates, u \in Followed, Greet(u), open[u]
  PROVE  u \in Followed'
  <1>1. told[u] = <<>> /\ Len(seen[u]) = Pending[u]
    BY DEF Followed, Stage, Greet, GoStep
  <1>2. told'[u] = <<"PUBLISHED">> /\ gor'[u] = "loop" /\ UNCHANGED <<seen, cb, val>>
    BY <1>1 DEF Greet, GoStep, Tell, GoFrame, Types, TypeOK
  <1>3. Len(told'[u]) = 1 /\ told'[u][1] = "PUBLISHED"
    BY <1>2
  <1>4. Waiting'[u] = Waiting[u] /\ Pending'[u] = Pending[u]
    BY <1>2 DEF Waiting, Pending
  <1>5. Len(seen[u]) \in Nat /\ \A k \in Waiting[u] : IsLast(cb[k].state, seen[u])
    BY DEF Followed, Types, TypeOK
  <1>6. Relayed(told'[u], seen'[u])
    BY <1>2, <1>3, <1>5 DEF Relayed
  <1>7. Stage(gor'[u], told'[u], seen'[u], val'[u], Pending'[u])
    BY <1>1, <1>2, <1>3, <1>4, <1>5 DEF Stage
  <1>8. QED
    BY <1>2, <1>4, <1>5, <1>6, <1>7 DEF Followed

(* The goroutine takes the one report that waits.                            *)
LEMMA FollowReceives ==
  ASSUME Types, SrcInv, NEW u \in Updates, NEW k \in Calls, u \in Followed, Receive(u, k)
  PROVE  u \in Followed'
  <1>1. k \in Waiting[u] /\ \A l \in Waiting[u] : l = k
    BY DEF Receive, Waiting, SrcInv, Src
  <1>2. /\ Len(seen[u]) + 1 = Len(told[u]) + 1
        /\ Len(seen[u]) >= 1 /\ cb[k].state = seen[u][Len(seen[u])]
        /\ Relayed(told[u], seen[u])
    BY <1>1 DEF Followed, Stage, IsLast, Pending, Receive, GoStep
  <1>3. /\ gor'[u] = "answer" /\ UNCHANGED <<seen, told>>
        /\ val'[u] = cb[k].state
    BY DEF Receive, GoStep, GoFrame, Types, TypeOK
  <1>4. \A l \in Calls : cb'[l] = IF l = k THEN NoCb ELSE cb[l]
    BY DEF Receive, Types, TypeOK
  <1>5. Waiting'[u] = {}
    BY <1>1, <1>4, CallsAssumption DEF Waiting, NoCb, Calls
  <1>6. Pending'[u] = 0
    BY <1>5 DEF Pending
  <1>7. Len(seen[u]) \in Nat /\ Len(told[u]) \in Nat
    BY DEF Types, TypeOK
  <1>8. Len(seen[u]) = Len(told[u])
    BY <1>2, <1>7
  <1>9. Stage(gor'[u], told'[u], seen'[u], val'[u], Pending'[u])
    BY <1>2, <1>3, <1>6, <1>7, <1>8 DEF Stage
  <1>10. QED
    BY <1>2, <1>3, <1>5, <1>9 DEF Followed

(* It sends the report that it took.                                         *)
LEMMA FollowSends ==
  ASSUME Types, NEW u \in Updates, u \in Followed, SendState(u), open[u]
  PROVE  u \in Followed'
  <1>1. /\ Len(told[u]) >= 1 /\ Len(seen[u]) = Len(told[u]) + Pending[u]
        /\ val[u] = seen[u][Len(told[u])]
        /\ \A i \in 1 .. Len(told[u]) : told[u][i] = IF i = 1 THEN "PUBLISHED" ELSE seen[u][i - 1]
        /\ \A k \in Waiting[u] : IsLast(cb[k].state, seen[u])
    BY DEF Followed, Relayed, Stage, SendState, GoStep
  <1>2. /\ told'[u] = Append(told[u], val[u]) /\ gor'[u] \in {"loop", "done"}
        /\ UNCHANGED <<seen, cb, val>>
    BY DEF SendState, GoStep, Tell, GoFrame, Types, TypeOK
  <1>3. told[u] \in Seq(States \cup {"PUBLISHED"}) /\ Len(told[u]) \in Nat /\ Len(seen[u]) \in Nat
    BY DEF Types, TypeOK
  <1>4. /\ Len(told'[u]) = Len(told[u]) + 1 /\ told'[u][Len(told[u]) + 1] = val[u]
        /\ \A i \in 1 .. Len(told[u]) : told'[u][i] = told[u][i]
    BY <1>2, <1>3
  <1>5. Waiting'[u] = Waiting[u] /\ Pending'[u] = Pending[u] /\ Pending[u] \in {0, 1}
    BY <1>2 DEF Waiting, Pending
  <1>6. \A i \in 1 .. Len(told'[u]) : told'[u][i] = IF i = 1 THEN "PUBLISHED" ELSE seen'[u][i - 1]
    <2> TAKE i \in 1 .. Len(told'[u])
    <2>1. CASE i \in 1 .. Len(told[u])
      BY <1>1, <1>2, <1>4, <2>1
    <2>2. CASE i = Len(told[u]) + 1
      BY <1>1, <1>2, <1>3, <1>4, <2>2
    <2>3. QED
      BY <1>3, <1>4, <2>1, <2>2
  <1>7. Relayed(told'[u], seen'[u])
    BY <1>1, <1>2, <1>3, <1>4, <1>5, <1>6 DEF Relayed
  <1>8. Stage(gor'[u], told'[u], seen'[u], val'[u], Pending'[u])
    <2>1. Len(seen'[u]) + 1 = Len(told'[u]) + Pending'[u]
      <3>1. seen'[u] = seen[u]
        BY <1>2
      <3>2. QED
        BY <1>1, <1>3, <1>4, <1>5, <3>1
    <2>2. QED
      BY <1>2, <2>1 DEF Stage
  <1>9. QED
    BY <1>1, <1>2, <1>5, <1>7, <1>8 DEF Followed

(* The router hands a report over only when no other one waits.              *)
LEMMA FollowRoutes ==
  ASSUME Types, SrcInv, NEW k \in Calls, RouteReport(k), NEW v \in Updates, v \in Followed
  PROVE  v \in Followed'
  <1> DEFINE r == Head(inbox[k])
             u == route[k][r.node]
  <1>0. /\ r.node \in Nodes /\ r.state \in States \cup {"malformed"}
        /\ cb \in [Calls -> [to : Updates \cup {Null}, state : States \cup {"malformed", "none"}]]
    BY RouteTypes DEF Types, TypeOK, Report
  <1>1. UNCHANGED <<gor, val, told>> /\ Null # v
    BY CallsAssumption DEF RouteReport, Calls
  <1>2. CASE u = v /\ r.state # "malformed"
    <2>1. /\ cb'[k] = [to |-> v, state |-> r.state]
          /\ \A l \in Calls \ {k} : cb'[l] = cb[l]
          /\ seen'[v] = Append(seen[v], r.state)
      BY <1>0, <1>1, <1>2 DEF RouteReport, Types, TypeOK
    <2>2. Waiting[v] = {}
      <3>1. k \in Src[v]
        BY <1>0, <1>2 DEF Src
      <3>2. Waiting[v] \subseteq Src[v]
        BY DEF Waiting, Src
      <3>3. k \notin Waiting[v]
        <4>1. cb[k] = NoCb
          BY RouteFrame
        <4>2. cb[k].to # v
          BY <1>1, <4>1 DEF NoCb
        <4>3. QED
          BY <4>2 DEF Waiting
      <3>4. QED
        BY <3>1, <3>2, <3>3 DEF SrcInv
    <2>3. Waiting'[v] = {k}
      BY <1>2, <2>1, <2>2 DEF Waiting
    <2>4. Pending[v] = 0 /\ Pending'[v] = 1
      BY <2>2, <2>3 DEF Pending
    <2>5. /\ seen[v] \in Seq(States) /\ Len(seen[v]) \in Nat /\ Len(told[v]) \in Nat
          /\ r.state \in States
      BY <1>0, <1>2 DEF Types, TypeOK
    <2>6. /\ Len(seen'[v]) = Len(seen[v]) + 1 /\ seen'[v][Len(seen[v]) + 1] = r.state
          /\ \A i \in 1 .. Len(seen[v]) : seen'[v][i] = seen[v][i]
      BY <2>1, <2>5
    <2>7. Relayed(told[v], seen[v]) /\ Stage(gor[v], told[v], seen[v], val[v], 0)
      BY <2>4 DEF Followed
    <2>8. Relayed(told'[v], seen'[v])
      <3>1. Len(told[v]) <= Len(seen'[v]) + 1
        BY <2>5, <2>6, <2>7 DEF Relayed
      <3>2. ASSUME NEW i \in 1 .. Len(told[v])
            PROVE  told[v][i] = IF i = 1 THEN "PUBLISHED" ELSE seen'[v][i - 1]
        <4>1. CASE i = 1
          BY <2>7, <4>1 DEF Relayed
        <4>2. CASE i # 1
          <5>1. i - 1 \in 1 .. Len(seen[v])
            BY <2>5, <2>7, <4>2 DEF Relayed
          <5>2. QED
            BY <2>6, <2>7, <4>2, <5>1 DEF Relayed
        <4>3. QED
          BY <4>1, <4>2
      <3>3. QED
        BY <1>1, <3>1, <3>2 DEF Relayed
    <2>9. IsLast(r.state, seen'[v])
      BY <2>5, <2>6 DEF IsLast
    <2>10. Stage(gor'[v], told'[v], seen'[v], val'[v], 1)
      <3>1. CASE gor[v] \in {"answer", "send"}
        <4>1. Len(told[v]) \in 1 .. Len(seen[v])
          BY <2>5, <2>7, <3>1 DEF Stage
        <4>2. QED
          BY <1>1, <2>5, <2>6, <2>7, <3>1, <4>1 DEF Stage
      <3>2. CASE gor[v] \notin {"answer", "send"}
        <4>1. /\ Stage(gor[v], told[v], seen[v], val[v], 0) /\ UNCHANGED <<gor, told, val>>
              /\ Len(seen'[v]) = Len(seen[v]) + 1 /\ Len(seen[v]) \in Nat /\ Len(told[v]) \in Nat
          BY <1>1, <2>5, <2>6, <2>7
        <4>2. QED
          BY <3>2, <4>1 DEF Stage
      <3>3. QED
        BY <3>1, <3>2
    <2>11. \A l \in Waiting'[v] : IsLast(cb'[l].state, seen'[v])
      BY <2>1, <2>3, <2>9
    <2>12. QED
      BY <2>4, <2>8, <2>10, <2>11 DEF Followed
  <1>3. CASE ~(u = v /\ r.state # "malformed")
    <2>1. seen'[v] = seen[v]
      BY <1>3 DEF RouteReport, Types, TypeOK
    <2>2. \A l \in Calls :
            \/ cb'[l] = cb[l]
            \/ /\ cb[l].to # v
               /\ cb'[l].to # v \/ cb'[l].state = "malformed"
      <3>0. cb[k] = NoCb
        BY RouteFrame
      <3>1. cb[k].to = Null
        BY <3>0 DEF NoCb
      <3>2. /\ \A l \in Calls \ {k} : cb'[l] = cb[l]
            /\ cb'[k] = cb[k] \/ cb'[k] = [to |-> u, state |-> r.state]
        BY RouteFrame
      <3>3. cb'[k] # cb[k] => cb'[k].to = u /\ cb'[k].state = r.state
        BY <3>2
      <3>4. QED
        BY <1>1, <1>3, <3>1, <3>2, <3>3
    <2>3. QED
      BY <1>1, <2>1, <2>2, FollowKept
  <1>4. QED
    BY <1>2, <1>3

(* Every step keeps it, whoever takes it.                                    *)
LEMMA FollowStep == Types /\ SrcInv /\ FollowInv /\ [Next]_vars => FollowInv'
  <1> SUFFICES ASSUME Types, SrcInv, FollowInv, [Next]_vars, NEW v \in Updates
               PROVE  v \in Followed'
    BY DEF FollowInv
  <1>0. /\ v \in Followed /\ Null # v
        /\ gor \in [Updates -> GoStates] /\ told \in [Updates -> Seq(States \cup {"PUBLISHED"})]
        /\ val \in [Updates -> States \cup {"none"}]
        /\ cb \in [Calls -> [to : Updates \cup {Null}, state : States \cup {"malformed", "none"}]]
    BY CallsAssumption DEF FollowInv, Types, TypeOK, Calls
  <1>1. ASSUME UNCHANGED <<gor, val, told, seen, cb>> PROVE v \in Followed'
    BY <1>0, <1>1, FollowKept
  <1>2. ASSUME NEW c \in Calls, HandlerStep(c) \/ Connect(c) \/ Reconnect(c) \/ Drop(c)
        PROVE  UNCHANGED <<gor, val, told, seen, cb>>
    BY <1>2 DEF HandlerStep, GetClient, Dial, ConnectFails, PublishRequest, Cleanup, Subscribe,
       Connect, Reconnect, Drop
  <1>3. ASSUME NEW u \in Updates, UpdateStep(u) PROVE v \in Followed'
    <2>1. CASE PublishConfig(u)
      <3>1. UNCHANGED <<val, told, seen, cb>>
        BY <2>1 DEF PublishConfig
      <3>2. gor'[v] = gor[v] \/ <<gor[v], gor'[v]>> = <<"off", "greet">>
        BY <1>0, <2>1 DEF PublishConfig, SrcInv
      <3>3. QED
        BY <1>0, <3>1, <3>2, FollowKept
    <2>2. CASE Finish(u)
      <3>1. UNCHANGED <<val, told, seen, cb>> /\ (gor'[v] = gor[v] \/ gor'[v] = "ended")
        BY <1>0, <2>2 DEF Finish
      <3>2. QED
        BY <1>0, <3>1, FollowKept
    <2>3. CASE Timeout(u)
      BY <1>1, <2>3 DEF Timeout
    <2>4. ASSUME NEW k \in Calls, FinishUnreadable(u, k) PROVE v \in Followed'
      <3>1. UNCHANGED <<gor, val, told, seen>>
        BY <2>4 DEF FinishUnreadable
      <3>2. \A l \in Calls : cb'[l] = cb[l] \/ (cb[l].state = "malformed" /\ cb'[l].to # v)
        BY <1>0, <2>4 DEF FinishUnreadable, NoCb
      <3>3. QED
        BY <1>0, <3>1, <3>2, FollowKept
    <2>5. QED
      BY <1>3, <2>1, <2>2, <2>3, <2>4 DEF UpdateStep
  <1>4. ASSUME NEW u \in Updates, GoroutineStep(u) PROVE v \in Followed'
    <2>1. ASSUME UNCHANGED <<val, told, seen, cb>>,
                 \/ gor'[v] = gor[v] \/ gor'[v] = "failed"
                 \/ <<gor[v], gor'[v]>> = <<"answer", "send">>
          PROVE  v \in Followed'
      BY <1>0, <2>1, FollowKept
    <2>2. ASSUME (StreamDone(u) \/ AskToApply(u) \/ Acknowledge(u) \/ PassOn(u))
                 \/ ((Greet(u) \/ SendState(u)) /\ ~open[u])
          PROVE  v \in Followed'
      <3>1. UNCHANGED <<val, told, seen, cb>>
        BY <2>2 DEF StreamDone, AskToApply, Acknowledge, PassOn, Greet, SendState, GoFrame
      <3>2. \/ gor'[v] = gor[v] \/ gor'[v] = "failed"
            \/ <<gor[v], gor'[v]>> = <<"answer", "send">>
        BY <1>0, <2>2 DEF StreamDone, AskToApply, Acknowledge, PassOn, Greet, SendState, GoStep
      <3>3. QED
        BY <2>1, <3>1, <3>2
    <2>3. CASE (Greet(u) \/ SendState(u)) /\ open[u]
      <3>1. CASE u = v
        BY <1>0, <2>3, <3>1, FollowGreets, FollowSends
      <3>2. CASE u # v
        <4>1. UNCHANGED <<seen, cb>> /\ gor'[v] = gor[v] /\ told'[v] = told[v] /\ val'[v] = val[v]
          BY <1>0, <2>3, <3>2 DEF Greet, SendState, Tell, GoStep, GoFrame
        <4>2. QED
          BY <1>0, <4>1, FollowKept
      <3>3. QED
        BY <3>1, <3>2
    <2>4. ASSUME NEW k \in Calls, Receive(u, k) PROVE v \in Followed'
      <3>1. CASE u = v
        BY <1>0, <2>4, <3>1, FollowReceives
      <3>2. CASE u # v
        <4>1. UNCHANGED <<seen, told>> /\ gor'[v] = gor[v] /\ val'[v] = val[v]
          BY <1>0, <2>4, <3>2 DEF Receive, GoStep, GoFrame
        <4>2. \A l \in Calls : cb'[l] = cb[l] \/ (cb[l].to # v /\ cb'[l].to # v)
          BY <1>0, <2>4, <3>2 DEF Receive, NoCb
        <4>3. QED
          BY <1>0, <4>1, <4>2, FollowKept
      <3>3. QED
        BY <3>1, <3>2
    <2>5. QED
      BY <1>4, <2>2, <2>3, <2>4 DEF GoroutineStep
  <1>5. ASSUME NEW k \in Calls, RouteReport(k) PROVE v \in Followed'
    BY <1>0, <1>5, FollowRoutes
  <1>6. ASSUME NEW u \in Updates, HangUp(u) PROVE v \in Followed'
    BY <1>1, <1>6 DEF HangUp
  <1>7. ASSUME NEW n \in Nodes, NEW s \in Reports, NodeReports(n, s) PROVE v \in Followed'
    BY <1>1, <1>7 DEF NodeReports
  <1>8. QED
    BY <1>1, <1>2, <1>3, <1>4, <1>5, <1>6, <1>7 DEF Next, ConnectionStep

(* What a caller is told is what its callback was handed, nothing left out   *)
(* and in the same order (lines 206-228 and 250-319): the router of the one  *)
(* connection that has the callback waits until the goroutine has taken the  *)
(* report, and the goroutine takes the next one after it sent this one.      *)
THEOREM ToldInOrder == Spec => []ToldFollowsSeen
  <1>1. Init => SrcInv
    BY CallsAssumption DEF Init, SrcInv, Src, NoCb, Early, Calls
  <1>2. Init => FollowInv
    <2> SUFFICES ASSUME Init, NEW u \in Updates PROVE u \in Followed
      BY DEF FollowInv
    <2>1. Waiting[u] = {} /\ Pending[u] = 0
      BY CallsAssumption DEF Init, Waiting, Pending, NoCb, Calls
    <2>2. told[u] = <<>> /\ seen[u] = <<>> /\ gor[u] = "off"
      BY DEF Init
    <2>3. QED
      BY <2>1, <2>2 DEF Followed, Relayed, Stage
  <1>3. FollowInv => ToldFollowsSeen
    BY DEF FollowInv, Followed, Relayed, ToldFollowsSeen
  <1>4. QED
    BY <1>1, <1>2, <1>3, SrcStep, FollowStep, TypesCorrect, PTL DEF Spec

=============================================================================
