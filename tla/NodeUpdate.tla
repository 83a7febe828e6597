----------------------------- MODULE NodeUpdate -----------------------------
(***************************************************************************)
(* The calls that work under the MQTT identity "update_node": UpdateNode   *)
(* and SendCertificateRequest of MqttFactory                               *)
(* (src/control/service/control_plane/mqtt_client.go, lines 30-334).       *)
(*                                                                         *)
(* The factory keeps one record per identity.  GetClient makes a new       *)
(* connection for every call and puts it in the record; every later use    *)
(* of "c.client", when it is dialed, by the handler, by its goroutine or   *)
(* by cleanup, reads the record again.  So calls that overlap work on the  *)
(* connection of the last one, and the broker, which allows one session    *)
(* for an identity, ends the session of the one before.                    *)
(*                                                                         *)
(* A connection is named after the call it was made for.  One update is    *)
(* the handler (pc), its goroutine (gor), its callback, which the router   *)
(* of a connection runs for one report at a time (cb), the two unbuffered  *)
(* channels between them (a rendezvous is one step of both sides), its     *)
(* caller and its node.                                                    *)
(***************************************************************************)
EXTENDS Integers, Sequences, FiniteSets

CONSTANTS
  Updates,      \* calls of UpdateNode
  Certs,        \* calls of SendCertificateRequest
  NodeOf,       \* the node that an update is for
  Null,         \* no call
  Scripts,      \* bound: what a node may publish, one report after the other
  MaxDrops,     \* bound: sessions that break by themselves
  Faults        \* what may go wrong: a subset of AllFaults

Calls == Updates \cup Certs
Nodes == {NodeOf[u] : u \in Updates}
AllFaults == {"connect", "subscribe", "publish", "hangup"}

ASSUME CallsAssumption ==
  /\ Updates \cap Certs = {} /\ Null \notin Calls
  /\ IsFiniteSet(Calls)
  /\ NodeOf \in [Updates -> Nodes]
ASSUME BoundsAssumption == MaxDrops \in Nat
ASSUME FaultsAssumption == Faults \subseteq AllFaults

States == {"APPLICABLE", "APPLIED", "ERROR", "OTHER"}
Reports == States \cup {"malformed"}
Report == [node : Nodes, state : States \cup {"malformed"}]

ASSUME ScriptAssumption == Scripts \subseteq Seq(Reports)

VARIABLES
  rec,          \* the connection in the record "update_node"
  subs,         \* the topics noted in the record
  dial,         \* dial[c]: the connection on which c's answer is due, or Null
  conn,         \* conn[c]: the state of the connection made for c
  session,      \* the nodes whose reports the broker sends to c's connection
  route,        \* route[c][n]: the update whose callback c's router runs for n
  inbox,        \* reports that arrived at c's connection, not yet routed
  cb,           \* the callback c's router is in, or NoCb
  pc,           \* where the handler of a call stands
  result,       \* what it returned
  gor,          \* where the goroutine of an update stands
  val,          \* the report it holds
  open,         \* the caller still holds the stream
  told,         \* the states sent to the caller
  ack,          \* what became of the acknowledgement
  config, apply,\* nodes that a configuration, an apply request was sent to
  reported,     \* reported[n]: states published by n, in order
  drops,        \* sessions that broke by themselves, so far
  seen,         \* history: the readable reports handed to u's callback
  overlapped,   \* history: GetClient ran while another call was at work
  abandoned     \* history: GetClient gave up on a connection under way

recordVars == <<rec, subs, dial>>
brokerVars == <<conn, session, route, inbox>>
handlerVars == <<pc, result>>
goVars == <<gor, val, ack>>
callerVars == <<open, told>>
nodeVars == <<config, apply, reported, drops>>
historyVars == <<seen, overlapped, abandoned>>
vars == <<recordVars, brokerVars, cb, handlerVars, goVars, callerVars,
          nodeVars, historyVars>>

NoCb == [to |-> Null, state |-> "none"]
Running(c) == pc[c] \notin {"idle", "returned"}

-----------------------------------------------------------------------------
(* The connections and the broker (external: paho and the broker). *)

Live(k) == IF k \in Calls THEN conn[k] = "up" ELSE FALSE
Gone(k) == IF k \in Calls THEN conn[k] \notin {"up", "lost"} ELSE TRUE

\* The broker admits connection k and ends the session that the identity had;
\* the client of that one will reconnect by itself.
Admit(k) ==
  conn' = [c \in Calls |-> IF c = k THEN "up"
                           ELSE IF conn[c] = "up" THEN "lost" ELSE conn[c]]

\* A clean session begins without subscriptions.
Reconnect(k) ==
  /\ conn[k] = "lost"
  /\ Admit(k)
  /\ session' = [session EXCEPT ![k] = {}]
  /\ UNCHANGED <<recordVars, route, inbox, cb, handlerVars, goVars, callerVars,
                 nodeVars, historyVars>>

Drop(k) ==
  /\ conn[k] = "up"
  /\ drops < MaxDrops
  /\ conn' = [conn EXCEPT ![k] = "lost"]
  /\ drops' = drops + 1
  /\ UNCHANGED <<recordVars, session, route, inbox, cb, handlerVars, goVars,
                 callerVars, config, apply, reported, historyVars>>

\* Unsubscribe from a topic on the connection in the record.
Unsubscribed(topics) ==
  /\ session' = IF Live(rec) THEN [session EXCEPT ![rec] = @ \ topics] ELSE session
  /\ route' = IF rec \in Calls
              THEN [route EXCEPT ![rec] =
                      [n \in Nodes |-> IF n \in topics THEN Null ELSE @[n]]]
              ELSE route

-----------------------------------------------------------------------------
(* GetClient and cleanup. *)

\* Line 98: a new connection replaces the one in the record.
GetClient(c) ==
  /\ pc[c] = "idle"
  /\ rec' = c
  /\ pc' = [pc EXCEPT ![c] = "dialing"]
  /\ overlapped' = (overlapped \/ \E d \in Calls : Running(d))
  /\ UNCHANGED <<subs, dial, brokerVars, cb, result, goVars, callerVars,
                 nodeVars, seen, abandoned>>

Fail(c) ==
  /\ pc' = [pc EXCEPT ![c] = "returned"]
  /\ result' = [result EXCEPT ![c] = "error"]
  /\ open' = [open EXCEPT ![c] = FALSE]

\* Line 105: the connection that a goroutine dials is the one in the record by
\* then.  One that is up, or will be again, answers at once; one that another
\* call dials already answers with an error.
DialAnswered(c) ==
  \/ /\ conn[rec] \in {"up", "lost"}
     /\ pc' = [pc EXCEPT ![c] = "connected"]
     /\ UNCHANGED <<result, open>>
  \/ conn[rec] = "connecting" /\ Fail(c)

\* A closed connection is dialed anew; who waited for it before has failed.
DialStarted(c) ==
  /\ conn[rec] \in {"new", "closed"}
  /\ conn' = [conn EXCEPT ![rec] = "connecting"]
  /\ dial' = [d \in Calls |-> IF d = c THEN rec
                              ELSE IF dial[d] = rec THEN Null ELSE dial[d]]
  /\ pc' = [pc EXCEPT ![c] = "connecting"]

Dial(c) ==
  /\ pc[c] = "dialing" /\ rec \in Calls
  /\ \/ DialAnswered(c) /\ UNCHANGED <<conn, dial>>
     \/ DialStarted(c) /\ UNCHANGED <<result, open>>
  /\ UNCHANGED <<rec, subs, session, route, inbox, cb, goVars, told, nodeVars,
                 historyVars>>

\* The broker's answer arrives, while a call waits for it or later.
Connect(k) ==
  /\ conn[k] = "connecting"
  /\ Admit(k)
  /\ session' = [session EXCEPT ![k] = {}]
  /\ pc' = [c \in Calls |-> IF pc[c] = "connecting" /\ dial[c] = k
                            THEN "connected" ELSE pc[c]]
  /\ UNCHANGED <<recordVars, route, inbox, cb, result, goVars, callerVars,
                 nodeVars, historyVars>>

\* Another call has closed the connection, the broker refuses, or five seconds
\* pass: then the attempt goes on alone.
ConnectFails(c) ==
  LET k == dial[c] IN
  /\ pc[c] = "connecting"
  /\ Fail(c)
  /\ \/ (IF k \in Calls THEN conn[k] = "closed" ELSE TRUE) /\ UNCHANGED <<conn, abandoned>>
     \/ /\ "connect" \in Faults /\ k \in Calls /\ conn[k] = "connecting"
        /\ \/ conn' = [conn EXCEPT ![k] = "closed"] /\ UNCHANGED abandoned
           \/ abandoned' = TRUE /\ UNCHANGED conn
  /\ UNCHANGED <<recordVars, session, route, inbox, cb, goVars, told, nodeVars,
                 seen, overlapped>>

\* Variant: Disconnect is left out.
CleanupUnsubscribes(c) ==
  /\ pc[c] = "cleanup"
  /\ Unsubscribed(subs)
  /\ subs' = {}
  /\ pc' = [pc EXCEPT ![c] = "returned"]
  /\ open' = [open EXCEPT ![c] = FALSE]
  /\ UNCHANGED <<rec, dial, conn, inbox, cb, result, goVars, told, nodeVars,
                 historyVars>>

\* Lines 83-92, deferred: the connection in the record is closed, whosever it
\* is.  When the handler has returned, its stream is no more.
Cleanup(c) ==
  /\ pc[c] = "cleanup"
  /\ conn' = IF rec \in Calls THEN [conn EXCEPT ![rec] = "closed"] ELSE conn
  /\ Unsubscribed(subs)
  /\ inbox' = [inbox EXCEPT ![rec] = <<>>]
  /\ subs' = {}
  /\ pc' = [pc EXCEPT ![c] = "returned"]
  /\ open' = [open EXCEPT ![c] = FALSE]
  /\ UNCHANGED <<rec, dial, cb, result, goVars, told, nodeVars, historyVars>>

\* The handler of c has made up its result and unwinds.
Unwind(c, r) ==
  /\ pc' = [pc EXCEPT ![c] = "cleanup"]
  /\ result' = [result EXCEPT ![c] = r]

\* A publication is answered when the session is up, with an error perhaps; a
\* client that reconnects keeps it until then; a closed one refuses it.
MayPublish == Live(rec)
MayRefuse == Gone(rec) \/ (Live(rec) /\ "publish" \in Faults)

-----------------------------------------------------------------------------
(* SendCertificateRequest, lines 174-183. *)

PublishRequest(c) ==
  /\ c \in Certs
  /\ pc[c] = "connected"
  /\ \/ MayPublish /\ Unwind(c, "ok")
     \/ MayRefuse /\ Unwind(c, "error")
  /\ UNCHANGED <<recordVars, brokerVars, cb, goVars, callerVars, nodeVars,
                 historyVars>>

-----------------------------------------------------------------------------
(* The handler of UpdateNode. *)

\* Lines 206-228.  The token is looked at before it is waited for: a refusal of
\* the broker goes unnoticed, one of the client itself does not.
Subscribe(u) ==
  LET n == NodeOf[u] IN
  /\ u \in Updates
  /\ pc[u] = "connected"
  /\ subs' = subs \cup {n}
  /\ \/ /\ Live(rec)
        /\ session' = [session EXCEPT ![rec] = @ \cup {n}]
        /\ route' = [route EXCEPT ![rec][n] = u]
        /\ pc' = [pc EXCEPT ![u] = "subscribed"]
        /\ UNCHANGED result
     \/ /\ Live(rec) /\ "subscribe" \in Faults
        /\ route' = [route EXCEPT ![rec][n] = u]
        /\ pc' = [pc EXCEPT ![u] = "subscribed"]
        /\ UNCHANGED <<session, result>>
     \/ /\ ~Live(rec)
        /\ Unwind(u, "error")
        /\ UNCHANGED <<session, route>>
  /\ UNCHANGED <<rec, dial, conn, inbox, cb, goVars, callerVars, nodeVars,
                 historyVars>>

\* Lines 230-248: the configuration goes out and the goroutine starts.
PublishConfig(u) ==
  /\ pc[u] = "subscribed"
  /\ \/ /\ MayPublish
        /\ config' = config \cup {NodeOf[u]}
        /\ pc' = [pc EXCEPT ![u] = "waiting"]
        /\ gor' = [gor EXCEPT ![u] = "greet"]
        /\ UNCHANGED result
     \/ /\ MayRefuse
        /\ Unwind(u, "error")
        /\ UNCHANGED <<config, gor>>
  /\ UNCHANGED <<recordVars, brokerVars, cb, val, ack, callerVars, apply,
                 reported, drops, historyVars>>

\* Variant: what the goroutine hands over is not looked at.
FinishAnyhow(u) ==
  /\ pc[u] = "waiting"
  /\ gor[u] \in {"done", "failed"}
  /\ gor' = [gor EXCEPT ![u] = "ended"]
  /\ Unwind(u, "ok")
  /\ Unsubscribed({NodeOf[u]})
  /\ UNCHANGED <<recordVars, conn, inbox, cb, val, ack, callerVars, nodeVars,
                 historyVars>>

\* Lines 325-328: the goroutine hands its result over on doneChan.
Finish(u) ==
  /\ pc[u] = "waiting"
  /\ gor[u] \in {"done", "failed"}
  /\ gor' = [gor EXCEPT ![u] = "ended"]
  /\ Unwind(u, IF gor[u] = "done" THEN "ok" ELSE "error")
  /\ Unsubscribed({NodeOf[u]})
  /\ UNCHANGED <<recordVars, conn, inbox, cb, val, ack, callerVars, nodeVars,
                 historyVars>>

\* Lines 213-219: the callback hands over that it could not read a report.
FinishUnreadable(u, k) ==
  /\ pc[u] = "waiting"
  /\ cb[k] = [to |-> u, state |-> "malformed"]
  /\ cb' = [cb EXCEPT ![k] = NoCb]
  /\ Unwind(u, "error")
  /\ Unsubscribed({NodeOf[u]})
  /\ UNCHANGED <<recordVars, conn, inbox, goVars, callerVars, nodeVars,
                 historyVars>>

\* Variant: the timeout is one more case of the goroutine's select.
TimeoutInLoop(u) ==
  /\ pc[u] = "waiting" /\ gor[u] = "loop"
  /\ Unwind(u, "timeout")
  /\ Unsubscribed({NodeOf[u]})
  /\ UNCHANGED <<recordVars, conn, inbox, cb, goVars, callerVars, nodeVars,
                 historyVars>>

\* Lines 329-332, forty seconds after the call began.
Timeout(u) ==
  /\ pc[u] = "waiting"
  /\ Unwind(u, "timeout")
  /\ Unsubscribed({NodeOf[u]})
  /\ UNCHANGED <<recordVars, conn, inbox, cb, goVars, callerVars, nodeVars,
                 historyVars>>

-----------------------------------------------------------------------------
(* The router of a connection and the callback of UpdateNode. *)

\* Variant: the router does not wait for the callback.
RouteConcurrently(k) ==
  LET r == Head(inbox[k])
      u == route[k][r.node] IN
  /\ inbox[k] # <<>>
  /\ inbox' = [inbox EXCEPT ![k] = Tail(@)]
  /\ IF u = Null THEN UNCHANGED <<cb, seen>>
     ELSE /\ cb' = [cb EXCEPT ![k] = [to |-> u, state |-> r.state]]
          /\ seen' = IF r.state = "malformed" THEN seen
                     ELSE [seen EXCEPT ![u] = Append(@, r.state)]
  /\ UNCHANGED <<recordVars, conn, session, route, handlerVars, goVars,
                 callerVars, nodeVars, overlapped, abandoned>>

\* The router hands the oldest report to the callback, and waits for it.
\* Without a callback for its topic it goes to messagePubHandler, which logs it.
RouteReport(k) ==
  LET r == Head(inbox[k])
      u == route[k][r.node] IN
  /\ cb[k] = NoCb
  /\ inbox[k] # <<>>
  /\ inbox' = [inbox EXCEPT ![k] = Tail(@)]
  /\ IF u = Null THEN UNCHANGED <<cb, seen>>
     ELSE /\ cb' = [cb EXCEPT ![k] = [to |-> u, state |-> r.state]]
          /\ seen' = IF r.state = "malformed" THEN seen
                     ELSE [seen EXCEPT ![u] = Append(@, r.state)]
  /\ UNCHANGED <<recordVars, conn, session, route, handlerVars, goVars,
                 callerVars, nodeVars, overlapped, abandoned>>

-----------------------------------------------------------------------------
(* The goroutine of UpdateNode. *)

GoStep(u, from, to) == gor[u] = from /\ gor' = [gor EXCEPT ![u] = to]
Tell(u, s) == told' = [told EXCEPT ![u] = Append(@, s)]
GoFrame == UNCHANGED <<recordVars, brokerVars, handlerVars, historyVars>>

\* Lines 248-258.
Greet(u) ==
  /\ \/ /\ open[u]
        /\ GoStep(u, "greet", "loop")
        /\ Tell(u, "PUBLISHED")
     \/ /\ ~open[u]
        /\ GoStep(u, "greet", "failed")
        /\ UNCHANGED told
  /\ UNCHANGED <<cb, val, ack, open, nodeVars>> /\ GoFrame

\* Lines 263-266.
StreamDone(u) ==
  /\ ~open[u]
  /\ GoStep(u, "loop", "failed")
  /\ UNCHANGED <<cb, val, ack, callerVars, nodeVars>> /\ GoFrame

\* Variant: the callback goes on after a report that it could not read.
ReceiveUnread(u, k) ==
  /\ cb[k].to = u
  /\ GoStep(u, "loop", "answer")
  /\ val' = [val EXCEPT ![u] = cb[k].state]
  /\ cb' = [cb EXCEPT ![k] = NoCb]
  /\ UNCHANGED <<ack, callerVars, nodeVars>> /\ GoFrame

\* Lines 221, 267: the callback and the goroutine meet on streamChan.
Receive(u, k) ==
  /\ cb[k].to = u
  /\ cb[k].state # "malformed"
  /\ GoStep(u, "loop", "answer")
  /\ val' = [val EXCEPT ![u] = cb[k].state]
  /\ cb' = [cb EXCEPT ![k] = NoCb]
  /\ UNCHANGED <<ack, callerVars, nodeVars>> /\ GoFrame

\* Variant: every report is answered with the apply request.
AskAtAnyReport(u) ==
  /\ val[u] # "APPLIED"
  /\ \/ /\ MayPublish
        /\ apply' = apply \cup {NodeOf[u]}
        /\ GoStep(u, "answer", "send")
     \/ /\ MayRefuse
        /\ GoStep(u, "answer", "failed")
        /\ UNCHANGED apply
  /\ UNCHANGED <<cb, val, ack, callerVars, config, reported, drops>> /\ GoFrame

\* Lines 274-283: a node that is ready is asked to apply.
AskToApply(u) ==
  /\ val[u] = "APPLICABLE"
  /\ \/ /\ MayPublish
        /\ apply' = apply \cup {NodeOf[u]}
        /\ GoStep(u, "answer", "send")
     \/ /\ MayRefuse
        /\ GoStep(u, "answer", "failed")
        /\ UNCHANGED apply
  /\ UNCHANGED <<cb, val, ack, callerVars, config, reported, drops>> /\ GoFrame

\* Lines 284-294: the acknowledgement goes out, or not; either way the state is
\* set to APPLIED.
Acknowledge(u) ==
  /\ val[u] = "APPLIED"
  /\ GoStep(u, "answer", "send")
  /\ \/ MayPublish /\ ack' = [ack EXCEPT ![u] = "sent"]
     \/ MayRefuse /\ ack' = [ack EXCEPT ![u] = "failed"]
  /\ UNCHANGED <<cb, val, callerVars, nodeVars>> /\ GoFrame

PassOn(u) ==
  /\ val[u] \notin {"APPLICABLE", "APPLIED"}
  /\ GoStep(u, "answer", "send")
  /\ UNCHANGED <<cb, val, ack, callerVars, nodeVars>> /\ GoFrame

\* Lines 296-317.
SendState(u) ==
  /\ \/ /\ open[u]
        /\ Tell(u, val[u])
        /\ GoStep(u, "send", IF val[u] \in {"APPLIED", "ERROR"} THEN "done" ELSE "loop")
     \/ /\ ~open[u]
        /\ GoStep(u, "send", "failed")
        /\ UNCHANGED told
  /\ UNCHANGED <<cb, val, ack, open, nodeVars>> /\ GoFrame

-----------------------------------------------------------------------------
(* The caller and the nodes (external). *)

HangUp(u) ==
  /\ "hangup" \in Faults
  /\ Running(u) /\ open[u]
  /\ open' = [open EXCEPT ![u] = FALSE]
  /\ UNCHANGED <<recordVars, brokerVars, cb, handlerVars, goVars, told, nodeVars,
                 historyVars>>

\* What a node may publish, given what it has been sent.
MaySay(n, s) ==
  n \in config /\ (s = "APPLIED" => n \in apply)

\* The broker passes the report on to every session that subscribed to it.
NodeReports(n, s) ==
  /\ MaySay(n, s)
  /\ reported' = [reported EXCEPT ![n] = Append(@, s)]
  /\ \E script \in Scripts :
       /\ Len(reported'[n]) <= Len(script)
       /\ \A i \in DOMAIN reported'[n] : reported'[n][i] = script[i]
  /\ inbox' = [c \in Calls |->
                 IF conn[c] = "up" /\ n \in session[c]
                 THEN Append(inbox[c], [node |-> n, state |-> s]) ELSE inbox[c]]
  /\ UNCHANGED <<recordVars, conn, session, route, cb, handlerVars, goVars,
                 callerVars, config, apply, drops, historyVars>>

-----------------------------------------------------------------------------
Init ==
  /\ rec = Null /\ subs = {}
  /\ dial = [c \in Calls |-> Null]
  /\ conn = [c \in Calls |-> "new"]
  /\ session = [c \in Calls |-> {}]
  /\ route = [c \in Calls |-> [n \in Nodes |-> Null]]
  /\ inbox = [c \in Calls |-> <<>>]
  /\ cb = [c \in Calls |-> NoCb]
  /\ pc = [c \in Calls |-> "idle"]
  /\ result = [c \in Calls |-> "none"]
  /\ gor = [u \in Updates |-> "off"]
  /\ val = [u \in Updates |-> "none"]
  /\ ack = [u \in Updates |-> "none"]
  /\ open = [c \in Calls |-> TRUE]
  /\ told = [u \in Updates |-> <<>>]
  /\ config = {} /\ apply = {}
  /\ reported = [n \in Nodes |-> <<>>]
  /\ drops = 0
  /\ seen = [u \in Updates |-> <<>>]
  /\ overlapped = FALSE /\ abandoned = FALSE

HandlerStep(c) ==
  \/ GetClient(c) \/ Dial(c) \/ ConnectFails(c) \/ PublishRequest(c) \/ Cleanup(c)
  \/ Subscribe(c)

UpdateStep(u) ==
  \/ PublishConfig(u) \/ Finish(u) \/ Timeout(u)
  \/ \E k \in Calls : FinishUnreadable(u, k)

GoroutineStep(u) ==
  \/ Greet(u) \/ StreamDone(u) \/ \E k \in Calls : Receive(u, k)
  \/ AskToApply(u) \/ Acknowledge(u) \/ PassOn(u) \/ SendState(u)

ConnectionStep(k) == Connect(k) \/ Reconnect(k) \/ Drop(k) \/ RouteReport(k)

Next ==
  \/ \E c \in Calls : HandlerStep(c) \/ ConnectionStep(c)
  \/ \E u \in Updates : UpdateStep(u) \/ GoroutineStep(u) \/ HangUp(u)
  \/ \E n \in Nodes, s \in Reports : NodeReports(n, s)

\* The Go runtime, the clients and the broker go on; the caller, the nodes and
\* the faults need not.  A step that waits for a session gets it in the end,
\* because clients reconnect: hence strong fairness where sessions may flap.
Fairness ==
  \A c \in Calls :
    /\ WF_vars(Connect(c) \/ Reconnect(c))
    /\ WF_vars(Dial(c))
    /\ WF_vars(ConnectFails(c) \/ Timeout(c) \/ Cleanup(c))
    /\ SF_vars(PublishRequest(c) \/ Subscribe(c) \/ PublishConfig(c))

Spec == Init /\ [][Next]_vars /\ Fairness

-----------------------------------------------------------------------------
(* Properties. *)

CallStates == {"idle", "dialing", "connecting", "connected", "subscribed", "waiting",
               "cleanup", "returned"}
GoStates == {"off", "greet", "loop", "answer", "send", "done", "failed", "ended"}

\* Every variable keeps its type, the record of "update_node" included.
TypeOK ==
  /\ rec \in Calls \cup {Null} /\ subs \subseteq Nodes
  /\ dial \in [Calls -> Calls \cup {Null}]
  /\ conn \in [Calls -> {"new", "connecting", "up", "lost", "closed"}]
  /\ session \in [Calls -> SUBSET Nodes]
  /\ route \in [Calls -> [Nodes -> Updates \cup {Null}]]
  /\ inbox \in [Calls -> Seq(Report)]
  /\ cb \in [Calls -> [to : Updates \cup {Null}, state : States \cup {"malformed", "none"}]]
  /\ pc \in [Calls -> CallStates]
  /\ result \in [Calls -> {"none", "ok", "error", "timeout"}]
  /\ gor \in [Updates -> GoStates]
  /\ val \in [Updates -> States \cup {"none"}]
  /\ ack \in [Updates -> {"none", "sent", "failed"}]
  /\ open \in [Calls -> BOOLEAN]
  /\ told \in [Updates -> Seq(States \cup {"PUBLISHED"})]
  /\ config \subseteq Nodes /\ apply \subseteq Nodes
  /\ reported \in [Nodes -> Seq(States \cup {"malformed"})]
  /\ drops \in 0..MaxDrops
  /\ seen \in [Updates -> Seq(States)]
  /\ overlapped \in BOOLEAN /\ abandoned \in BOOLEAN

Said == [n \in Nodes |-> {reported[n][i] : i \in DOMAIN reported[n]}]
Told == [u \in Updates |-> {told[u][i] : i \in DOMAIN told[u]}]

\* What a caller is told is what its callback was handed, nothing left out and
\* in the same order, though three processes hand it on over two channels.
ToldFollowsSeen ==
  \A u \in Updates :
    /\ Len(told[u]) <= Len(seen[u]) + 1
    /\ \A i \in 1 .. Len(told[u]) :
         told[u][i] = IF i = 1 THEN "PUBLISHED" ELSE seen[u][i - 1]

\* A node is asked to apply only after it reported that it can, and its caller
\* is told that it applied the update only after it reported that, also when
\* the call works on the connection of another one.
AppliedIsReported ==
  /\ \A n \in apply : n \in config /\ "APPLICABLE" \in Said[n]
  /\ \A u \in Updates : "APPLIED" \in Told[u] =>
       "APPLIED" \in Said[NodeOf[u]] /\ NodeOf[u] \in apply

\* When no call is at work, calls never overlapped and none gave up while its
\* connection was under way, then every connection is closed and the record
\* holds no topic.
IdleIsClean ==
  ~overlapped /\ ~abandoned /\ (\A c \in Calls : ~Running(c)) =>
    subs = {} /\ \A c \in Calls : conn[c] \in {"new", "closed"}

\* A call that returns without an error has told its caller how the update
\* ended, and has left no goroutine waiting on its channels.
OkMeansEnded ==
  \A u \in Updates : result[u] = "ok" =>
    /\ told[u] # <<>> /\ told[u][Len(told[u])] \in {"APPLIED", "ERROR"}
    /\ gor[u] = "ended"

\* Every call returns, whatever the broker, the node and the caller do: while
\* it waits for reports by its timeout, before that by the answers of the
\* broker.
HandlerReturns == \A c \in Calls : Running(c) ~> pc[c] = "returned"

=============================================================================
