------------------------------- MODULE Server -------------------------------
(***************************************************************************)
(* The server process from start to end (Serve, src/control/app.go) with   *)
(* the two streams that run as long as it does: the handlers Hello and Log *)
(* of MqttFactory (control_plane/mqtt_client.go) and the services of the   *)
(* same process that read them (southbound/core.go).                       *)
(*                                                                         *)
(* A stream is a pipeline: the broker delivers what nodes publish to the   *)
(* handler's connection (inbox), the router runs the callback for one      *)
(* message at a time (cb), the callback puts it on a channel (chan), which *)
(* is unbuffered for hellos, a goroutine takes it from there and sends its *)
(* entries one by one (drain, batch) over the gRPC stream (wire), and the  *)
(* service receives and handles them (journal).  A hello is a message with *)
(* one entry, the serial number; a log message is an array of entries.     *)
(***************************************************************************)
EXTENDS Integers, Sequences

CONSTANTS
  Nodes,        \* serial numbers of the nodes that say hello
  Arrays,       \* the arrays of entries that nodes log
  Unreadable,   \* a log payload that is no array
  Nothing,      \* no message
  LogCap,       \* capacity of the channel of Log: 3 in the code
  MaxPublished, \* bound: messages published on the topic of each stream
  MaxTrouble,   \* bound: faults while the server runs
  Faults        \* what may go wrong: a subset of AllFaults

Streams == {"hello", "log"}
AllFaults == {"est", "database", "broker", "listen", "query", "break", "session"}
Payloads(s) == IF s = "hello" THEN {<<n>> : n \in Nodes} ELSE Arrays \cup {Unreadable}
Entries == Nodes \cup UNION {{a[i] : i \in DOMAIN a} : a \in Arrays}

ASSUME ArraysAssumption ==
  /\ \A a \in Arrays : a \in Seq({a[i] : i \in DOMAIN a})
  /\ Unreadable \notin Arrays /\ Nothing \notin Arrays \cup {Unreadable}
  /\ \A n \in Nodes : <<n>> # Nothing /\ <<n>> # Unreadable
ASSUME ServerBounds ==
  /\ LogCap \in Nat \ {0} /\ MaxPublished \in [Streams -> Nat]
  /\ MaxTrouble \in Nat /\ Faults \subseteq AllFaults

VARIABLES
  main,         \* where Serve stands
  est, broker,  \* the EST server and the MQTT broker
  cancelled,    \* broker_ctx is cancelled: the broker has to close
  db,           \* the database was set up
  lastSeen,     \* nodes whose last_seen was written
  svc,          \* svc[s]: the service that reads stream s
  hand,         \* hand[s]: the handler that feeds it
  up,           \* up[s]: the gRPC stream between them is alive
  sub,          \* sub[s]: the broker holds the handler's subscription
  inbox, cb, chan, drain, batch, wire, journal,
  published,    \* messages published on each topic, so far
  trouble,      \* faults while the server runs, so far
  handed        \* history: the readable entries handed to the callback

procVars == <<main, est, broker, cancelled, db>>
pipeVars == <<inbox, cb, chan, drain, batch, wire, journal, handed>>
counts == <<published, trouble>>
vars == <<procVars, lastSeen, svc, hand, up, sub, pipeVars, counts>>

Over == main \in {"dead", "exited"}
Alive == ~Over
Fault(f) == f \in Faults /\ trouble < MaxTrouble /\ trouble' = trouble + 1

-----------------------------------------------------------------------------
(* Serve: starting up, in the order of the code. *)

\* Lines 57-70: without an EST server the process ends.
StartEST ==
  /\ main = "start"
  /\ \/ main' = "database" /\ est' = "serving"
     \/ "est" \in Faults /\ main' = "dead" /\ UNCHANGED est
  /\ UNCHANGED <<broker, cancelled, db, lastSeen, svc, hand, up, sub, pipeVars, counts>>

\* Lines 72-75: an error is logged, and the server goes on without a database.
OpenDatabase ==
  /\ main = "database"
  /\ main' = "broker"
  /\ \/ db' = TRUE
     \/ "database" \in Faults /\ db' = FALSE
  /\ UNCHANGED <<est, broker, cancelled, lastSeen, svc, hand, up, sub, pipeVars, counts>>

\* Lines 77-88: the broker starts in a goroutine of its own.
StartBroker ==
  /\ main = "broker"
  /\ main' = "listen"
  /\ broker' = "starting"
  /\ UNCHANGED <<est, cancelled, db, lastSeen, svc, hand, up, sub, pipeVars, counts>>

\* Lines 95-134.  The address is in use: lis is nil and lis.Addr() panics.
Listen ==
  /\ main = "listen"
  /\ \/ main' = "serving" /\ svc' = [s \in Streams |-> "dialing"]
     \/ "listen" \in Faults /\ main' = "dead" /\ UNCHANGED svc
  /\ UNCHANGED <<est, broker, cancelled, db, lastSeen, hand, up, sub, pipeVars, counts>>

-----------------------------------------------------------------------------
(* Serve: shutting down. *)

\* Lines 136-145.  No goroutine cancels ctx or broker_ctx: only a signal ends
\* the wait.
Signal ==
  /\ main = "serving"
  /\ main' = "stopping"
  /\ UNCHANGED <<est, broker, cancelled, db, lastSeen, svc, hand, up, sub, pipeVars, counts>>

\* Variant: Stop, which waits for nobody, in the place of GracefulStop.
StopAtOnce ==
  /\ main = "stopping"
  /\ main' = "stopped"
  /\ UNCHANGED <<est, broker, cancelled, db, lastSeen, svc, hand, up, sub, pipeVars, counts>>

\* Line 148: GracefulStop waits for every handler.
GracefulStop ==
  /\ main = "stopping"
  /\ \A s \in Streams : hand[s] \in {"none", "returned"}
  /\ main' = "stopped"
  /\ UNCHANGED <<est, broker, cancelled, db, lastSeen, svc, hand, up, sub, pipeVars, counts>>

\* Line 82, deferred last and so called first: broker_ctx is cancelled.  Serve
\* does not wait for the broker to close.
CancelBroker ==
  /\ main = "stopped"
  /\ main' = "est"
  /\ cancelled' = TRUE
  /\ UNCHANGED <<est, broker, db, lastSeen, svc, hand, up, sub, pipeVars, counts>>

\* Lines 69 and 47: then the EST server shuts down, and the context of the
\* services is cancelled.
Exit ==
  /\ main = "est"
  /\ main' = "exited"
  /\ est' = "shut"
  /\ svc' = [s \in Streams |-> "ended"]
  /\ UNCHANGED <<broker, cancelled, db, lastSeen, hand, up, sub, pipeVars, counts>>

-----------------------------------------------------------------------------
(* The EST server and the broker. *)

\* EST Serve returns its error, Serve logs it and calls ctx.Done(), which
\* cancels nothing.
ESTFails ==
  /\ Alive /\ Fault("est")
  /\ est = "serving"
  /\ est' = "failed"
  /\ UNCHANGED <<main, broker, cancelled, db, lastSeen, svc, hand, up, sub, pipeVars,
                 published>>

BrokerListens ==
  /\ Alive
  /\ broker = "starting"
  /\ broker' = "up"
  /\ UNCHANGED <<main, est, cancelled, db, lastSeen, svc, hand, up, sub, pipeVars, counts>>

\* The broker cannot listen, or stops serving later: sessions are gone.
BrokerFails ==
  /\ Alive /\ Fault("broker")
  /\ broker \in {"starting", "up"}
  /\ broker' = "failed"
  /\ sub' = [s \in Streams |-> FALSE]
  /\ UNCHANGED <<main, est, cancelled, db, lastSeen, svc, hand, up, pipeVars, published>>

\* The goroutine of the broker sees its context cancelled and closes the broker,
\* unless the process has ended by then.
CloseBroker ==
  /\ Alive /\ cancelled
  /\ broker = "up"
  /\ broker' = "closed"
  /\ sub' = [s \in Streams |-> FALSE]
  /\ UNCHANGED <<main, est, cancelled, db, lastSeen, svc, hand, up, pipeVars, counts>>

\* A session breaks; the client reconnects, to a clean session.
SessionLost(s) ==
  /\ Alive /\ Fault("session")
  /\ sub[s]
  /\ sub' = [sub EXCEPT ![s] = FALSE]
  /\ UNCHANGED <<procVars, lastSeen, svc, hand, up, pipeVars, published>>

\* A node publishes (external); at quality of service 0 the broker keeps nothing.
Publish(s, m) ==
  /\ Alive
  /\ published[s] < MaxPublished[s]
  /\ published' = [published EXCEPT ![s] = @ + 1]
  /\ inbox' = IF sub[s] THEN [inbox EXCEPT ![s] = Append(@, m)] ELSE inbox
  /\ UNCHANGED <<procVars, lastSeen, svc, hand, up, sub, cb, chan, drain, batch,
                 wire, journal, handed, trouble>>

-----------------------------------------------------------------------------
(* The handlers Hello and Log. *)

\* The handler gets its client, subscribes and starts the goroutine.  What
\* became of the subscription is not looked at.
Open(s) ==
  /\ Alive /\ hand[s] = "connecting" /\ broker = "up"
  /\ hand' = [hand EXCEPT ![s] = "waiting"]
  /\ drain' = [drain EXCEPT ![s] = "idle"]
  /\ sub' = [sub EXCEPT ![s] = TRUE]
  /\ UNCHANGED <<procVars, lastSeen, svc, up, inbox, cb, chan, batch, wire,
                 journal, handed, counts>>

\* The broker is not there yet, or no more: the handler returns Internal.
OpenFails(s) ==
  /\ Alive /\ hand[s] = "connecting" /\ broker # "up"
  /\ hand' = [hand EXCEPT ![s] = "returned"]
  /\ up' = [up EXCEPT ![s] = FALSE]
  /\ UNCHANGED <<procVars, lastSeen, svc, sub, pipeVars, counts>>

\* Variant: the router does not wait for the callback.
RouteConcurrently(s) ==
  /\ Alive /\ inbox[s] # <<>>
  /\ cb' = [cb EXCEPT ![s] = Head(inbox[s])]
  /\ inbox' = [inbox EXCEPT ![s] = Tail(@)]
  /\ handed' = IF Head(inbox[s]) = Unreadable THEN handed
               ELSE [handed EXCEPT ![s] = @ \o Head(inbox[s])]
  /\ UNCHANGED <<procVars, lastSeen, svc, hand, up, sub, chan, drain, batch,
                 wire, journal, counts>>

\* The router runs the callback with the oldest message.
Route(s) ==
  /\ Alive /\ cb[s] = Nothing /\ inbox[s] # <<>>
  /\ cb' = [cb EXCEPT ![s] = Head(inbox[s])]
  /\ inbox' = [inbox EXCEPT ![s] = Tail(@)]
  /\ handed' = IF Head(inbox[s]) = Unreadable THEN handed
               ELSE [handed EXCEPT ![s] = @ \o Head(inbox[s])]
  /\ UNCHANGED <<procVars, lastSeen, svc, hand, up, sub, chan, drain, batch,
                 wire, journal, counts>>

\* Variant: a channel without a limit.
PushUnbounded ==
  /\ Alive /\ cb["log"] # Nothing
  /\ chan' = Append(chan, cb["log"])
  /\ cb' = [cb EXCEPT !["log"] = Nothing]
  /\ UNCHANGED <<procVars, lastSeen, svc, hand, up, sub, inbox, drain, batch,
                 wire, journal, handed, counts>>

\* The callback of Log waits while three messages are on the channel.
Push ==
  /\ Alive /\ cb["log"] # Nothing /\ Len(chan) < LogCap
  /\ chan' = Append(chan, cb["log"])
  /\ cb' = [cb EXCEPT !["log"] = Nothing]
  /\ UNCHANGED <<procVars, lastSeen, svc, hand, up, sub, inbox, drain, batch,
                 wire, journal, handed, counts>>

\* The goroutine of Hello meets the callback on the unbuffered channel.
TakeHello ==
  /\ Alive /\ drain["hello"] = "idle" /\ cb["hello"] # Nothing
  /\ drain' = [drain EXCEPT !["hello"] = "sending"]
  /\ batch' = [batch EXCEPT !["hello"] = cb["hello"]]
  /\ cb' = [cb EXCEPT !["hello"] = Nothing]
  /\ UNCHANGED <<procVars, lastSeen, svc, hand, up, sub, inbox, chan, wire,
                 journal, handed, counts>>

\* The goroutine of Log skips a payload that is no array.
TakeLog ==
  /\ Alive /\ drain["log"] = "idle" /\ chan # <<>>
  /\ chan' = Tail(chan)
  /\ IF Head(chan) = Unreadable THEN UNCHANGED <<drain, batch>>
     ELSE /\ drain' = [drain EXCEPT !["log"] = "sending"]
          /\ batch' = [batch EXCEPT !["log"] = Head(chan)]
  /\ UNCHANGED <<procVars, lastSeen, svc, hand, up, sub, inbox, cb, wire,
                 journal, handed, counts>>

\* One entry is sent; when the stream is broken the goroutine ends.
Send(s) ==
  /\ Alive /\ drain[s] = "sending"
  /\ IF batch[s] = <<>>
     THEN drain' = [drain EXCEPT ![s] = "idle"] /\ UNCHANGED <<batch, wire>>
     ELSE IF up[s]
     THEN /\ wire' = [wire EXCEPT ![s] = Append(@, Head(batch[s]))]
          /\ batch' = [batch EXCEPT ![s] = Tail(@)]
          /\ UNCHANGED drain
     ELSE drain' = [drain EXCEPT ![s] = "ended"] /\ UNCHANGED <<batch, wire>>
  /\ UNCHANGED <<procVars, lastSeen, svc, hand, up, sub, inbox, cb, chan,
                 journal, handed, counts>>

\* Variant: the handler waits for its goroutine.
CloseAfterDrain(s) ==
  /\ Alive /\ hand[s] = "waiting" /\ drain[s] = "ended"
  /\ hand' = [hand EXCEPT ![s] = "returned"]
  /\ sub' = [sub EXCEPT ![s] = FALSE]
  /\ inbox' = [inbox EXCEPT ![s] = <<>>]
  /\ UNCHANGED <<procVars, lastSeen, svc, up, cb, chan, drain, batch, wire,
                 journal, handed, counts>>

\* The context of the stream is done: cleanup, which disconnects, and return.
Close(s) ==
  /\ Alive /\ hand[s] = "waiting" /\ ~up[s]
  /\ hand' = [hand EXCEPT ![s] = "returned"]
  /\ sub' = [sub EXCEPT ![s] = FALSE]
  /\ inbox' = [inbox EXCEPT ![s] = <<>>]
  /\ UNCHANGED <<procVars, lastSeen, svc, up, cb, chan, drain, batch, wire,
                 journal, handed, counts>>

-----------------------------------------------------------------------------
(* The services of southbound/core.go. *)

\* The service calls the control plane of its own process.
Dial(s) ==
  /\ svc[s] = "dialing"
  /\ \/ /\ main = "serving"
        /\ svc' = [svc EXCEPT ![s] = "receiving"]
        /\ hand' = [hand EXCEPT ![s] = "connecting"]
        /\ up' = [up EXCEPT ![s] = TRUE]
     \/ /\ main \notin {"serving", "dead", "exited"}
        /\ svc' = [svc EXCEPT ![s] = "ended"]
        /\ UNCHANGED <<hand, up>>
  /\ UNCHANGED <<procVars, lastSeen, sub, pipeVars, counts>>

\* A log entry goes to the log file.
ReceiveLog ==
  /\ Alive /\ svc["log"] = "receiving" /\ wire["log"] # <<>>
  /\ journal' = [journal EXCEPT !["log"] = Append(@, Head(wire["log"]))]
  /\ wire' = [wire EXCEPT !["log"] = Tail(@)]
  /\ UNCHANGED <<procVars, lastSeen, svc, hand, up, sub, inbox, cb, chan, drain,
                 batch, handed, counts>>

\* Variant: an error of the database ends the service.
HelloEndsOnError ==
  /\ Alive /\ svc["hello"] = "receiving" /\ wire["hello"] # <<>>
  /\ journal' = [journal EXCEPT !["hello"] = Append(@, Head(wire["hello"]))]
  /\ wire' = [wire EXCEPT !["hello"] = Tail(@)]
  /\ \/ /\ db
        /\ lastSeen' = lastSeen \cup {Head(wire["hello"])}
        /\ UNCHANGED <<main, svc, trouble>>
     \/ /\ db /\ Fault("query")
        /\ svc' = [svc EXCEPT !["hello"] = "ended"]
        /\ UNCHANGED <<main, lastSeen>>
     \/ /\ ~db
        /\ main' = "dead"
        /\ UNCHANGED <<lastSeen, svc, trouble>>
  /\ UNCHANGED <<est, broker, cancelled, db, hand, up, sub, inbox, cb, chan, drain,
                 batch, published, handed>>

\* A hello sets last_seen of the rows with its serial number; an error of the
\* database is logged.  Without a database the pool is nil: the process panics.
ReceiveHello ==
  /\ Alive /\ svc["hello"] = "receiving" /\ wire["hello"] # <<>>
  /\ journal' = [journal EXCEPT !["hello"] = Append(@, Head(wire["hello"]))]
  /\ wire' = [wire EXCEPT !["hello"] = Tail(@)]
  /\ \/ /\ db
        /\ lastSeen' = lastSeen \cup {Head(wire["hello"])}
        /\ UNCHANGED <<main, trouble>>
     \/ /\ db /\ Fault("query")
        /\ UNCHANGED <<main, lastSeen>>
     \/ /\ ~db
        /\ main' = "dead"
        /\ UNCHANGED <<lastSeen, trouble>>
  /\ UNCHANGED <<est, broker, cancelled, db, svc, hand, up, sub, inbox, cb, chan,
                 drain, batch, published, handed>>

\* The connection between service and handler breaks: both see it.
Break(s) ==
  /\ Alive /\ Fault("break")
  /\ up[s]
  /\ up' = [up EXCEPT ![s] = FALSE]
  /\ wire' = [wire EXCEPT ![s] = <<>>]
  /\ UNCHANGED <<procVars, lastSeen, svc, hand, sub, inbox, cb, chan, drain,
                 batch, journal, published, handed>>

\* Recv returns an error: the service ends, and nobody starts it again.
ServiceEnds(s) ==
  /\ Alive /\ svc[s] = "receiving" /\ ~up[s]
  /\ svc' = [svc EXCEPT ![s] = "ended"]
  /\ UNCHANGED <<procVars, lastSeen, hand, up, sub, pipeVars, counts>>

-----------------------------------------------------------------------------
Init ==
  /\ main = "start" /\ est = "off" /\ broker = "off" /\ cancelled = FALSE /\ db = FALSE
  /\ lastSeen = {}
  /\ svc = [s \in Streams |-> "off"]
  /\ hand = [s \in Streams |-> "none"]
  /\ up = [s \in Streams |-> FALSE]
  /\ sub = [s \in Streams |-> FALSE]
  /\ inbox = [s \in Streams |-> <<>>]
  /\ cb = [s \in Streams |-> Nothing]
  /\ chan = <<>>
  /\ drain = [s \in Streams |-> "off"]
  /\ batch = [s \in Streams |-> <<>>]
  /\ wire = [s \in Streams |-> <<>>]
  /\ journal = [s \in Streams |-> <<>>]
  /\ published = [s \in Streams |-> 0]
  /\ handed = [s \in Streams |-> <<>>]
  /\ trouble = 0

Start == StartEST \/ OpenDatabase \/ StartBroker \/ Listen
Stop == GracefulStop \/ CancelBroker \/ Exit
Pipeline(s) ==
  \/ Dial(s) \/ Open(s) \/ OpenFails(s) \/ Route(s) \/ Send(s) \/ Close(s)
  \/ ServiceEnds(s)
Channels == Push \/ TakeHello \/ TakeLog \/ ReceiveHello \/ ReceiveLog

Next ==
  \/ Start \/ Signal \/ Stop \/ ESTFails
  \/ BrokerListens \/ BrokerFails \/ CloseBroker
  \/ \E s \in Streams : Pipeline(s) \/ SessionLost(s) \/ Break(s)
  \/ \E s \in Streams : \E m \in Payloads(s) : Publish(s, m)
  \/ Channels

\* Goroutines that can go on do.  Signals, publications and faults need not come.
Fairness ==
  /\ WF_vars(Start) /\ WF_vars(Stop) /\ WF_vars(BrokerListens) /\ WF_vars(CloseBroker)
  /\ \A s \in Streams :
       WF_vars(Dial(s) \/ Open(s) \/ OpenFails(s) \/ Close(s)) /\
       WF_vars(ServiceEnds(s)) /\ WF_vars(Route(s)) /\ WF_vars(Send(s))
  /\ WF_vars(Push) /\ WF_vars(TakeHello) /\ WF_vars(TakeLog)
  /\ WF_vars(ReceiveHello) /\ WF_vars(ReceiveLog)

Spec == Init /\ [][Next]_vars /\ Fairness

-----------------------------------------------------------------------------
(* Properties. *)

ProcessOK ==
  /\ main \in {"start", "database", "broker", "listen", "serving", "stopping",
               "stopped", "est", "exited", "dead"}
  /\ est \in {"off", "serving", "failed", "shut"}
  /\ broker \in {"off", "starting", "up", "failed", "closed"}
  /\ cancelled \in BOOLEAN /\ db \in BOOLEAN /\ lastSeen \subseteq Nodes
  /\ svc \in [Streams -> {"off", "dialing", "receiving", "ended"}]
  /\ hand \in [Streams -> {"none", "connecting", "waiting", "returned"}]
  /\ up \in [Streams -> BOOLEAN] /\ sub \in [Streams -> BOOLEAN]
  /\ published \in [Streams -> Nat] /\ \A s \in Streams : published[s] <= MaxPublished[s]
  /\ trouble \in 0 .. MaxTrouble

Messages == Payloads("hello") \cup Payloads("log")

PipelineOK ==
  /\ inbox \in [Streams -> Seq(Messages)] /\ cb \in [Streams -> Messages \cup {Nothing}]
  /\ \A s \in Streams : inbox[s] \in Seq(Payloads(s)) /\ cb[s] \in Payloads(s) \cup {Nothing}
  /\ drain \in [Streams -> {"off", "idle", "sending", "ended"}]
  /\ batch \in [Streams -> Seq(Entries)] /\ wire \in [Streams -> Seq(Entries)]
  /\ journal \in [Streams -> Seq(Entries)] /\ handed \in [Streams -> Seq(Entries)]
  /\ wire["hello"] \in Seq(Nodes) /\ batch["hello"] \in Seq(Nodes)
  /\ chan \in Seq(Payloads("log")) /\ Len(chan) <= LogCap

\* Every variable keeps its type, and the channel of Log its capacity.
TypeOK == ProcessOK /\ PipelineOK

IsPrefixOf(a, b) == Len(a) <= Len(b) /\ \A i \in 1 .. Len(a) : a[i] = b[i]

\* What a service has handled is what the callback was handed: in that order,
\* no entry lost between two that came, none twice, whatever breaks on the way
\* and however long the channel is full.
InOrder == \A s \in Streams : IsPrefixOf(journal[s], handed[s])

\* The broker's goroutine may close the broker late, or not at all before the
\* process ends; but never while a handler is left that would work with it, nor
\* does the EST server shut down before: GracefulStop comes first, then the
\* deferred calls, and broker_ctx is cancelled by them alone.
StopInOrder ==
  broker = "closed" \/ est = "shut" =>
    cancelled /\ \A s \in Streams : hand[s] \in {"none", "returned"}

\* "it is not intendet to close hello service, when db has an error"
\* (core.go:173): the service ends only with its stream or the process; and a
\* server at work dies only if it came up without a database.
HelloSurvives ==
  [][/\ svc["hello"] = "receiving" /\ svc'["hello"] = "ended"
          => ~up["hello"] \/ main' = "exited"
     /\ main \in {"serving", "stopping"} /\ main' = "dead" => ~db]_vars

\* While a stream lives, everything that was handed to its callback reaches the
\* service, full channel or not; when it breaks, both of its ends end.
Settles ==
  \A s \in Streams :
    []<>(\/ Over
         \/ up[s] /\ journal[s] = handed[s]
         \/ ~up[s] /\ svc[s] = "ended" /\ hand[s] \in {"none", "returned"})

\* "Graceful shutdown" (app.go:147): after a signal the process ends.
ShutdownCompletes == main = "stopping" ~> Over

=============================================================================
