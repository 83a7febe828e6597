---------------------------- MODULE ServerProofs ----------------------------
(* Proofs about Server: types, the order of the shutdown, what ends the      *)
(* hello service, and the order and completeness of the two streams.         *)
EXTENDS Server, SequenceTheorems, TLAPS

USE DEF procVars, pipeVars, counts, vars

(* A message that can be read is a sequence of entries.                      *)
LEMMA Readable ==
  /\ \A m \in Payloads("hello") : m \in Seq(Nodes) /\ m # Unreadable
  /\ \A s \in Streams : \A m \in Payloads(s) : m # Unreadable => m \in Seq(Entries)
  <1>1. \A n \in Nodes : <<n>> \in Seq(Nodes) /\ <<n>> \in Seq(Entries)
    BY DEF Entries
  <1>2. ASSUME NEW a \in Arrays PROVE a \in Seq(Entries)
    <2>1. a \in Seq({a[i] : i \in DOMAIN a})
      BY ArraysAssumption
    <2>2. {a[i] : i \in DOMAIN a} \subseteq Entries
      BY DEF Entries
    <2>3. a \in [1 .. Len(a) -> Entries] /\ Len(a) \in Nat
      BY <2>1, <2>2
    <2>4. QED
      BY <2>3
  <1>3. QED
    BY <1>1, <1>2, ArraysAssumption DEF Payloads, Streams

(* The pipeline keeps its types.                                             *)
LEMMA PipelineStep == TypeOK /\ [Next]_vars => PipelineOK'
  <1> SUFFICES ASSUME TypeOK, [Next]_vars PROVE PipelineOK'
    OBVIOUS
  <1> USE DEF TypeOK, PipelineOK
  <1>1. CASE UNCHANGED pipeVars
    BY <1>1
  <1>2. ASSUME NEW s \in Streams, NEW m \in Payloads(s), Publish(s, m) PROVE PipelineOK'
    <2>1. m \in Messages
      BY DEF Messages, Streams
    <2>2. \/ UNCHANGED inbox
          \/ inbox' = [inbox EXCEPT ![s] = Append(@, m)]
      BY <1>2 DEF Publish
    <2>3. UNCHANGED <<cb, drain, batch, wire, journal, handed, chan>>
      BY <1>2 DEF Publish
    <2>4. CASE UNCHANGED inbox
      BY <2>3, <2>4
    <2>5. CASE inbox' = [inbox EXCEPT ![s] = Append(@, m)]
      <3>1. Append(inbox[s], m) \in Seq(Messages) /\ Append(inbox[s], m) \in Seq(Payloads(s))
        BY <2>1
      <3>2. QED
        BY <2>3, <2>5, <3>1
    <2>6. QED
      BY <2>2, <2>4, <2>5
  <1>3. ASSUME NEW s \in Streams, Open(s) PROVE PipelineOK'
    BY <1>3 DEF Open, Streams
  <1>4. ASSUME NEW s \in Streams, Route(s) PROVE PipelineOK'
    <2>1. Head(inbox[s]) \in Payloads(s) /\ Tail(inbox[s]) \in Seq(Payloads(s))
      BY <1>4 DEF Route
    <2>2. Head(inbox[s]) # Unreadable => Head(inbox[s]) \in Seq(Entries)
      BY <2>1, Readable
    <2>3. Head(inbox[s]) \in Messages /\ Tail(inbox[s]) \in Seq(Messages)
      BY <1>4, <2>1 DEF Route, Messages, Streams
    <2>4. handed' \in [Streams -> Seq(Entries)]
      BY <1>4, <2>2 DEF Route
    <2>5. /\ cb' = [cb EXCEPT ![s] = Head(inbox[s])] /\ inbox' = [inbox EXCEPT ![s] = Tail(@)]
          /\ UNCHANGED <<drain, batch, wire, journal, chan>>
      BY <1>4 DEF Route
    <2>6. QED
      BY <2>1, <2>3, <2>4, <2>5
  <1>5. CASE Push
    <2>1. cb["log"] \in Payloads("log")
      BY <1>5 DEF Push, Streams
    <2>2. chan' \in Seq(Payloads("log")) /\ Len(chan') <= LogCap
      BY <1>5, <2>1, ServerBounds DEF Push
    <2>3. QED
      BY <1>5, <2>2 DEF Push
  <1>6. CASE TakeHello
    <2>1. cb["hello"] \in Seq(Nodes) /\ cb["hello"] \in Seq(Entries)
      BY <1>6, Readable DEF TakeHello, Streams
    <2>2. QED
      BY <1>6, <2>1 DEF TakeHello, Streams
  <1>7. CASE TakeLog
    <2>1. Head(chan) \in Payloads("log") /\ Tail(chan) \in Seq(Payloads("log"))
          /\ Len(Tail(chan)) <= LogCap
      BY <1>7, ServerBounds DEF TakeLog
    <2>2. Head(chan) # Unreadable => Head(chan) \in Seq(Entries)
      BY <2>1, Readable DEF Streams
    <2>3. QED
      BY <1>7, <2>1, <2>2 DEF TakeLog, Streams
  <1>8. ASSUME NEW s \in Streams, Send(s) PROVE PipelineOK'
    <2>1. batch[s] # <<>> => Head(batch[s]) \in Entries /\ Tail(batch[s]) \in Seq(Entries)
      OBVIOUS
    <2>2. s = "hello" /\ batch[s] # <<>> => Head(batch[s]) \in Nodes /\ Tail(batch[s]) \in Seq(Nodes)
      OBVIOUS
    <2>3. CASE batch[s] = <<>> \/ ~up[s]
      BY <1>8, <2>3 DEF Send
    <2>4. CASE batch[s] # <<>> /\ up[s]
      <3>1. wire' = [wire EXCEPT ![s] = Append(@, Head(batch[s]))]
            /\ batch' = [batch EXCEPT ![s] = Tail(@)]
        BY <1>8, <2>4 DEF Send
      <3>2. wire' \in [Streams -> Seq(Entries)] /\ batch' \in [Streams -> Seq(Entries)]
        BY <3>1, <2>1, <2>4
      <3>3. wire'["hello"] \in Seq(Nodes) /\ batch'["hello"] \in Seq(Nodes)
        BY <3>1, <2>2, <2>4 DEF Streams
      <3>4. QED
        BY <1>8, <2>4, <3>2, <3>3 DEF Send
    <2>5. QED
      BY <1>8, <2>3, <2>4 DEF Send
  <1>9. ASSUME NEW s \in Streams, Close(s) PROVE PipelineOK'
    BY <1>9 DEF Close, Streams
  <1>10. CASE ReceiveHello
    <2>1. wire["hello"] # <<>> /\ journal' = [journal EXCEPT !["hello"] = Append(@, Head(wire["hello"]))]
          /\ wire' = [wire EXCEPT !["hello"] = Tail(@)]
          /\ UNCHANGED <<inbox, cb, drain, batch, handed, chan>>
      BY <1>10 DEF ReceiveHello
    <2>2. Head(wire["hello"]) \in Entries /\ Tail(wire["hello"]) \in Seq(Entries)
          /\ Tail(wire["hello"]) \in Seq(Nodes)
      BY <2>1 DEF Streams
    <2>3. journal' \in [Streams -> Seq(Entries)]
      BY <2>1, <2>2 DEF Streams
    <2>4. wire' \in [Streams -> Seq(Entries)] /\ wire'["hello"] \in Seq(Nodes)
      BY <2>1, <2>2 DEF Streams
    <2>5. QED
      BY <2>1, <2>3, <2>4
  <1>11. CASE ReceiveLog
    <2>1. wire["log"] # <<>> /\ journal' = [journal EXCEPT !["log"] = Append(@, Head(wire["log"]))]
          /\ wire' = [wire EXCEPT !["log"] = Tail(@)]
          /\ UNCHANGED <<inbox, cb, drain, batch, handed, chan>>
      BY <1>11 DEF ReceiveLog
    <2>2. Head(wire["log"]) \in Entries /\ Tail(wire["log"]) \in Seq(Entries)
      BY <2>1 DEF Streams
    <2>3. journal' \in [Streams -> Seq(Entries)]
      BY <2>1, <2>2 DEF Streams
    <2>4. wire' \in [Streams -> Seq(Entries)] /\ wire'["hello"] = wire["hello"]
      BY <2>1, <2>2 DEF Streams
    <2>5. QED
      BY <2>1, <2>3, <2>4
  <1>12. ASSUME NEW s \in Streams, Break(s) PROVE PipelineOK'
    BY <1>12 DEF Break, Streams
  <1>13. QED
    BY <1>1, <1>2, <1>3, <1>4, <1>5, <1>6, <1>7, <1>8, <1>9, <1>10, <1>11, <1>12
    DEF Next, Start, Stop, Pipeline, Channels, StartEST, OpenDatabase, StartBroker, Listen,
        Signal, GracefulStop, CancelBroker, CloseBroker, Exit, ESTFails, BrokerListens, BrokerFails,
        SessionLost, OpenFails, Dial, ServiceEnds

(* So do the process, the services and the handlers.                         *)
LEMMA ProcessStep == TypeOK /\ [Next]_vars => ProcessOK'
  <1> SUFFICES ASSUME TypeOK, [Next]_vars PROVE ProcessOK'
    OBVIOUS
  <1> USE DEF TypeOK, ProcessOK
  <1>1. CASE Start \/ Stop \/ Signal
    <2>1. CASE StartEST \/ OpenDatabase \/ StartBroker \/ Signal
      BY <2>1 DEF StartEST, OpenDatabase, StartBroker, Signal
    <2>2. CASE Listen
      BY <2>2 DEF Listen
    <2>3. CASE GracefulStop \/ CancelBroker
      BY <2>3 DEF GracefulStop, CancelBroker
    <2>4. CASE Exit
      BY <2>4 DEF Exit
    <2>5. QED
      BY <1>1, <2>1, <2>2, <2>3, <2>4 DEF Start, Stop
  <1>0. ASSUME NEW f, Fault(f) PROVE trouble' \in 0 .. MaxTrouble
    BY <1>0, ServerBounds DEF Fault
  <1>2. CASE ESTFails \/ BrokerListens \/ BrokerFails \/ CloseBroker
    <2>1. CASE ESTFails
      BY <2>1, <1>0 DEF ESTFails
    <2>2. CASE BrokerListens
      BY <2>2 DEF BrokerListens
    <2>3. CASE BrokerFails
      BY <2>3, <1>0 DEF BrokerFails
    <2>4. CASE CloseBroker
      BY <2>4 DEF CloseBroker
    <2>5. QED
      BY <1>2, <2>1, <2>2, <2>3, <2>4
  <1>3. ASSUME NEW s \in Streams, Pipeline(s) PROVE ProcessOK'
    <2>1. CASE Dial(s)
      BY <2>1 DEF Dial
    <2>2. CASE Open(s)
      BY <2>2 DEF Open
    <2>3. CASE OpenFails(s)
      BY <2>3 DEF OpenFails
    <2>4. CASE Close(s)
      BY <2>4 DEF Close
    <2>5. CASE ServiceEnds(s)
      BY <2>5 DEF ServiceEnds
    <2>6. CASE Route(s) \/ Send(s)
      <3>1. UNCHANGED <<procVars, lastSeen, svc, hand, up, sub, published, trouble>>
        BY <2>6 DEF Route, Send
      <3>2. QED
        BY <3>1
    <2>7. QED
      BY <1>3, <2>1, <2>2, <2>3, <2>4, <2>5, <2>6 DEF Pipeline
  <1>4. ASSUME NEW s \in Streams, SessionLost(s) \/ Break(s) PROVE ProcessOK'
    <2>1. CASE SessionLost(s)
      BY <2>1, <1>0 DEF SessionLost
    <2>2. CASE Break(s)
      BY <2>2, <1>0 DEF Break
    <2>3. QED
      BY <1>4, <2>1, <2>2
  <1>5. ASSUME NEW s \in Streams, NEW m \in Payloads(s), Publish(s, m) PROVE ProcessOK'
    BY <1>5, ServerBounds DEF Publish, Streams
  <1>6. CASE Push \/ TakeHello \/ TakeLog \/ ReceiveLog
    BY <1>6 DEF Push, TakeHello, TakeLog, ReceiveLog
  <1>7. CASE ReceiveHello
    <2>1. Head(wire["hello"]) \in Nodes
      BY <1>7 DEF ReceiveHello, PipelineOK
    <2>2. QED
      BY <1>7, <2>1, ServerBounds DEF ReceiveHello, Fault
  <1>8. QED
    BY <1>1, <1>2, <1>3, <1>4, <1>5, <1>6, <1>7 DEF Next, Channels

(* Both hold when the process starts.                                        *)
LEMMA TypeInit == Init => TypeOK
  <1> SUFFICES ASSUME Init PROVE TypeOK
    OBVIOUS
  <1>1. ProcessOK
    <2>1. published \in [Streams -> Nat] /\ \A s \in Streams : published[s] <= MaxPublished[s]
      BY ServerBounds DEF Init
    <2>2. trouble \in 0 .. MaxTrouble
      BY ServerBounds DEF Init
    <2>3. QED
      BY <2>1, <2>2 DEF Init, ProcessOK
  <1>2. PipelineOK
    BY ServerBounds DEF Init, PipelineOK, Streams
  <1>3. QED
    BY <1>1, <1>2 DEF TypeOK

(* Types of every variable; the channel of Log never exceeds its capacity,   *)
(* whatever nodes publish and whatever breaks.                               *)
THEOREM ServerTypes == Spec => []TypeOK
  <1>1. TypeOK /\ [Next]_vars => TypeOK'
    BY ProcessStep, PipelineStep DEF TypeOK
  <1>2. QED
    BY TypeInit, <1>1, PTL DEF Spec

(* What Serve knows when it goes down: no handler is left when it cancels     *)
(* broker_ctx, which it does before the EST server is shut down; only then   *)
(* may the broker's goroutine close the broker.                              *)
HandlersGone == \A s \in Streams : hand[s] \in {"none", "returned"}
ShutdownInv ==
  /\ main \in {"stopped", "est", "exited"} => HandlersGone
  /\ cancelled => HandlersGone /\ main \in {"est", "exited", "dead"}
  /\ main \in {"est", "exited"} => cancelled
  /\ broker = "closed" => cancelled
  /\ est = "shut" => main = "exited"

(* Once Serve has stopped, nothing starts a handler again.                   *)
LEMMA ShutdownStep == TypeOK /\ ShutdownInv /\ [Next]_vars => ShutdownInv'
  <1> SUFFICES ASSUME TypeOK, ShutdownInv, [Next]_vars PROVE ShutdownInv'
    OBVIOUS
  <1> USE DEF ShutdownInv, HandlersGone
  <1>1. hand \in [Streams -> {"none", "connecting", "waiting", "returned"}]
    BY DEF TypeOK, ProcessOK
  <1>2. CASE UNCHANGED <<main, est, broker, cancelled, hand>>
    BY <1>2
  <1>3. CASE Start \/ Signal
    BY <1>3 DEF Start, StartEST, OpenDatabase, StartBroker, Listen, Signal
  <1>4. CASE Stop
    BY <1>4 DEF Stop, GracefulStop, CancelBroker, Exit
  <1>5. CASE ESTFails \/ BrokerListens \/ BrokerFails \/ CloseBroker
    BY <1>5 DEF ESTFails, BrokerListens, BrokerFails, CloseBroker, Alive, Over
  <1>6. ASSUME NEW s \in Streams, Dial(s) PROVE ShutdownInv'
    BY <1>1, <1>6 DEF Dial
  <1>7. ASSUME NEW s \in Streams, Open(s) \/ OpenFails(s) \/ Close(s) PROVE ShutdownInv'
    BY <1>1, <1>7 DEF Open, OpenFails, Close
  <1>8. CASE ReceiveHello
    BY <1>8 DEF ReceiveHello, Alive, Over
  <1>9. QED
    BY <1>2, <1>3, <1>4, <1>5, <1>6, <1>7, <1>8
    DEF Next, Pipeline, Channels, Publish, Route, Push, TakeHello, TakeLog, Send,
        ReceiveLog, Break, ServiceEnds, SessionLost

(* Whenever the broker is closed or the EST server is shut, no handler is    *)
(* left, and broker_ctx was cancelled; when, and whether, the broker closes  *)
(* after that is left to its goroutine.                                      *)
THEOREM StopsInOrder == Spec => []StopInOrder
  <1>1. Init => ShutdownInv
    BY DEF Init, ShutdownInv, HandlersGone
  <1>2. ShutdownInv => StopInOrder
    BY DEF ShutdownInv, HandlersGone, StopInOrder
  <1>3. QED
    BY <1>1, <1>2, ShutdownStep, ServerTypes, PTL DEF Spec

(* Neither the database nor the broker ends the hello service; and a server  *)
(* at work dies only if its database was never set up.                       *)
THEOREM HelloServiceSurvives == Spec => HelloSurvives
  <1> DEFINE Ends == svc["hello"] = "receiving" /\ svc'["hello"] = "ended"
             Dies == main \in {"serving", "stopping"} /\ main' = "dead"
  <1>1. TypeOK /\ [Next]_vars => [(Ends => ~up["hello"] \/ main' = "exited") /\ (Dies => ~db)]_vars
    <2> SUFFICES ASSUME TypeOK, Next
                 PROVE (Ends => ~up["hello"] \/ main' = "exited") /\ (Dies => ~db)
      OBVIOUS
    <2>1. svc \in [Streams -> {"off", "dialing", "receiving", "ended"}]
      BY DEF TypeOK, ProcessOK
    <2>2. CASE UNCHANGED <<main, svc>>
      BY <2>2
    <2>3. CASE Start \/ Stop \/ Signal
      BY <2>1, <2>3 DEF Start, StartEST, OpenDatabase, StartBroker, Listen, Signal, Stop,
         GracefulStop, CancelBroker, Exit, Streams
    <2>4. ASSUME NEW s \in Streams, Dial(s) \/ ServiceEnds(s)
          PROVE (Ends => ~up["hello"]) /\ ~Dies
      BY <2>1, <2>4 DEF Dial, ServiceEnds, Streams
    <2>5. CASE ReceiveHello
      BY <2>5 DEF ReceiveHello
    <2>6. QED
      BY <2>2, <2>3, <2>4, <2>5
      DEF Next, Pipeline, Channels, Publish, Route, Push, TakeHello, TakeLog, Send,
          ReceiveLog, Break, SessionLost, Open, OpenFails, Close, ESTFails,
          BrokerListens, BrokerFails, CloseBroker
  <1>2. QED
    BY <1>1, ServerTypes, PTL DEF Spec, HelloSurvives

---------------------------------------------------------------------------
(* The order of the entries.  Where a message that is on its way lies in     *)
(* what the callback was handed is a matter of offsets: p gives the offset   *)
(* of each message on the channel, and, last, that of the callback's.        *)

Message == Seq(Entries) \cup {Unreadable, Nothing}

(* How many entries a message has, and that they are those of h that follow  *)
(* the first o.                                                              *)
Width(m) == IF m \in {Unreadable, Nothing} THEN 0 ELSE Len(m)
Lies(m, o, h) ==
  m \notin {Unreadable, Nothing} =>
    o + Len(m) <= Len(h) /\ \A k \in 1 .. Len(m) : h[o + k] = m[k]

(* What was sent, the messages on the channel q and the callback's message m *)
(* make up h, in this order.                                                 *)
Offsets(p, sent, q, m, h) ==
  /\ p \in [1 .. Len(q) + 1 -> 0 .. Len(h)]
  /\ p[1] = Len(sent) /\ IsPrefixOf(sent, h)
  /\ \A i \in 1 .. Len(q) : p[i + 1] = p[i] + Width(q[i]) /\ Lies(q[i], p[i], h)
  /\ p[Len(q) + 1] + Width(m) = Len(h) /\ Lies(m, p[Len(q) + 1], h)
InFlight(sent, q, m, h) == \E p : Offsets(p, sent, q, m, h)

(* What lies in h still does when more is handed to the callback.            *)
LEMMA LiesStill ==
  ASSUME NEW m \in Message, NEW o \in Nat, NEW h \in Seq(Entries),
         NEW x \in Seq(Entries), Lies(m, o, h)
  PROVE  Lies(m, o, h \o x)
  <1>1. Len(h \o x) = Len(h) + Len(x) /\ Len(x) \in Nat /\ Len(h) \in Nat
    OBVIOUS
  <1>2. \A i \in 1 .. Len(h) : (h \o x)[i] = h[i]
    OBVIOUS
  <1>3. QED
    <2> SUFFICES ASSUME m \notin {Unreadable, Nothing}
                 PROVE  o + Len(m) <= Len(h \o x) /\ \A k \in 1 .. Len(m) : (h \o x)[o + k] = m[k]
      BY DEF Lies
    <2>1. m \in Seq(Entries) /\ Len(m) \in Nat
      BY DEF Message
    <2>2. o + Len(m) <= Len(h) /\ \A k \in 1 .. Len(m) : h[o + k] = m[k]
      BY DEF Lies
    <2> QED
      BY <1>1, <1>2, <2>1, <2>2

(* The router hands the callback its next message.                           *)
LEMMA MessageEnters ==
  ASSUME NEW sent \in Seq(Entries), NEW q \in Seq(Message), NEW h \in Seq(Entries),
         NEW m \in Seq(Entries), m \notin {Unreadable, Nothing},
         InFlight(sent, q, Nothing, h)
  PROVE  InFlight(sent, q, m, h \o m)
  <1>1. PICK p : Offsets(p, sent, q, Nothing, h)
    BY DEF InFlight
  <1>2. /\ Len(h \o m) = Len(h) + Len(m) /\ Len(h) \in Nat /\ Len(m) \in Nat
        /\ Len(q) \in Nat /\ Len(sent) \in Nat
    OBVIOUS
  <1>3. \A i \in 1 .. Len(h) : (h \o m)[i] = h[i]
    OBVIOUS
  <1>4. \A k \in 1 .. Len(m) : (h \o m)[Len(h) + k] = m[k]
    OBVIOUS
  <1>5. p \in [1 .. Len(q) + 1 -> 0 .. Len(h)]
    BY <1>1 DEF Offsets
  <1>6. p \in [1 .. Len(q) + 1 -> 0 .. Len(h \o m)]
    BY <1>2, <1>5
  <1>7. p[1] = Len(sent) /\ IsPrefixOf(sent, h \o m)
    BY <1>1, <1>2, <1>3 DEF Offsets, IsPrefixOf
  <1>8. \A i \in 1 .. Len(q) : p[i + 1] = p[i] + Width(q[i]) /\ Lies(q[i], p[i], h \o m)
    <2> TAKE i \in 1 .. Len(q)
    <2>1. i \in 1 .. Len(q) + 1 /\ q[i] \in Message
      BY <1>2
    <2>2. p[i] \in Nat
      BY <1>2, <1>5, <2>1
    <2>3. p[i + 1] = p[i] + Width(q[i]) /\ Lies(q[i], p[i], h)
      BY <1>1 DEF Offsets
    <2> QED
      BY <2>1, <2>2, <2>3, LiesStill
  <1>9. p[Len(q) + 1] = Len(h)
    <2>1. p[Len(q) + 1] + 0 = Len(h)
      BY <1>1 DEF Offsets, Width
    <2> QED
      BY <1>2, <1>5, <2>1
  <1>10. p[Len(q) + 1] + Width(m) = Len(h \o m) /\ Lies(m, p[Len(q) + 1], h \o m)
    BY <1>2, <1>4, <1>9 DEF Width, Lies
  <1>11. QED
    BY <1>6, <1>7, <1>8, <1>10 DEF InFlight, Offsets

(* A payload that is no array has no entries.                                *)
LEMMA NothingEnters ==
  ASSUME NEW sent, NEW q, NEW h, InFlight(sent, q, Nothing, h)
  PROVE  InFlight(sent, q, Unreadable, h)
  <1>1. PICK p : Offsets(p, sent, q, Nothing, h)
    BY DEF InFlight
  <1>2. \A i : Width(Unreadable) = Width(Nothing) /\ Lies(Unreadable, i, h)
    BY DEF Width, Lies
  <1>3. Offsets(p, sent, q, Unreadable, h)
    BY <1>1, <1>2 DEF Offsets
  <1>4. QED
    BY <1>3 DEF InFlight

(* The callback puts its message on the channel.                             *)
LEMMA MessageQueues ==
  ASSUME NEW sent \in Seq(Entries), NEW q \in Seq(Message), NEW h \in Seq(Entries),
         NEW m \in Message, m # Nothing, InFlight(sent, q, m, h)
  PROVE  InFlight(sent, Append(q, m), Nothing, h)
  <1>1. PICK p : Offsets(p, sent, q, m, h)
    BY DEF InFlight
  <1> DEFINE n == Len(q)
             r == [i \in 1 .. n + 2 |-> IF i = n + 2 THEN Len(h) ELSE p[i]]
             Q == Append(q, m)
  <1>2. n \in Nat /\ Len(Q) = n + 1 /\ Len(h) \in Nat
    OBVIOUS
  <1>3. \A i \in 1 .. n + 1 : Q[i] = IF i = n + 1 THEN m ELSE q[i]
    OBVIOUS
  <1>4. /\ p \in [1 .. n + 1 -> 0 .. Len(h)]
        /\ p[1] = Len(sent) /\ IsPrefixOf(sent, h)
        /\ \A i \in 1 .. n : p[i + 1] = p[i] + Width(q[i]) /\ Lies(q[i], p[i], h)
        /\ p[n + 1] + Width(m) = Len(h) /\ Lies(m, p[n + 1], h)
    BY <1>1 DEF Offsets
  <1> HIDE DEF n, Q
  <1>5. /\ r \in [1 .. Len(Q) + 1 -> 0 .. Len(h)]
        /\ r[1] = p[1] /\ r[n + 2] = Len(h) /\ \A i \in 1 .. n + 1 : r[i] = p[i]
    BY <1>2, <1>4
  <1> HIDE DEF r
  <1>6. ASSUME NEW i \in 1 .. Len(Q)
        PROVE  r[i + 1] = r[i] + Width(Q[i]) /\ Lies(Q[i], r[i], h)
    <2>0. i \in 1 .. n + 1
      BY <1>2
    <2>1. CASE i = n + 1
      <3>1. Q[i] = m /\ r[i] = p[n + 1] /\ r[i + 1] = Len(h)
        BY <1>2, <1>3, <1>5, <2>1
      <3> QED
        BY <1>4, <3>1
    <2>2. CASE i # n + 1
      <3>1. i \in 1 .. n /\ i + 1 \in 1 .. n + 1
        BY <1>2, <2>0, <2>2
      <3>2. Q[i] = q[i]
        BY <1>3, <2>0, <2>2
      <3>3. r[i] = p[i] /\ r[i + 1] = p[i + 1]
        BY <1>5, <2>0, <3>1
      <3>4. p[i + 1] = p[i] + Width(q[i]) /\ Lies(q[i], p[i], h)
        BY <1>4, <3>1
      <3> QED
        BY <3>2, <3>3, <3>4
    <2> QED
      BY <2>1, <2>2
  <1>7. r[Len(Q) + 1] + Width(Nothing) = Len(h) /\ Lies(Nothing, r[Len(Q) + 1], h)
    BY <1>2, <1>5 DEF Width, Lies
  <1>8. Offsets(r, sent, Q, Nothing, h)
    BY <1>4, <1>5, <1>6, <1>7 DEF Offsets
  <1>9. QED
    BY <1>8 DEF InFlight, Q

(* What follows what was sent, up to an offset, is sent next.                *)
LEMMA PrefixGrows ==
  ASSUME NEW sent \in Seq(Entries), NEW m \in Seq(Entries), NEW h \in Seq(Entries),
         m \notin {Unreadable, Nothing}, IsPrefixOf(sent, h), Lies(m, Len(sent), h)
  PROVE  IsPrefixOf(sent \o m, h) /\ Len(sent \o m) = Len(sent) + Width(m)
  <1>1. Len(sent \o m) = Len(sent) + Len(m) /\ Len(sent) \in Nat /\ Len(m) \in Nat
    OBVIOUS
  <1>2. \A i \in 1 .. Len(sent) + Len(m) :
          (sent \o m)[i] = IF i <= Len(sent) THEN sent[i] ELSE m[i - Len(sent)]
    OBVIOUS
  <1>3. ASSUME NEW i \in 1 .. Len(sent \o m) PROVE (sent \o m)[i] = h[i]
    <2>1. CASE i <= Len(sent)
      BY <1>1, <1>2, <2>1 DEF IsPrefixOf
    <2>2. CASE ~(i <= Len(sent))
      <3> DEFINE k == i - Len(sent)
      <3>1. k \in 1 .. Len(m) /\ Len(sent) + k = i
        BY <1>1, <2>2
      <3>2. h[Len(sent) + k] = m[k]
        BY <3>1 DEF Lies
      <3> QED
        BY <1>1, <1>2, <2>2, <3>1, <3>2
    <2> QED
      BY <2>1, <2>2
  <1>4. QED
    BY <1>1, <1>3 DEF IsPrefixOf, Lies, Width

(* The goroutine takes the first message from the channel.                   *)
LEMMA FirstIsTaken ==
  ASSUME NEW sent \in Seq(Entries), NEW q \in Seq(Message), NEW h \in Seq(Entries),
         NEW m \in Message, q # <<>>, Head(q) # Nothing, InFlight(sent, q, m, h)
  PROVE  /\ Head(q) = Unreadable => InFlight(sent, Tail(q), m, h)
         /\ Head(q) # Unreadable => InFlight(sent \o Head(q), Tail(q), m, h)
  <1>1. PICK p : Offsets(p, sent, q, m, h)
    BY DEF InFlight
  <1> DEFINE n == Len(q)
             r == [i \in 1 .. n |-> p[i + 1]]
             Q == Tail(q)
  <1>2. n \in Nat \ {0} /\ Len(Q) = n - 1 /\ \A i \in 1 .. n - 1 : Q[i] = q[i + 1]
    OBVIOUS
  <1>3. Head(q) = q[1] /\ q[1] \in Message
    OBVIOUS
  <1>4. /\ p \in [1 .. n + 1 -> 0 .. Len(h)]
        /\ p[1] = Len(sent) /\ IsPrefixOf(sent, h)
        /\ \A i \in 1 .. n : p[i + 1] = p[i] + Width(q[i]) /\ Lies(q[i], p[i], h)
        /\ p[n + 1] + Width(m) = Len(h) /\ Lies(m, p[n + 1], h)
    BY <1>1 DEF Offsets
  <1> HIDE DEF n, Q
  <1>5. r \in [1 .. Len(Q) + 1 -> 0 .. Len(h)] /\ \A i \in 1 .. n : r[i] = p[i + 1]
    BY <1>2, <1>4
  <1> HIDE DEF r
  <1>6. ASSUME NEW i \in 1 .. Len(Q)
        PROVE  r[i + 1] = r[i] + Width(Q[i]) /\ Lies(Q[i], r[i], h)
    <2>1. i + 1 \in 1 .. n /\ i \in 1 .. n /\ Q[i] = q[i + 1]
      BY <1>2
    <2>2. r[i] = p[i + 1] /\ r[i + 1] = p[(i + 1) + 1]
      BY <1>5, <2>1
    <2> QED
      BY <1>4, <2>1, <2>2
  <1>7. r[Len(Q) + 1] = p[n + 1] /\ r[1] = p[2]
    BY <1>2, <1>5
  <1>8. p[2] = Len(sent) + Width(Head(q)) /\ Lies(Head(q), Len(sent), h)
    <2>1. 1 \in 1 .. n
      BY <1>2
    <2> QED
      BY <1>3, <1>4, <2>1
  <1>9. ASSUME Head(q) = Unreadable PROVE InFlight(sent, Q, m, h)
    <2>1. p[2] = Len(sent)
      BY <1>8, <1>9 DEF Width
    <2>2. Offsets(r, sent, Q, m, h)
      BY <1>4, <1>5, <1>6, <1>7, <2>1 DEF Offsets
    <2> QED
      BY <2>2 DEF InFlight
  <1>10. ASSUME Head(q) # Unreadable PROVE InFlight(sent \o Head(q), Q, m, h)
    <2>1. Head(q) \in Seq(Entries) /\ Head(q) \notin {Unreadable, Nothing}
      BY <1>3, <1>10 DEF Message
    <2>2. IsPrefixOf(sent \o Head(q), h) /\ Len(sent \o Head(q)) = p[2]
      BY <1>4, <1>8, <2>1, PrefixGrows
    <2>3. Offsets(r, sent \o Head(q), Q, m, h)
      BY <1>4, <1>5, <1>6, <1>7, <2>2 DEF Offsets
    <2> QED
      BY <2>3 DEF InFlight
  <1>11. QED
    BY <1>9, <1>10 DEF Q

(* The goroutine takes the callback's own message from it.                   *)
LEMMA MessageIsMet ==
  ASSUME NEW sent \in Seq(Entries), NEW h \in Seq(Entries), NEW m \in Seq(Entries),
         m \notin {Unreadable, Nothing}, InFlight(sent, <<>>, m, h)
  PROVE  InFlight(sent \o m, <<>>, Nothing, h)
  <1>1. PICK p : Offsets(p, sent, <<>>, m, h)
    BY DEF InFlight
  <1>2. Len(<<>>) = 0
    OBVIOUS
  <1>3. /\ p[1] = Len(sent) /\ IsPrefixOf(sent, h)
        /\ p[1] + Width(m) = Len(h) /\ Lies(m, p[1], h)
    BY <1>1, <1>2 DEF Offsets
  <1>4. IsPrefixOf(sent \o m, h) /\ Len(sent \o m) = Len(h)
    BY <1>3, PrefixGrows
  <1> DEFINE r == [i \in 1 .. 1 |-> Len(h)]
  <1>5. r \in [1 .. 0 + 1 -> 0 .. Len(h)] /\ r[1] = Len(h) /\ Len(h) + 0 = Len(h)
    OBVIOUS
  <1> HIDE DEF r
  <1>6. Offsets(r, sent \o m, <<>>, Nothing, h)
    BY <1>2, <1>4, <1>5 DEF Offsets, Width, Lies
  <1>7. QED
    BY <1>6 DEF InFlight

(* What is on its way on stream s, and what has come to be.                  *)
Queue(s) == IF s = "log" THEN chan ELSE <<>>
Sent(s) == journal[s] \o wire[s] \o batch[s]

(* A service that has not called its handler yet has an empty pipeline.      *)
Unused(s) ==
  /\ hand[s] = "none" /\ up[s] = FALSE /\ sub[s] = FALSE /\ cb[s] = Nothing
  /\ inbox[s] = <<>> /\ Queue(s) = <<>> /\ batch[s] = <<>> /\ wire[s] = <<>>
  /\ journal[s] = <<>> /\ handed[s] = <<>>
UnusedInv ==
  /\ main \in {"start", "database", "broker", "listen"} => \A s \in Streams : svc[s] = "off"
  /\ \A s \in Streams : svc[s] \in {"off", "dialing"} => Unused(s)

(* A goroutine that has nothing to send holds nothing.                       *)
IdleInv ==
  \A s \in Streams :
    /\ hand[s] \in {"none", "connecting"} => drain[s] = "off" /\ wire[s] = <<>>
    /\ drain[s] \in {"off", "idle"} => batch[s] = <<>>

(* While the stream is up, what the callback was handed is what was received *)
(* and what is on its way.  When it breaks, what was received stays a prefix.*)
Ordered(s) ==
  /\ up[s] => InFlight(Sent(s), Queue(s), cb[s], handed[s])
  /\ ~up[s] => wire[s] = <<>> /\ IsPrefixOf(journal[s], handed[s])
OrderInv == \A s \in Streams : Ordered(s)

(* Only a service that dials makes use of a pipeline.                        *)
LEMMA UnusedStep == TypeOK /\ UnusedInv /\ [Next]_vars => UnusedInv'
  <1> SUFFICES ASSUME TypeOK, UnusedInv, [Next]_vars PROVE UnusedInv'
    OBVIOUS
  <1>0. /\ svc \in [Streams -> {"off", "dialing", "receiving", "ended"}]
        /\ hand \in [Streams -> {"none", "connecting", "waiting", "returned"}]
        /\ up \in [Streams -> BOOLEAN] /\ sub \in [Streams -> BOOLEAN]
        /\ \A f \in {inbox, cb, batch, wire, journal, handed} : DOMAIN f = Streams
    BY DEF TypeOK, ProcessOK, PipelineOK
  <1> USE <1>0 DEF UnusedInv, Unused, Queue
  <1>1. CASE UNCHANGED vars
    BY <1>1
  <1>2. CASE StartEST \/ OpenDatabase \/ StartBroker \/ Signal
    <2>1. UNCHANGED <<svc, hand, up, sub, pipeVars>>
      BY <1>2 DEF StartEST, OpenDatabase, StartBroker, Signal
    <2>2. main' \in {"database", "broker", "listen"} => main \in {"start", "database", "broker"}
      BY <1>2 DEF StartEST, OpenDatabase, StartBroker, Signal
    <2>3. main' # "start"
      BY <1>2 DEF StartEST, OpenDatabase, StartBroker, Signal
    <2> QED
      BY <2>1, <2>2, <2>3
  <1>3. CASE Listen
    <2>1. UNCHANGED <<hand, up, sub, pipeVars>> /\ main' \in {"serving", "dead"}
      BY <1>3 DEF Listen
    <2>2. \A s \in Streams : svc[s] = "off"
      BY <1>3 DEF Listen
    <2> QED
      BY <2>1, <2>2
  <1>4. CASE GracefulStop \/ CancelBroker
    BY <1>4 DEF GracefulStop, CancelBroker
  <1>5. CASE Exit
    BY <1>5 DEF Exit
  <1>6. CASE ESTFails \/ BrokerListens \/ BrokerFails \/ CloseBroker
    <2>1. CASE ESTFails
      BY <2>1 DEF ESTFails
    <2>2. CASE BrokerListens
      BY <2>2 DEF BrokerListens
    <2>3. CASE BrokerFails
      BY <2>3 DEF BrokerFails
    <2>4. CASE CloseBroker
      BY <2>4 DEF CloseBroker
    <2> QED
      BY <1>6, <2>1, <2>2, <2>3, <2>4
  <1>7. ASSUME NEW s \in Streams, Dial(s) PROVE UnusedInv'
    BY <1>7 DEF Dial
  <1>8. ASSUME NEW s \in Streams, Open(s) PROVE UnusedInv'
    BY <1>8 DEF Open
  <1>9. ASSUME NEW s \in Streams, OpenFails(s) PROVE UnusedInv'
    BY <1>9 DEF OpenFails
  <1>10. ASSUME NEW s \in Streams, Route(s) PROVE UnusedInv'
    BY <1>10 DEF Route
  <1>11. ASSUME NEW s \in Streams, Send(s) PROVE UnusedInv'
    <2>1. CASE batch[s] = <<>> \/ ~up[s]
      BY <1>11, <2>1 DEF Send
    <2>2. CASE batch[s] # <<>>
      BY <1>11, <2>2 DEF Send
    <2> QED
      BY <2>1, <2>2
  <1>12. ASSUME NEW s \in Streams, Close(s) \/ ServiceEnds(s) \/ SessionLost(s) PROVE UnusedInv'
    BY <1>12 DEF Close, ServiceEnds, SessionLost
  <1>13. ASSUME NEW s \in Streams, Break(s) PROVE UnusedInv'
    BY <1>13 DEF Break
  <1>14. ASSUME NEW s \in Streams, NEW m \in Payloads(s), Publish(s, m) PROVE UnusedInv'
    BY <1>14 DEF Publish
  <1>15. CASE Push
    BY <1>15 DEF Push, Streams
  <1>16. CASE TakeHello
    BY <1>16 DEF TakeHello, Streams
  <1>17. CASE TakeLog
    <2>1. svc["log"] \notin {"off", "dialing"}
      BY <1>17 DEF TakeLog, Streams
    <2> QED
      BY <1>17, <2>1 DEF TakeLog, Streams
  <1>18. CASE ReceiveHello
    BY <1>18 DEF ReceiveHello, Streams
  <1>19. CASE ReceiveLog
    BY <1>19 DEF ReceiveLog, Streams
  <1>20. QED
    BY <1>1, <1>2, <1>3, <1>4, <1>5, <1>6, <1>7, <1>8, <1>9, <1>10, <1>11, <1>12, <1>13,
       <1>14, <1>15, <1>16, <1>17, <1>18, <1>19
    DEF Next, Start, Stop, Pipeline, Channels

(* The goroutine fills what it holds only as it begins to send.              *)
LEMMA IdleStep == TypeOK /\ UnusedInv /\ IdleInv /\ [Next]_vars => IdleInv'
  <1> SUFFICES ASSUME TypeOK, UnusedInv, IdleInv, [Next]_vars PROVE IdleInv'
    OBVIOUS
  <1>0. /\ hand \in [Streams -> {"none", "connecting", "waiting", "returned"}]
        /\ drain \in [Streams -> {"off", "idle", "sending", "ended"}]
        /\ DOMAIN batch = Streams /\ wire \in [Streams -> Seq(Entries)]
    BY DEF TypeOK, ProcessOK, PipelineOK
  <1> USE <1>0 DEF IdleInv
  <1>1. CASE UNCHANGED <<hand, drain, batch, wire>>
    BY <1>1
  <1>2. ASSUME NEW s \in Streams, Dial(s) PROVE IdleInv'
    BY <1>2 DEF Dial, UnusedInv, Unused
  <1>3. ASSUME NEW s \in Streams, Open(s) PROVE IdleInv'
    BY <1>3 DEF Open
  <1>4. ASSUME NEW s \in Streams, OpenFails(s) \/ Close(s) PROVE IdleInv'
    BY <1>4 DEF OpenFails, Close
  <1>5. ASSUME NEW s \in Streams, Send(s) PROVE IdleInv'
    <2>1. hand[s] \notin {"none", "connecting"}
      BY <1>5 DEF Send
    <2>2. CASE batch[s] = <<>> \/ ~up[s]
      BY <1>5, <2>1, <2>2 DEF Send
    <2>3. CASE batch[s] # <<>> /\ up[s]
      BY <1>5, <2>1, <2>3 DEF Send
    <2> QED
      BY <2>2, <2>3
  <1>6. ASSUME NEW s \in Streams, Break(s) PROVE IdleInv'
    BY <1>6 DEF Break
  <1>7. CASE TakeHello
    BY <1>7 DEF TakeHello, Streams
  <1>8. CASE TakeLog
    BY <1>8 DEF TakeLog, Streams
  <1>9. CASE ReceiveHello
    <2>1. hand["hello"] \notin {"none", "connecting"}
      BY <1>9 DEF ReceiveHello, Streams
    <2> QED
      BY <1>9, <2>1 DEF ReceiveHello, Streams
  <1>10. CASE ReceiveLog
    <2>1. hand["log"] \notin {"none", "connecting"}
      BY <1>10 DEF ReceiveLog, Streams
    <2> QED
      BY <1>10, <2>1 DEF ReceiveLog, Streams
  <1>11. QED
    BY <1>1, <1>2, <1>3, <1>4, <1>5, <1>6, <1>7, <1>8, <1>9, <1>10
    DEF Next, Start, Stop, Pipeline, Channels, StartEST, OpenDatabase, StartBroker, Listen,
        Signal, GracefulStop, CancelBroker, CloseBroker, Exit, ESTFails, BrokerListens, BrokerFails,
        Publish, Route, Push, SessionLost, ServiceEnds

(* What the callback and the channel hold are messages.                      *)
LEMMA MessagesOnTheWay ==
  ASSUME TypeOK, NEW s \in Streams
  PROVE  /\ Sent(s) \in Seq(Entries) /\ journal[s] \in Seq(Entries)
         /\ wire[s] \in Seq(Entries) /\ batch[s] \in Seq(Entries)
         /\ handed[s] \in Seq(Entries)
         /\ Queue(s) \in Seq(Message) /\ cb[s] \in Message
  <1>1. /\ journal[s] \in Seq(Entries) /\ wire[s] \in Seq(Entries)
        /\ batch[s] \in Seq(Entries) /\ handed[s] \in Seq(Entries)
    BY DEF TypeOK, PipelineOK
  <1>2. \A t \in Streams : Payloads(t) \subseteq Message
    BY Readable DEF Message
  <1>3. cb[s] \in Message
    <2>1. cb[s] \in Payloads(s) \cup {Nothing}
      BY DEF TypeOK, PipelineOK
    <2> QED
      BY <1>2, <2>1 DEF Message
  <1>4. Queue(s) \in Seq(Message)
    <2>1. chan \in Seq(Payloads("log")) /\ Payloads("log") \subseteq Message
      BY <1>2 DEF TypeOK, PipelineOK, Streams
    <2>2. chan \in Seq(Message)
      BY <2>1
    <2> QED
      BY <2>2 DEF Queue
  <1>5. QED
    BY <1>1, <1>3, <1>4 DEF Sent

(* What was received is a prefix of what was sent.                           *)
LEMMA ReceivedWasSent ==
  ASSUME NEW a \in Seq(Entries), NEW b \in Seq(Entries), NEW c \in Seq(Entries),
         NEW q, NEW m, NEW h \in Seq(Entries), InFlight(a \o b \o c, q, m, h)
  PROVE  IsPrefixOf(a, h)
  <1>1. IsPrefixOf(a \o b \o c, h)
    BY DEF InFlight, Offsets
  <1> DEFINE abc == a \o b \o c
  <1>2. Len(a) <= Len(abc) /\ Len(a) \in Nat /\ Len(abc) \in Nat
        /\ \A i \in 1 .. Len(a) : abc[i] = a[i]
    OBVIOUS
  <1>3. Len(abc) <= Len(h) /\ \A i \in 1 .. Len(abc) : abc[i] = h[i]
    BY <1>1 DEF IsPrefixOf
  <1> HIDE DEF abc
  <1>4. Len(a) <= Len(h)
    BY <1>2, <1>3
  <1>5. \A i \in 1 .. Len(a) : a[i] = h[i]
    BY <1>2, <1>3
  <1>6. QED
    BY <1>4, <1>5 DEF IsPrefixOf

(* An entry that goes from the front of one sequence to the end of the one   *)
(* before it keeps its place.                                                *)
LEMMA EntryMoves ==
  ASSUME NEW a \in Seq(Entries), NEW b \in Seq(Entries), b # <<>>
  PROVE  Append(a, Head(b)) \o Tail(b) = a \o b
  <1> DEFINE x == Append(a, Head(b)) \o Tail(b)
             y == a \o b
  <1>1. Head(b) \in Entries /\ Tail(b) \in Seq(Entries)
    OBVIOUS
  <1>2. x \in Seq(Entries) /\ y \in Seq(Entries)
    BY <1>1
  <1>3. Len(x) = Len(y) /\ Len(y) = Len(a) + Len(b) /\ Len(a) \in Nat /\ Len(b) \in Nat
    BY <1>1
  <1>4. ASSUME NEW i \in 1 .. Len(a) + Len(b) PROVE x[i] = y[i]
    <2>1. CASE i <= Len(a)
      BY <2>1, <1>1
    <2>2. CASE i = Len(a) + 1
      BY <2>2, <1>1
    <2>3. CASE i > Len(a) + 1
      BY <2>3, <1>1
    <2> QED
      BY <1>3, <2>1, <2>2, <2>3
  <1> HIDE DEF x, y
  <1>5. x = y
    BY <1>2, <1>3, <1>4, SeqEqual
  <1>6. QED
    BY <1>5 DEF x, y

(* An entry put at the end of the second is put at the end of both.          *)
LEMMA LastOfBoth ==
  ASSUME NEW a \in Seq(Entries), NEW b \in Seq(Entries), NEW e \in Entries
  PROVE  a \o Append(b, e) = Append(a \o b, e)
  <1> DEFINE x == a \o Append(b, e)
             y == Append(a \o b, e)
  <1>1. x \in Seq(Entries) /\ y \in Seq(Entries)
    OBVIOUS
  <1>2. Len(x) = Len(y) /\ Len(y) = Len(a) + Len(b) + 1 /\ Len(a) \in Nat /\ Len(b) \in Nat
    OBVIOUS
  <1>3. ASSUME NEW i \in 1 .. Len(a) + Len(b) + 1 PROVE x[i] = y[i]
    <2>1. CASE i <= Len(a)
      BY <2>1
    <2>2. CASE i > Len(a) /\ i <= Len(a) + Len(b)
      BY <2>2
    <2>3. CASE i = Len(a) + Len(b) + 1
      BY <2>3
    <2> QED
      BY <1>2, <2>1, <2>2, <2>3
  <1> HIDE DEF x, y
  <1>4. x = y
    BY <1>1, <1>2, <1>3, SeqEqual
  <1> QED
    BY <1>4 DEF x, y

(* So what was sent or is to be sent stays as it is when an entry is sent.   *)
LEMMA EntryIsSent ==
  ASSUME NEW a \in Seq(Entries), NEW b \in Seq(Entries), NEW c \in Seq(Entries), c # <<>>
  PROVE  (a \o Append(b, Head(c))) \o Tail(c) = (a \o b) \o c
  <1>1. Head(c) \in Entries /\ a \o b \in Seq(Entries)
    OBVIOUS
  <1>2. a \o Append(b, Head(c)) = Append(a \o b, Head(c))
    BY <1>1, LastOfBoth
  <1>3. Append(a \o b, Head(c)) \o Tail(c) = (a \o b) \o c
    BY <1>1, EntryMoves
  <1> QED
    BY <1>2, <1>3

(* Every step keeps the entries in the order in which they were handed over. *)
LEMMA OrderStep == TypeOK /\ UnusedInv /\ IdleInv /\ OrderInv /\ [Next]_vars => OrderInv'
  <1> SUFFICES ASSUME TypeOK, UnusedInv, IdleInv, OrderInv, [Next]_vars, NEW t \in Streams
               PROVE  Ordered(t)'
    BY DEF OrderInv
  <1> DEFINE Same == UNCHANGED <<up[t], journal[t], wire[t], batch[t], Queue(t), cb[t], handed[t]>>
  <1>1. Ordered(t)
    BY DEF OrderInv
  <1>2. /\ Sent(t) \in Seq(Entries) /\ journal[t] \in Seq(Entries)
        /\ wire[t] \in Seq(Entries) /\ batch[t] \in Seq(Entries)
        /\ handed[t] \in Seq(Entries)
        /\ Queue(t) \in Seq(Message) /\ cb[t] \in Message
    BY MessagesOnTheWay
  <1>3. /\ up \in [Streams -> BOOLEAN] /\ cb \in [Streams -> Messages \cup {Nothing}]
        /\ batch \in [Streams -> Seq(Entries)] /\ wire \in [Streams -> Seq(Entries)]
        /\ journal \in [Streams -> Seq(Entries)] /\ handed \in [Streams -> Seq(Entries)]
    BY DEF TypeOK, ProcessOK, PipelineOK
  <1>4. ASSUME Same PROVE Ordered(t)'
    BY <1>1, <1>4 DEF Ordered, Sent
  <1>5. CASE UNCHANGED <<up, journal, wire, batch, chan, cb, handed>>
    BY <1>4, <1>5 DEF Queue
  <1>6. ASSUME NEW s \in Streams, Dial(s) PROVE Ordered(t)'
    <2>1. CASE s # t \/ up' = up
      BY <1>3, <1>4, <1>6, <2>1 DEF Dial, Queue
    <2>2. CASE s = t /\ up' # up
      <3>1. up'[t] = TRUE /\ UNCHANGED <<journal, wire, batch, chan, cb, handed>>
        BY <1>3, <1>6, <2>2 DEF Dial
      <3>2. Unused(t)
        BY <1>6, <2>2 DEF Dial, UnusedInv
      <3>3. Sent(t) = <<>> /\ Queue(t) = <<>> /\ cb[t] = Nothing /\ handed[t] = <<>>
        BY <3>2, ConcatEmptySeq DEF Unused, Sent
      <3>4. InFlight(<<>>, <<>>, Nothing, <<>>)
        <4> DEFINE p == [i \in 1 .. 1 |-> 0]
        <4>1. p \in [1 .. 0 + 1 -> 0 .. 0] /\ p[1] = 0 /\ Len(<<>>) = 0
          OBVIOUS
        <4> HIDE DEF p
        <4>2. Offsets(p, <<>>, <<>>, Nothing, <<>>)
          BY <4>1 DEF Offsets, Width, Lies, IsPrefixOf
        <4> QED
          BY <4>2 DEF InFlight
      <3>5. Sent(t)' = Sent(t) /\ Queue(t)' = Queue(t)
        BY <3>1 DEF Sent, Queue
      <3> QED
        BY <3>1, <3>3, <3>4, <3>5 DEF Ordered
    <2> QED
      BY <2>1, <2>2
  <1>7. ASSUME NEW s \in Streams, OpenFails(s) \/ Break(s) PROVE Ordered(t)'
    <2>1. CASE s # t
      BY <1>3, <1>4, <1>7, <2>1 DEF OpenFails, Break, Queue
    <2>2. CASE s = t
      <3>1. up'[t] = FALSE /\ journal' = journal /\ handed' = handed
        BY <1>3, <1>7, <2>2 DEF OpenFails, Break
      <3>2. wire'[t] = <<>>
        BY <1>3, <1>7, <2>2 DEF OpenFails, Break, IdleInv
      <3>3. IsPrefixOf(journal[t], handed[t])
        BY <1>1, <1>2, ReceivedWasSent DEF Ordered, Sent
      <3> QED
        BY <3>1, <3>2, <3>3 DEF Ordered
    <2> QED
      BY <2>1, <2>2
  <1>8. ASSUME NEW s \in Streams, Route(s) PROVE Ordered(t)'
    <2>1. CASE s # t
      BY <1>3, <1>4, <1>8, <2>1 DEF Route, Queue
    <2>2. CASE s = t
      <3> DEFINE m == Head(inbox[t])
      <3>1. m \in Payloads(t)
        BY <1>8, <2>2 DEF Route, TypeOK, PipelineOK
      <3>2. /\ cb[t] = Nothing /\ cb'[t] = m
            /\ handed'[t] = IF m = Unreadable THEN handed[t] ELSE handed[t] \o m
            /\ up'[t] = up[t] /\ wire'[t] = wire[t] /\ journal'[t] = journal[t]
            /\ Sent(t)' = Sent(t) /\ Queue(t)' = Queue(t)
        BY <1>3, <1>8, <2>2 DEF Route, Sent, Queue
      <3>3. m # Unreadable => m \in Seq(Entries) /\ m \notin {Unreadable, Nothing}
        BY <3>1, Readable, ArraysAssumption DEF Payloads
      <3> HIDE DEF m
      <3>4. up[t] => InFlight(Sent(t), Queue(t), m, handed'[t])
        <4> SUFFICES ASSUME up[t] PROVE InFlight(Sent(t), Queue(t), m, handed'[t])
          OBVIOUS
        <4>1. InFlight(Sent(t), Queue(t), Nothing, handed[t])
          BY <1>1, <3>2 DEF Ordered
        <4>2. CASE m = Unreadable
          BY <3>2, <4>1, <4>2, NothingEnters
        <4>3. CASE m # Unreadable
          BY <1>2, <3>2, <3>3, <4>1, <4>3, MessageEnters
        <4> QED
          BY <4>2, <4>3
      <3>5. ~up[t] => IsPrefixOf(journal[t], handed'[t])
        <4> SUFFICES ASSUME ~up[t], m # Unreadable PROVE IsPrefixOf(journal[t], handed[t] \o m)
          BY <1>1, <3>2 DEF Ordered
        <4> DEFINE h == handed[t]
        <4>1. IsPrefixOf(journal[t], h) /\ h \in Seq(Entries) /\ m \in Seq(Entries)
          BY <1>1, <1>2, <3>3 DEF Ordered
        <4> HIDE DEF h
        <4>2. /\ Len(h \o m) = Len(h) + Len(m) /\ Len(h) \in Nat /\ Len(m) \in Nat
              /\ \A i \in 1 .. Len(h) : (h \o m)[i] = h[i]
          BY <4>1
        <4>3. IsPrefixOf(journal[t], h \o m)
          BY <1>2, <4>1, <4>2 DEF IsPrefixOf
        <4> QED
          BY <4>3 DEF h
      <3> QED
        BY <1>1, <3>2, <3>4, <3>5 DEF Ordered
    <2> QED
      BY <2>1, <2>2
  <1>9. CASE Push
    <2>1. CASE t = "hello"
      BY <1>3, <1>4, <1>9, <2>1 DEF Push, Queue
    <2>2. CASE t = "log"
      <3>1. /\ cb[t] # Nothing /\ cb'[t] = Nothing /\ Queue(t)' = Append(Queue(t), cb[t])
            /\ up'[t] = up[t] /\ wire'[t] = wire[t] /\ journal'[t] = journal[t]
            /\ handed'[t] = handed[t] /\ Sent(t)' = Sent(t)
        BY <1>3, <1>9, <2>2 DEF Push, Sent, Queue
      <3>2. up[t] => InFlight(Sent(t), Append(Queue(t), cb[t]), Nothing, handed[t])
        BY <1>1, <1>2, <3>1, MessageQueues DEF Ordered
      <3> QED
        BY <1>1, <3>1, <3>2 DEF Ordered
    <2> QED
      BY <2>1, <2>2 DEF Streams
  <1>10. CASE TakeHello
    <2>1. CASE t = "log"
      BY <1>3, <1>4, <1>10, <2>1 DEF TakeHello, Queue
    <2>2. CASE t = "hello"
      <3>1. /\ cb[t] # Nothing /\ cb'[t] = Nothing /\ batch'[t] = cb[t] /\ drain[t] = "idle"
            /\ UNCHANGED <<up, wire, journal, handed, chan>>
        BY <1>3, <1>10, <2>2 DEF TakeHello
      <3>2. cb[t] \in Seq(Entries) /\ cb[t] \notin {Unreadable, Nothing}
        <4>1. cb[t] \in Payloads("hello")
          BY <2>2, <3>1 DEF TypeOK, PipelineOK
        <4> QED
          BY <2>2, <3>1, <4>1, Readable
      <3>3. batch[t] = <<>>
        BY <3>1 DEF IdleInv
      <3>4. Sent(t) = journal[t] \o wire[t]
        <4>1. journal[t] \o wire[t] \in Seq(Entries)
          BY <1>2
        <4> QED
          BY <3>3, <4>1, ConcatEmptySeq DEF Sent
      <3>5. Sent(t)' = Sent(t) \o cb[t]
        BY <3>1, <3>4 DEF Sent
      <3>6. Queue(t) = <<>> /\ Queue(t)' = <<>>
        BY <2>2 DEF Queue
      <3>7. up[t] => InFlight(Sent(t) \o cb[t], <<>>, Nothing, handed[t])
        BY <1>1, <1>2, <3>2, <3>6, MessageIsMet DEF Ordered
      <3> QED
        BY <1>1, <3>1, <3>5, <3>6, <3>7 DEF Ordered
    <2> QED
      BY <2>1, <2>2 DEF Streams
  <1>11. CASE TakeLog
    <2>1. CASE t = "hello"
      <3>1. batch'[t] = batch[t]
        BY <1>3, <1>11, <2>1 DEF TakeLog
      <3> QED
        BY <1>4, <1>11, <2>1, <3>1 DEF TakeLog, Queue
    <2>2. CASE t = "log"
      <3>1. /\ Queue(t) # <<>> /\ Queue(t)' = Tail(Queue(t)) /\ drain[t] = "idle"
            /\ UNCHANGED <<up, wire, journal, handed, cb>>
        BY <1>11, <2>2 DEF TakeLog, Queue
      <3>2. Head(Queue(t)) # Nothing /\ Head(Queue(t)) \in Message
        <4>1. Head(chan) \in Payloads("log")
          BY <1>11 DEF TakeLog, TypeOK, PipelineOK
        <4>2. Nothing \notin Payloads("log")
          BY ArraysAssumption DEF Payloads
        <4> QED
          BY <1>2, <2>2, <3>1, <4>1, <4>2 DEF Queue
      <3>3. batch[t] = <<>>
        BY <3>1 DEF IdleInv
      <3>4. Sent(t) = journal[t] \o wire[t]
        <4>1. journal[t] \o wire[t] \in Seq(Entries)
          BY <1>2
        <4> QED
          BY <3>3, <4>1, ConcatEmptySeq DEF Sent
      <3>5. CASE Head(Queue(t)) = Unreadable
        <4>1. Sent(t)' = Sent(t)
          BY <1>11, <2>2, <3>1, <3>5 DEF TakeLog, Queue, Sent
        <4>2. up[t] => InFlight(Sent(t), Tail(Queue(t)), cb[t], handed[t])
          BY <1>1, <1>2, <3>1, <3>2, <3>5, FirstIsTaken DEF Ordered
        <4> QED
          BY <1>1, <3>1, <4>1, <4>2 DEF Ordered
      <3>6. CASE Head(Queue(t)) # Unreadable
        <4>1. batch'[t] = Head(Queue(t))
          BY <1>3, <1>11, <2>2, <3>6 DEF TakeLog, Queue
        <4>2. Sent(t)' = Sent(t) \o Head(Queue(t))
          BY <3>1, <3>4, <4>1 DEF Sent
        <4>3. up[t] => InFlight(Sent(t) \o Head(Queue(t)), Tail(Queue(t)), cb[t], handed[t])
          BY <1>1, <1>2, <3>1, <3>2, <3>6, FirstIsTaken DEF Ordered
        <4> QED
          BY <1>1, <3>1, <4>2, <4>3 DEF Ordered
      <3> QED
        BY <3>5, <3>6
    <2> QED
      BY <2>1, <2>2 DEF Streams
  <1>12. ASSUME NEW s \in Streams, Send(s) PROVE Ordered(t)'
    <2>1. CASE s # t \/ batch[t] = <<>> \/ ~up[t]
      <3>0. UNCHANGED <<up, journal, handed, cb, chan>>
        BY <1>12 DEF Send
      <3>1. CASE batch[s] = <<>> \/ ~up[s]
        <4>1. UNCHANGED <<batch, wire>>
          BY <1>12, <3>1 DEF Send
        <4> QED
          BY <1>4, <3>0, <4>1 DEF Queue
      <3>2. CASE batch[s] # <<>> /\ up[s]
        <4>1. /\ wire' = [wire EXCEPT ![s] = Append(@, Head(batch[s]))]
              /\ batch' = [batch EXCEPT ![s] = Tail(@)]
          BY <1>12, <3>2 DEF Send
        <4>2. batch'[t] = batch[t] /\ wire'[t] = wire[t]
          BY <1>3, <2>1, <3>2, <4>1
        <4> QED
          BY <1>4, <3>0, <4>2 DEF Queue
      <3> QED
        BY <3>1, <3>2
    <2>2. CASE s = t /\ batch[t] # <<>> /\ up[t]
      <3>0. /\ wire' = [wire EXCEPT ![t] = Append(@, Head(batch[t]))]
            /\ batch' = [batch EXCEPT ![t] = Tail(@)]
            /\ UNCHANGED <<up, journal, handed, cb, chan>>
        BY <1>12, <2>2 DEF Send
      <3>1. /\ wire'[t] = Append(wire[t], Head(batch[t])) /\ batch'[t] = Tail(batch[t])
            /\ UNCHANGED <<up, journal, handed, cb, chan>>
        BY <1>3, <3>0
      <3>3. Sent(t)' = (journal[t] \o Append(wire[t], Head(batch[t]))) \o Tail(batch[t])
        BY <3>1 DEF Sent
      <3>4. /\ journal[t] \in Seq(Entries) /\ wire[t] \in Seq(Entries)
            /\ batch[t] \in Seq(Entries) /\ batch[t] # <<>>
        BY <1>2, <2>2
      <3>5. (journal[t] \o Append(wire[t], Head(batch[t]))) \o Tail(batch[t])
              = (journal[t] \o wire[t]) \o batch[t]
        BY <3>4, EntryIsSent
      <3>7. Sent(t)' = Sent(t)
        BY <3>3, <3>5 DEF Sent
      <3> QED
        BY <1>1, <2>2, <3>1, <3>7 DEF Ordered, Queue
    <2> QED
      BY <2>1, <2>2
  <1>13. ASSUME NEW s \in Streams, wire[s] # <<>>,
                journal' = [journal EXCEPT ![s] = Append(@, Head(wire[s]))],
                wire' = [wire EXCEPT ![s] = Tail(@)],
                UNCHANGED <<up, batch, chan, cb, handed>>
         PROVE  Ordered(t)'
    <2>1. CASE s # t
      BY <1>3, <1>4, <1>13, <2>1 DEF Queue
    <2>2. CASE s = t
      <3>1. up[t]
        BY <1>1, <1>13, <2>2 DEF Ordered
      <3>2. journal'[t] \o wire'[t] = journal[t] \o wire[t]
        BY <1>2, <1>3, <1>13, <2>2, EntryMoves
      <3>3. Sent(t)' = Sent(t)
        BY <1>13, <3>2 DEF Sent
      <3> QED
        BY <1>1, <1>13, <3>1, <3>3 DEF Ordered, Queue
    <2> QED
      BY <2>1, <2>2
  <1>14. CASE ReceiveHello
    BY <1>13, <1>14 DEF ReceiveHello, Streams
  <1>15. CASE ReceiveLog
    BY <1>13, <1>15 DEF ReceiveLog, Streams
  <1>16. QED
    BY <1>5, <1>6, <1>7, <1>8, <1>9, <1>10, <1>11, <1>12, <1>14, <1>15
    DEF Next, Start, Stop, Pipeline, Channels, StartEST, OpenDatabase, StartBroker, Listen,
        Signal, GracefulStop, CancelBroker, CloseBroker, Exit, ESTFails, BrokerListens, BrokerFails,
        Publish, Open, Close, SessionLost, ServiceEnds

(* Nothing is on its way when the process starts.                            *)
LEMMA OrderInit == Init => UnusedInv /\ IdleInv /\ OrderInv
  <1>1. Init => UnusedInv /\ IdleInv
    BY DEF Init, UnusedInv, Unused, Queue, IdleInv
  <1>2. Init => OrderInv
    BY DEF Init, OrderInv, Ordered, IsPrefixOf
  <1>3. QED
    BY <1>1, <1>2

(* What a service has handled is a prefix of the readable entries that its   *)
(* stream's callback was handed, whatever breaks and however long the        *)
(* channel is full.                                                          *)
THEOREM StreamsInOrder == Spec => []InOrder
  <1>1. TypeOK /\ OrderInv => InOrder
    <2> SUFFICES ASSUME TypeOK, OrderInv, NEW s \in Streams
                 PROVE  IsPrefixOf(journal[s], handed[s])
      BY DEF InOrder
    <2>1. CASE up[s]
      BY <2>1, MessagesOnTheWay, ReceivedWasSent DEF OrderInv, Ordered, Sent
    <2>2. CASE ~up[s]
      BY <2>2 DEF OrderInv, Ordered
    <2> QED
      BY <2>1, <2>2
  <1>2. QED
    BY <1>1, OrderInit, UnusedStep, IdleStep, OrderStep, ServerTypes, PTL DEF Spec

(* A stream that is up, with nothing on its way, has lost nothing.           *)
Complete ==
  \A s \in Streams :
    up[s] /\ cb[s] = Nothing /\ Queue(s) = <<>> /\ batch[s] = <<>> /\ wire[s] = <<>>
      => journal[s] = handed[s]

(* Neither the callback, the channel nor the goroutine drops an entry while  *)
(* the stream is up: what was handed over and is nowhere on the way has been *)
(* handled.  It is why the pipeline need only go on for Settles to hold.     *)
THEOREM NothingIsLost == Spec => []Complete
  <1>1. TypeOK /\ OrderInv => Complete
    <2> SUFFICES ASSUME TypeOK, OrderInv, NEW s \in Streams, up[s], cb[s] = Nothing,
                        Queue(s) = <<>>, batch[s] = <<>>, wire[s] = <<>>
                 PROVE  journal[s] = handed[s]
      BY DEF Complete
    <2>1. journal[s] \in Seq(Entries) /\ handed[s] \in Seq(Entries)
      BY MessagesOnTheWay
    <2>2. Sent(s) = journal[s]
      BY <2>1, ConcatEmptySeq DEF Sent
    <2>3. InFlight(journal[s], <<>>, Nothing, handed[s])
      BY <2>2 DEF OrderInv, Ordered
    <2>4. PICK p : Offsets(p, journal[s], <<>>, Nothing, handed[s])
      BY <2>3 DEF InFlight
    <2>5. Len(<<>>) = 0
      OBVIOUS
    <2>6. /\ p[1] = Len(journal[s]) /\ p[1] + 0 = Len(handed[s])
          /\ IsPrefixOf(journal[s], handed[s])
      BY <2>4, <2>5 DEF Offsets, Width
    <2>7. /\ Len(journal[s]) = Len(handed[s])
          /\ \A i \in 1 .. Len(journal[s]) : journal[s][i] = handed[s][i]
      BY <2>1, <2>6 DEF IsPrefixOf
    <2> QED
      BY <2>1, <2>7, SeqEqual
  <1>2. Spec => []OrderInv
    BY OrderInit, UnusedStep, IdleStep, OrderStep, ServerTypes, PTL DEF Spec
  <1>3. QED
    BY <1>1, <1>2, ServerTypes, PTL

=============================================================================
