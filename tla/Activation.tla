------------------------------ MODULE Activation ------------------------------
(***************************************************************************)
(* Activations of the southbound service                                   *)
(* (src/control/service/southbound/activate.go): concurrent calls of       *)
(* ActivateFleet, for a whole version set or for a group, and of           *)
(* ActivateNode, over the tables they share (src/control/db/versioning.go).*)
(*                                                                         *)
(* Each call is a gRPC handler and a goroutine, the receiver, that reads   *)
(* the stream of the control plane and signals the handler through the     *)
(* unbuffered channel done.  The update itself runs in another service: of *)
(* it the model keeps how it ends and the states it streams.  Panics and   *)
(* kills end the process; its rows stay, and calls not yet made are made   *)
(* after the restart.                                                      *)
(***************************************************************************)
EXTENDS Naturals, FiniteSets

CONSTANTS
  VersionCalls,    \* calls of ActivateFleet without a group name
  GroupCalls,      \* calls of ActivateFleet with one
  NodeCalls,       \* calls of ActivateNode
  Base,            \* the version transition of an earlier activation
  None,            \* no version transition
  Faults           \* what may go wrong: a subset of AllFaults

Calls      == VersionCalls \cup GroupCalls \cup NodeCalls
FleetCalls == VersionCalls \cup GroupCalls
Rows       == VersionCalls \cup {Base}

AllFaults == {"db", "connect", "update", "deadline", "cancel", "kill", "overlap"}

ASSUME CallsAssumption ==
  /\ VersionCalls \cap GroupCalls = {}
  /\ NodeCalls \cap FleetCalls = {}
  /\ Base \notin Calls /\ None \notin Calls \cup {Base}
ASSUME FaultsAssumption == Faults \subseteq AllFaults

VARIABLES
  \* the database
  row,             \* version_transitions.status of each transition, or "absent"
  txn,             \* the transactions row of each call
  logged,          \* the states in transaction_log for each call of ActivateNode
  \* the handlers
  pc, ctx, result,
  from,            \* fromVersionTransition
  doneClosed,
  \* the receivers
  rpc, final, lastError, retcode,
  \* the control plane
  remote,          \* how the update of each call stands
  stream,          \* the response that waits in each call's stream
  \* history
  overlapped,      \* two calls were under way at once
  dbFailed         \* a statement failed although its context was alive

dbVars       == <<row, txn, logged>>
handlerVars  == <<pc, ctx, result, from, doneClosed>>
receiverVars == <<rpc, final, lastError, retcode>>
remoteVars   == <<remote, stream>>
historyVars  == <<overlapped, dbFailed>>
vars         == <<dbVars, handlerVars, receiverVars, remoteVars, historyVars>>

Init ==
  /\ row \in [Rows -> {"absent", "active"}] /\ \A c \in VersionCalls : row[c] = "absent"
  /\ txn = [c \in Calls |-> "absent"] /\ logged = [c \in NodeCalls |-> {}]
  /\ pc = [c \in Calls |-> "idle"] /\ ctx = [c \in Calls |-> "live"]
  /\ result = [c \in Calls |-> "none"] /\ from = [c \in Calls |-> None]
  /\ doneClosed = [c \in Calls |-> FALSE]
  /\ rpc = [c \in Calls |-> "idle"] /\ final = [c \in Calls |-> "unset"]
  /\ lastError = [c \in Calls |-> FALSE] /\ retcode = [c \in Calls |-> 0]
  /\ remote = [c \in Calls |-> "idle"] /\ stream = [c \in Calls |-> "empty"]
  /\ overlapped = FALSE /\ dbFailed = FALSE

------------------------------------------------------------------------------
(* Statements.  Each is a transaction of its own (ExecuteInTransaction): one *)
(* whose context is over fails at Begin.                                    *)

Succeeds(c) == ctx[c] = "live" /\ UNCHANGED dbFailed
FailsNow(c) ==
  \/ ctx[c] # "live" /\ UNCHANGED dbFailed
  \/ ctx[c] = "live" /\ "db" \in Faults /\ dbFailed' = TRUE

SetStatus(r, st) == row' = [row EXCEPT ![r] = st]

\* LogNodeTransaction inserts one row of transaction_log, unless the state is one
\* that the enumeration does not know.  Of a fleet's rows nothing is kept.
Log(c, st) == st # "other" /\ Succeeds(c) /\ logged' = [logged EXCEPT ![c] = @ \cup {st}]
LogFails(c, st) ==
  /\ FailsNow(c) \/ (st = "other" /\ UNCHANGED dbFailed)
  /\ UNCHANGED logged

\* logTransactionFailure never inserts a row: it converts a number to the
\* string type TransactionState, which the column's enumeration rejects.
LogTransactionFailure == UNCHANGED logged

------------------------------------------------------------------------------
(* The handlers *)

InProgress(c) == pc[c] \notin {"idle", "returned", "lost"}

Goto(c, at)   == pc' = [pc EXCEPT ![c] = at]
Return(c, r)  == Goto(c, "return") /\ result' = [result EXCEPT ![c] = r]

Begin(c) ==
  /\ pc[c] = "idle"
  /\ "overlap" \in Faults \/ \A d \in Calls : ~InProgress(d)
  /\ overlapped' = (overlapped \/ \E d \in Calls : InProgress(d))
  /\ Goto(c, "query")
  /\ UNCHANGED <<dbVars, ctx, result, from, doneClosed, receiverVars, remoteVars, dbFailed>>

\* The nodes of the update are read: there may be none, or a statement fails.
Query(c) ==
  /\ pc[c] = "query"
  /\ \/ Succeeds(c) /\ Goto(c, "createTx") /\ UNCHANGED result
     \/ Return(c, "error") /\ UNCHANGED dbFailed
  /\ UNCHANGED <<dbVars, ctx, from, doneClosed, receiverVars, remoteVars, overlapped>>

CreateTransaction(c) ==
  /\ pc[c] = "createTx"
  /\ \/ /\ Succeeds(c)
        /\ txn' = [txn EXCEPT ![c] = "open"]
        /\ Goto(c, IF c \in VersionCalls THEN "select" ELSE "connect")
        /\ UNCHANGED result
     \/ FailsNow(c) /\ Return(c, "error") /\ UNCHANGED txn
  /\ UNCHANGED <<row, logged, ctx, from, doneClosed, receiverVars, remoteVars, overlapped>>

\* Variant: the SELECT asks for a pending transition.
SelectPending(c) ==
  /\ pc[c] = "select"
  /\ Succeeds(c)
  /\ \E r \in Rows \cup {None} :
       /\ IF r = None THEN \A s \in Rows : row[s] # "pending" ELSE row[r] = "pending"
       /\ from' = [from EXCEPT ![c] = r]
  /\ Goto(c, "insert")
  /\ UNCHANGED <<dbVars, ctx, result, doneClosed, receiverVars, remoteVars, overlapped>>

\* SELECT ... LIMIT 1: any active transition; a failure is taken for there
\* being none.
SelectActive(c) ==
  /\ pc[c] = "select"
  /\ \/ /\ Succeeds(c)
        /\ \E r \in Rows \cup {None} :
             /\ IF r = None THEN \A s \in Rows : row[s] # "active" ELSE row[r] = "active"
             /\ from' = [from EXCEPT ![c] = r]
     \/ FailsNow(c) /\ UNCHANGED from
  /\ Goto(c, "insert")
  /\ UNCHANGED <<dbVars, ctx, result, doneClosed, receiverVars, remoteVars, overlapped>>

\* Variant: the old transition is revoked with the insertion of the new one.
InsertAndRevoke(c) ==
  /\ pc[c] = "insert"
  /\ \/ /\ Succeeds(c)
        /\ row' = [r \in Rows |-> IF r = c THEN "pending"
                                ELSE IF r = from[c] THEN "disabled" ELSE row[r]]
        /\ Goto(c, "connect") /\ UNCHANGED result
     \/ FailsNow(c) /\ Return(c, "error") /\ UNCHANGED row
  /\ UNCHANGED <<txn, logged, ctx, from, doneClosed, receiverVars, remoteVars, overlapped>>

CreateVersionTransition(c) ==
  /\ pc[c] = "insert"
  /\ \/ Succeeds(c) /\ SetStatus(c, "pending") /\ Goto(c, "connect") /\ UNCHANGED result
     \/ FailsNow(c) /\ Return(c, "error") /\ UNCHANGED row
  /\ UNCHANGED <<txn, logged, ctx, from, doneClosed, receiverVars, remoteVars, overlapped>>

\* Open the stream to the control plane and start the receiver.
StartUpdate(c) ==
  /\ pc[c] = "connect"
  /\ \/ /\ Goto(c, "wait")
        /\ rpc' = [rpc EXCEPT ![c] = "top"] /\ remote' = [remote EXCEPT ![c] = "running"]
        /\ UNCHANGED <<result, logged>>
     \/ /\ "connect" \in Faults \/ ctx[c] # "live"
        /\ Return(c, "error") /\ LogTransactionFailure /\ UNCHANGED <<rpc, remote>>
  /\ UNCHANGED <<row, txn, ctx, from, doneClosed, final, lastError, retcode, stream, historyVars>>

\* The handler and the receiver meet on the unbuffered channel.
DoneReceived(c) ==
  /\ pc[c] = "wait" /\ rpc[c] = "signal"
  /\ rpc' = [rpc EXCEPT ![c] = "gone"]
  /\ \/ lastError[c] /\ Return(c, "error")
     \/ ~lastError[c] /\ c \in FleetCalls /\ Goto(c, "complete") /\ UNCHANGED result
     \/ ~lastError[c] /\ c \in NodeCalls /\ Return(c, IF retcode[c] = 0 THEN "ok" ELSE "failed")
  /\ UNCHANGED <<dbVars, ctx, from, doneClosed, final, lastError, retcode, remoteVars, historyVars>>

\* Variant: the handler waits for the receiver alone.
NeverTimesOut(c) == pc[c] = "timed out" /\ UNCHANGED vars

\* The statements of this branch run under the context that has just ended.
ContextEnded(c) ==
  /\ pc[c] = "wait" /\ ctx[c] # "live"
  /\ Return(c, ctx[c])
  /\ LogTransactionFailure
  /\ UNCHANGED <<row, txn, ctx, from, doneClosed, receiverVars, remoteVars, historyVars>>

FleetResult(c) == IF final[c] = "error" THEN "failed" ELSE "ok"

CompleteTransaction(c) ==
  /\ pc[c] = "complete"
  /\ \/ Succeeds(c) /\ txn' = [txn EXCEPT ![c] = "completed"]
     \/ FailsNow(c) /\ UNCHANGED txn
  /\ IF c \in VersionCalls THEN Goto(c, "revoke") /\ UNCHANGED result
                           ELSE Return(c, FleetResult(c))
  /\ UNCHANGED <<row, logged, ctx, from, doneClosed, receiverVars, remoteVars, overlapped>>

\* Variant: the identifiers of the two transitions are mixed up.
RevokeOwnRow(c) ==
  /\ pc[c] = "revoke"
  /\ Succeeds(c) /\ SetStatus(c, "disabled")
  /\ Goto(c, "setNew")
  /\ UNCHANGED <<txn, logged, ctx, result, from, doneClosed, receiverVars, remoteVars, overlapped>>

\* Only an update that was applied revokes the transition it replaces.
RevokeOld(c) ==
  /\ pc[c] = "revoke"
  /\ \/ /\ final[c] = "applied" /\ from[c] # None
        /\ \/ Succeeds(c) /\ SetStatus(from[c], "disabled")
           \/ FailsNow(c) /\ UNCHANGED row
     \/ (final[c] # "applied" \/ from[c] = None) /\ UNCHANGED <<row, dbFailed>>
  /\ Goto(c, "setNew")
  /\ UNCHANGED <<txn, logged, ctx, result, from, doneClosed, receiverVars, remoteVars, overlapped>>

\* Variants: the state of the update is taken for the status of the transition; a
\* call whose context has ended gives its transition up, in a context that lives.
SetNewState(c) ==
  /\ pc[c] = "setNew"
  /\ Succeeds(c) /\ SetStatus(c, final[c])
  /\ Return(c, FleetResult(c))
  /\ UNCHANGED <<txn, logged, ctx, from, doneClosed, receiverVars, remoteVars, overlapped>>
SetNewOrGiveUp(c) ==
  /\ pc[c] = "setNew"
  /\ SetStatus(c, IF final[c] = "applied" /\ ctx[c] = "live" THEN "active" ELSE "failed")
  /\ Return(c, FleetResult(c))
  /\ UNCHANGED <<txn, logged, ctx, from, doneClosed, receiverVars, remoteVars, historyVars>>

SetNew(c) ==
  /\ pc[c] = "setNew"
  /\ \/ Succeeds(c) /\ SetStatus(c, IF final[c] = "applied" THEN "active" ELSE "failed")
     \/ FailsNow(c) /\ UNCHANGED row
  /\ Return(c, FleetResult(c))
  /\ UNCHANGED <<txn, logged, ctx, from, doneClosed, receiverVars, remoteVars, overlapped>>

\* Variant: nothing closes done.
FinishWithoutClose(c) ==
  /\ pc[c] = "return"
  /\ Goto(c, "returned")
  /\ ctx' = [ctx EXCEPT ![c] = IF @ = "live" THEN "cancelled" ELSE @]
  /\ UNCHANGED <<dbVars, result, from, doneClosed, receiverVars, remoteVars, historyVars>>

\* The deferred close(done) and cancel.
Finish(c) ==
  /\ pc[c] = "return"
  /\ Goto(c, "returned")
  /\ doneClosed' = [doneClosed EXCEPT ![c] = TRUE]
  /\ ctx' = [ctx EXCEPT ![c] = IF @ = "live" THEN "cancelled" ELSE @]
  /\ UNCHANGED <<dbVars, result, from, receiverVars, remoteVars, historyVars>>

Deadline(c) ==
  /\ "deadline" \in Faults /\ InProgress(c) /\ ctx[c] = "live"
  /\ ctx' = [ctx EXCEPT ![c] = "deadline"]
  /\ UNCHANGED <<dbVars, pc, result, from, doneClosed, receiverVars, remoteVars, historyVars>>

CallerCancels(c) ==
  /\ "cancel" \in Faults /\ InProgress(c) /\ ctx[c] = "live"
  /\ ctx' = [ctx EXCEPT ![c] = "cancelled"]
  /\ UNCHANGED <<dbVars, pc, result, from, doneClosed, receiverVars, remoteVars, historyVars>>

------------------------------------------------------------------------------
(* The receivers *)

ReceiverGoto(c, at) == rpc' = [rpc EXCEPT ![c] = at]

\* The select at the top of the loop; with nothing ready it enters Recv.
ReceiverTop(c) ==
  /\ rpc[c] = "top"
  /\ \/ ctx[c] = "live" /\ ~doneClosed[c] /\ ReceiverGoto(c, "recv") /\ UNCHANGED final
     \/ /\ ctx[c] # "live"
        /\ ReceiverGoto(c, "gone")
        /\ final' = IF c \in FleetCalls THEN [final EXCEPT ![c] = "error"] ELSE final
     \/ doneClosed[c] /\ ReceiverGoto(c, "gone") /\ UNCHANGED final
  /\ UNCHANGED <<dbVars, handlerVars, lastError, retcode, remoteVars, historyVars>>

\* ActivateFleet goes on if a response cannot be logged, and leaves the loop
\* without a signal on an error state.
FleetResponse(c) ==
  /\ c \in FleetCalls /\ rpc[c] = "recv" /\ stream[c] # "empty"
  /\ stream' = [stream EXCEPT ![c] = "empty"]
  /\ Succeeds(c) \/ FailsNow(c)
  /\ \/ stream[c] = "error" /\ final' = [final EXCEPT ![c] = "error"] /\ ReceiverGoto(c, "gone")
     \/ stream[c] # "error" /\ ReceiverGoto(c, "top") /\ UNCHANGED final
  /\ UNCHANGED <<dbVars, handlerVars, lastError, retcode, remote, overlapped>>

\* ActivateNode leaves the loop without a signal if a response cannot be logged.
NodeResponse(c) ==
  /\ c \in NodeCalls /\ rpc[c] = "recv" /\ stream[c] # "empty"
  /\ stream' = [stream EXCEPT ![c] = "empty"]
  /\ \/ /\ Log(c, stream[c])
        /\ ReceiverGoto(c, IF stream[c] \in {"error", "applied"} THEN "completeTx" ELSE "top")
        /\ retcode' = [retcode EXCEPT ![c] = IF stream[c] = "error" THEN 1 ELSE @]
        /\ UNCHANGED lastError
     \/ /\ LogFails(c, stream[c])
        /\ ReceiverGoto(c, "gone")
        /\ lastError' = [lastError EXCEPT ![c] = TRUE] /\ UNCHANGED retcode
  /\ UNCHANGED <<row, txn, handlerVars, final, remote, overlapped>>

\* Variant: a transaction that could not be completed is only logged.
CompleteIfPossible(c) ==
  /\ rpc[c] = "completeTx"
  /\ \/ Succeeds(c) /\ txn' = [txn EXCEPT ![c] = "completed"]
     \/ FailsNow(c) /\ UNCHANGED txn
  /\ ReceiverGoto(c, "signal")
  /\ UNCHANGED <<row, logged, handlerVars, lastError, final, retcode, remoteVars, overlapped>>

\* ActivateNode completes its transaction in the receiver, then signals.
ReceiverComplete(c) ==
  /\ rpc[c] = "completeTx"
  /\ \/ Succeeds(c) /\ txn' = [txn EXCEPT ![c] = "completed"] /\ UNCHANGED lastError
     \/ FailsNow(c) /\ lastError' = [lastError EXCEPT ![c] = TRUE] /\ UNCHANGED txn
  /\ ReceiverGoto(c, "signal")
  /\ UNCHANGED <<row, logged, handlerVars, final, retcode, remoteVars, overlapped>>

\* io.EOF: the update returned without an error.  That the stream had ended before
\* the context did is not kept: Recv may still report either.
RecvEOF(c) ==
  /\ rpc[c] = "recv" /\ stream[c] = "empty" /\ remote[c] = "ok"
  /\ IF c \in FleetCalls
     THEN /\ final' = [final EXCEPT ![c] = IF @ = "unset" THEN "applied" ELSE @]
          /\ ReceiverGoto(c, "signal")
     ELSE ReceiverGoto(c, "gone") /\ UNCHANGED final
  /\ UNCHANGED <<dbVars, handlerVars, lastError, retcode, remoteVars, historyVars>>

\* Variant: every error of Recv is taken for the end of the stream.
RecvErrorAsEOF(c) ==
  /\ rpc[c] = "recv"
  /\ ctx[c] # "live" \/ (stream[c] = "empty" /\ remote[c] = "failed")
  /\ final' = [final EXCEPT ![c] = IF @ = "unset" THEN "applied" ELSE @]
  /\ ReceiverGoto(c, "signal")
  /\ UNCHANGED <<dbVars, handlerVars, lastError, retcode, remoteVars, historyVars>>

\* Any other error of Recv ends the receiver without a signal.
RecvError(c) ==
  /\ rpc[c] = "recv"
  /\ ctx[c] # "live" \/ (stream[c] = "empty" /\ remote[c] = "failed")
  /\ lastError' = [lastError EXCEPT ![c] = TRUE]
  /\ final' = IF c \in FleetCalls THEN [final EXCEPT ![c] = "error"] ELSE final
  /\ ReceiverGoto(c, "gone")
  /\ UNCHANGED <<dbVars, handlerVars, retcode, remoteVars, historyVars>>

------------------------------------------------------------------------------
(* The process and the control plane *)

\* The process ends: calls under way are lost, the rows stay.
Die ==
  /\ pc' = [c \in Calls |-> IF InProgress(c) THEN "lost" ELSE pc[c]]
  /\ rpc' = [c \in Calls |-> IF rpc[c] = "idle" THEN "idle" ELSE "gone"]
  /\ UNCHANGED <<dbVars, ctx, result, from, doneClosed, final, lastError, retcode,
                 remoteVars, historyVars>>

\* The receiver blocks on done, or reaches it, after the handler closed it.
SendOnClosedDone(c) == rpc[c] = "signal" /\ doneClosed[c] /\ Die

Kill == "kill" \in Faults /\ (\E c \in Calls : InProgress(c)) /\ Die

\* The update streams a state, "other" when it is one that the service does not
\* translate, and ends: one that failed on a node says so before it ends.  It goes
\* on without the caller, but what nobody reads any more is left out.
RemoteSays(c) ==
  /\ remote[c] = "running" /\ stream[c] = "empty" /\ rpc[c] # "gone"
  /\ \/ \E st \in {"progress", "applied", "other"} :
          /\ stream' = [stream EXCEPT ![c] = st]
          /\ remote' = IF st = "applied" THEN [remote EXCEPT ![c] = "applied"] ELSE remote
     \/ /\ "update" \in Faults
        /\ stream' = [stream EXCEPT ![c] = "error"] /\ remote' = [remote EXCEPT ![c] = "erring"]
  /\ UNCHANGED <<dbVars, handlerVars, receiverVars, historyVars>>

\* UpdateFleet ends well only after it announced APPLIED; UpdateNode also ends
\* without an error after it passed on the node's error.
RemoteEnds(c) ==
  /\ rpc[c] # "gone"
  /\ \/ /\ remote[c] = "applied" \/ (remote[c] = "erring" /\ c \in NodeCalls)
        /\ remote' = [remote EXCEPT ![c] = "ok"]
     \/ /\ "update" \in Faults /\ remote[c] \in {"running", "applied", "erring"}
        /\ remote' = [remote EXCEPT ![c] = "failed"]
  /\ UNCHANGED <<dbVars, handlerVars, receiverVars, stream, historyVars>>

------------------------------------------------------------------------------
Handler(c) ==
  \/ Query(c) \/ CreateTransaction(c) \/ SelectActive(c) \/ CreateVersionTransition(c)
  \/ StartUpdate(c) \/ DoneReceived(c) \/ ContextEnded(c) \/ CompleteTransaction(c)
  \/ RevokeOld(c) \/ SetNew(c) \/ Finish(c)

Receiver(c) ==
  \/ ReceiverTop(c) \/ FleetResponse(c) \/ NodeResponse(c) \/ ReceiverComplete(c)
  \/ RecvEOF(c) \/ RecvError(c) \/ SendOnClosedDone(c)

Call(c) ==
  \/ Begin(c) \/ Handler(c) \/ Receiver(c)
  \/ Deadline(c) \/ CallerCancels(c) \/ RemoteSays(c) \/ RemoteEnds(c)

\* Every call has been made and has ended.
Ended == \A c \in Calls : pc[c] \in {"returned", "lost"} /\ rpc[c] \in {"idle", "gone"}

Next ==
  \/ \E c \in Calls : Call(c)
  \/ Kill
  \/ Ended /\ UNCHANGED vars

Spec == Init /\ [][Next]_vars

\* Goroutines run when they can and the deadline of each call comes.
FairSpec ==
  /\ Spec
  /\ \A c \in Calls : WF_vars(Handler(c)) /\ WF_vars(Receiver(c)) /\ WF_vars(Deadline(c))

------------------------------------------------------------------------------
(* Properties *)

\* Types of the variables (the rows, the handlers' locals, the streams).
TypeOK ==
  /\ row \in [Rows -> {"absent", "pending", "active", "failed", "disabled"}]
  /\ txn \in [Calls -> {"absent", "open", "completed"}]
  /\ logged \in [NodeCalls -> SUBSET {"progress", "applied", "error"}]
  /\ pc \in [Calls -> {"idle", "query", "createTx", "select", "insert", "connect", "wait",
                       "complete", "revoke", "setNew", "return", "returned", "lost"}]
  /\ ctx \in [Calls -> {"live", "deadline", "cancelled"}]
  /\ result \in [Calls -> {"none", "ok", "failed", "error", "deadline", "cancelled"}]
  /\ from \in [Calls -> Rows \cup {None}]
  /\ doneClosed \in [Calls -> BOOLEAN]
  /\ rpc \in [Calls -> {"idle", "top", "recv", "completeTx", "signal", "gone"}]
  /\ final \in [Calls -> {"unset", "applied", "error"}]
  /\ lastError \in [Calls -> BOOLEAN] /\ retcode \in [Calls -> {0, 1}]
  /\ remote \in [Calls -> {"idle", "running", "applied", "erring", "ok", "failed"}]
  /\ stream \in [Calls -> {"empty", "progress", "applied", "error", "other"}]
  /\ overlapped \in BOOLEAN /\ dbFailed \in BOOLEAN

\* A transition becomes active only if the control plane ended its update
\* without an error: not on the word of a receiver that lost the stream, nor
\* of one cut off by the deadline.
ActiveMeansDeployed ==
  \A c \in VersionCalls : row[c] = "active" => remote[c] = "ok"

\* A transition is revoked only by the call that found it active and whose own
\* update was deployed; that call's row survives it, even if the process dies
\* between the two writes.
RevokedOnlyByDeployed ==
  \A r \in Rows : row[r] = "disabled" =>
    \E c \in VersionCalls : /\ from[c] = r /\ remote[c] = "ok"
                          /\ row[c] \in {"pending", "active", "disabled"}

\* Once a version was active, the only reason for none to be active is an update
\* that was deployed and whose own row is not yet, or never, written.
GapMeansUnrecorded ==
  row[Base] # "absent" /\ (\A r \in Rows : row[r] # "active")
    => \E c \in VersionCalls : remote[c] = "ok" /\ row[c] = "pending"

\* As long as activations do not overlap and no statement fails under a live
\* context, at most one transition is active, whatever deadlines, hang-ups and
\* restarts cut short.
OneActive == \A r, s \in Rows : row[r] = "active" /\ row[s] = "active" => r = s
OneActiveInOrder == ~overlapped /\ ~dbFailed => OneActive

\* What a caller is told happened: an activation of a fleet that answers success
\* was deployed; one of a node is on record, with its state and its end.
SuccessIsBacked ==
  \A c \in Calls : result[c] = "ok" =>
    IF c \in FleetCalls THEN remote[c] = "ok"
                        ELSE "applied" \in logged[c] /\ txn[c] = "completed"

\* A transition only moves from pending to its end, and from active to disabled:
\* a call that ends late never revives what another call replaced.
StatusMoves ==
  [][\A r \in Rows : row'[r] # row[r] =>
       <<row[r], row'[r]>> \in {<<"absent", "pending">>, <<"pending", "active">>,
                               <<"pending", "failed">>, <<"active", "disabled">>}]_vars

\* Every call that waits for its update is answered, although the receiver
\* leaves most of its error paths without a signal.
EveryCallAnswered ==
  \A c \in Calls : pc[c] = "wait" ~> pc[c] \in {"returned", "lost"}

\* No receiver outlives its call for ever.
ReceiversEnd == \A c \in Calls : rpc[c] # "idle" ~> rpc[c] = "gone"

==============================================================================
