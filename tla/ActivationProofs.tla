--------------------------- MODULE ActivationProofs ---------------------------
(***************************************************************************)
(* Proofs about Activation, for any number of calls and any set of faults. *)
(***************************************************************************)
EXTENDS Activation, TLAPS

USE DEF dbVars, handlerVars, receiverVars, remoteVars, historyVars

(* Type correctness *)

\* A statement leaves the history variable in its type.
LEMMA StatementTypes ==
  ASSUME NEW c \in Calls, dbFailed \in BOOLEAN
  PROVE  Succeeds(c) \/ FailsNow(c) => dbFailed' \in BOOLEAN
BY Zenon DEF Succeeds, FailsNow

\* So does a receiver that may note an error.
LEMMA LastErrorTypes ==
  ASSUME NEW c \in Calls, lastError \in [Calls -> BOOLEAN],
         UNCHANGED lastError \/ lastError' = [lastError EXCEPT ![c] = TRUE]
  PROVE  lastError' \in [Calls -> BOOLEAN]
OBVIOUS

\* A step of a call keeps every variable in its type.
LEMMA CallKeepsTypes ==
  ASSUME TypeOK, NEW c \in Calls, Call(c)
  PROVE  TypeOK'
<1> USE CallsAssumption, StatementTypes DEF TypeOK, Calls, FleetCalls, Rows
<1>1. CASE Begin(c)
  BY <1>1 DEF Begin, Goto, Return, ReceiverGoto, SetStatus,
     LogTransactionFailure, Log, LogFails, FleetResult, Die, InProgress
<1>2. CASE Query(c)
  BY <1>2 DEF Query, Goto, Return, ReceiverGoto, SetStatus,
     LogTransactionFailure, Log, LogFails, FleetResult, Die, InProgress
<1>3. CASE CreateTransaction(c)
  BY <1>3 DEF CreateTransaction, Goto, Return, ReceiverGoto, SetStatus,
     LogTransactionFailure, Log, LogFails, FleetResult, Die, InProgress
<1>4. CASE SelectActive(c)
  BY <1>4 DEF SelectActive, Goto, Return, ReceiverGoto, SetStatus,
     LogTransactionFailure, Log, LogFails, FleetResult, Die, InProgress
<1>5. CASE CreateVersionTransition(c)
  BY <1>5 DEF CreateVersionTransition, Goto, Return, ReceiverGoto, SetStatus,
     LogTransactionFailure, Log, LogFails, FleetResult, Die, InProgress
<1>6. CASE StartUpdate(c)
  BY <1>6 DEF StartUpdate, Goto, Return, ReceiverGoto, SetStatus,
     LogTransactionFailure, Log, LogFails, FleetResult, Die, InProgress
<1>7. CASE DoneReceived(c)
  BY <1>7 DEF DoneReceived, Goto, Return, ReceiverGoto, SetStatus,
     LogTransactionFailure, Log, LogFails, FleetResult, Die, InProgress
<1>8. CASE ContextEnded(c)
  BY <1>8 DEF ContextEnded, Goto, Return, ReceiverGoto, SetStatus,
     LogTransactionFailure, Log, LogFails, FleetResult, Die, InProgress
<1>9. CASE CompleteTransaction(c)
  BY <1>9 DEF CompleteTransaction, Goto, Return, ReceiverGoto, SetStatus,
     LogTransactionFailure, Log, LogFails, FleetResult, Die, InProgress
<1>10. CASE RevokeOld(c)
  BY <1>10 DEF RevokeOld, Goto, Return, ReceiverGoto, SetStatus,
     LogTransactionFailure, Log, LogFails, FleetResult, Die, InProgress
<1>11. CASE SetNew(c)
  BY <1>11 DEF SetNew, Goto, Return, ReceiverGoto, SetStatus,
     LogTransactionFailure, Log, LogFails, FleetResult, Die, InProgress
<1>12. CASE Finish(c)
  BY <1>12 DEF Finish, Goto, Return, ReceiverGoto, SetStatus,
     LogTransactionFailure, Log, LogFails, FleetResult, Die, InProgress
<1>13. CASE Deadline(c)
  BY <1>13 DEF Deadline, Goto, Return, ReceiverGoto, SetStatus,
     LogTransactionFailure, Log, LogFails, FleetResult, Die, InProgress
<1>14. CASE CallerCancels(c)
  BY <1>14 DEF CallerCancels, Goto, Return, ReceiverGoto, SetStatus,
     LogTransactionFailure, Log, LogFails, FleetResult, Die, InProgress
<1>15. CASE ReceiverTop(c)
  BY <1>15 DEF ReceiverTop, Goto, Return, ReceiverGoto, SetStatus,
     LogTransactionFailure, Log, LogFails, FleetResult, Die, InProgress
<1>16. CASE FleetResponse(c)
  BY <1>16 DEF FleetResponse, Goto, Return, ReceiverGoto, SetStatus,
     LogTransactionFailure, Log, LogFails, FleetResult, Die, InProgress
<1>17. CASE NodeResponse(c)
  <2>1. lastError' \in [Calls -> BOOLEAN]
    BY <1>17, LastErrorTypes DEF NodeResponse
  <2>2. logged' \in [NodeCalls -> SUBSET {"progress", "applied", "error"}]
    BY <1>17 DEF NodeResponse, Log, LogFails
  <2>3. dbFailed' \in BOOLEAN
    BY <1>17 DEF NodeResponse, Log, LogFails
  <2>4. QED
    BY <1>17, <2>1, <2>2, <2>3 DEF NodeResponse, ReceiverGoto
<1>18. CASE ReceiverComplete(c)
  <2>1. lastError' \in [Calls -> BOOLEAN]
    BY <1>18, LastErrorTypes DEF ReceiverComplete
  <2>2. dbFailed' \in BOOLEAN
    BY <1>18 DEF ReceiverComplete
  <2>3. QED
    BY <1>18, <2>1, <2>2 DEF ReceiverComplete, ReceiverGoto
<1>19. CASE RecvEOF(c)
  BY <1>19 DEF RecvEOF, Goto, Return, ReceiverGoto, SetStatus,
     LogTransactionFailure, Log, LogFails, FleetResult, Die, InProgress
<1>20. CASE RecvError(c)
  BY <1>20 DEF RecvError, Goto, Return, ReceiverGoto, SetStatus,
     LogTransactionFailure, Log, LogFails, FleetResult, Die, InProgress
<1>21. CASE SendOnClosedDone(c)
  BY <1>21 DEF SendOnClosedDone, Goto, Return, ReceiverGoto, SetStatus,
     LogTransactionFailure, Log, LogFails, FleetResult, Die, InProgress
<1>22. CASE RemoteSays(c)
  BY <1>22 DEF RemoteSays, Goto, Return, ReceiverGoto, SetStatus,
     LogTransactionFailure, Log, LogFails, FleetResult, Die, InProgress
<1>23. CASE RemoteEnds(c)
  BY <1>23 DEF RemoteEnds, Goto, Return, ReceiverGoto, SetStatus,
     LogTransactionFailure, Log, LogFails, FleetResult, Die, InProgress
<1> QED
  BY <1>1, <1>2, <1>3, <1>4, <1>5, <1>6, <1>7, <1>8, <1>9, <1>10, <1>11, <1>12,
     <1>13, <1>14, <1>15, <1>16, <1>17, <1>18, <1>19, <1>20, <1>21, <1>22, <1>23 DEF Call, Handler, Receiver
------------------------------------------------------------------------------
(* The inductive invariant.  UpdateInv follows one call: what its receiver and *)
(* its handler hold is backed by how its update stands.  RowInv ties the rows  *)
(* to the calls; OrderInv is about activations that come one after another.    *)
(* GapMeansUnrecorded is inductive beside them.                              *)

Early        == {"idle", "query", "createTx", "select", "insert", "connect"}
BeforeInsert == {"idle", "query", "createTx", "select", "insert"}
Updating     == {"connect", "wait", "complete", "revoke", "setNew"}
Recording    == {"complete", "revoke", "setNew"}

\* Nothing of an update is there before it starts, and a state that counts as
\* applied is one of an update that ended without an error.
FleetUpdateInv ==
  \A c \in Calls :
    /\ pc[c] \in Early => remote[c] = "idle" /\ rpc[c] = "idle" /\ result[c] = "none"
    /\ final[c] = "applied" => remote[c] = "ok"
    /\ c \in FleetCalls /\ rpc[c] \in {"idle", "top", "recv"} => final[c] = "unset"
    /\ c \in FleetCalls /\ rpc[c] = "signal" => final[c] = "applied"
    /\ rpc[c] = "completeTx" => c \in NodeCalls
    /\ pc[c] \in Recording => c \in FleetCalls /\ rpc[c] = "gone" /\ final[c] = "applied"
    /\ c \in FleetCalls /\ result[c] = "ok" => remote[c] = "ok"

\* What an activation of a node may answer is on record.
NodeUpdateInv ==
  \A c \in NodeCalls :
    /\ rpc[c] \in {"completeTx", "signal"} /\ retcode[c] = 0 => "applied" \in logged[c]
    /\ rpc[c] = "signal" /\ ~lastError[c] => txn[c] = "completed"
    /\ result[c] = "ok" => "applied" \in logged[c] /\ txn[c] = "completed"
    /\ pc[c] \in Early => rpc[c] = "idle" /\ result[c] = "none"

\* The row of a call is there from its insertion, pending until its handler ends;
\* the transition a call replaces was active and only that can end.
RowInv ==
  /\ \A c \in Calls : pc[c] \in {"select", "insert", "revoke", "setNew"} => c \in VersionCalls
  /\ \A c \in VersionCalls :
       /\ pc[c] \in BeforeInsert => row[c] = "absent"
       /\ pc[c] \in Updating => row[c] = "pending"
       /\ from[c] # None => row[from[c]] \in {"active", "disabled"}
  /\ ActiveMeansDeployed
  /\ RevokedOnlyByDeployed

\* A call that is alone knows the transition that is active.
OneAtATime == \A c, d \in Calls : InProgress(c) /\ InProgress(d) => c = d

ActiveIsKnown ==
  /\ OneActive
  /\ \A c \in VersionCalls : ctx[c] = "live" =>
       /\ pc[c] \in {"insert", "connect", "wait", "complete", "revoke"} =>
            \A r \in Rows : row[r] = "active" => r = from[c]
       /\ pc[c] = "setNew" => \A r \in Rows : row[r] # "active"

AloneInv == ~overlapped => OneAtATime
OrderInv == ~overlapped /\ ~dbFailed => ActiveIsKnown

IInv ==
  FleetUpdateInv /\ NodeUpdateInv /\ RowInv /\ AloneInv /\ OrderInv /\ GapMeansUnrecorded

\* A step of a call keeps FleetUpdateInv.
LEMMA CallKeepsFleetUpdateInv ==
  ASSUME TypeOK, FleetUpdateInv,
         NEW c \in Calls, Call(c)
  PROVE  FleetUpdateInv'
<1> USE CallsAssumption DEF TypeOK, FleetUpdateInv, Calls, FleetCalls, Early, Recording
<1>1. CASE Begin(c)
  BY <1>1 DEF Begin, Goto
<1>2. CASE Query(c)
  BY <1>2 DEF Query, Goto, Return
<1>3. CASE CreateTransaction(c)
  BY <1>3 DEF CreateTransaction, Goto, Return
<1>4. CASE SelectActive(c)
  BY <1>4 DEF SelectActive, Goto
<1>5. CASE CreateVersionTransition(c)
  BY <1>5 DEF CreateVersionTransition, Goto, Return, SetStatus
<1>6. CASE StartUpdate(c)
  BY <1>6 DEF StartUpdate, Goto, Return, LogTransactionFailure
<1>7. CASE DoneReceived(c)
  BY <1>7 DEF DoneReceived, Goto, Return
<1>8. CASE ContextEnded(c)
  BY <1>8 DEF ContextEnded, Goto, Return, LogTransactionFailure
<1>9. CASE CompleteTransaction(c)
  BY <1>9 DEF CompleteTransaction, Goto, Return, FleetResult
<1>10. CASE RevokeOld(c)
  BY <1>10 DEF RevokeOld, Goto, SetStatus
<1>11. CASE SetNew(c)
  BY <1>11 DEF SetNew, Goto, Return, SetStatus, FleetResult
<1>12. CASE Finish(c)
  BY <1>12 DEF Finish, Goto
<1>13. CASE Deadline(c)
  BY <1>13 DEF Deadline
<1>14. CASE CallerCancels(c)
  BY <1>14 DEF CallerCancels
<1>15. CASE ReceiverTop(c)
  BY <1>15 DEF ReceiverTop, ReceiverGoto
<1>16. CASE FleetResponse(c)
  BY <1>16 DEF FleetResponse, ReceiverGoto
<1>17. CASE NodeResponse(c)
  BY <1>17 DEF NodeResponse, ReceiverGoto, Log, LogFails
<1>18. CASE ReceiverComplete(c)
  BY <1>18 DEF ReceiverComplete, ReceiverGoto
<1>19. CASE RecvEOF(c)
  BY <1>19 DEF RecvEOF, ReceiverGoto
<1>20. CASE RecvError(c)
  BY <1>20 DEF RecvError, ReceiverGoto
<1>21. CASE SendOnClosedDone(c)
  BY <1>21 DEF SendOnClosedDone, Die, InProgress
<1>22. CASE RemoteSays(c)
  BY <1>22 DEF RemoteSays
<1>23. CASE RemoteEnds(c)
  BY <1>23 DEF RemoteEnds
<1> QED
  BY <1>1, <1>2, <1>3, <1>4, <1>5, <1>6, <1>7, <1>8, <1>9, <1>10, <1>11, <1>12,
     <1>13, <1>14, <1>15, <1>16, <1>17, <1>18, <1>19, <1>20, <1>21, <1>22, <1>23 DEF Call, Handler, Receiver

\* A step of a call keeps NodeUpdateInv.
LEMMA CallKeepsNodeUpdateInv ==
  ASSUME TypeOK, FleetUpdateInv, NodeUpdateInv,
         NEW c \in Calls, Call(c)
  PROVE  NodeUpdateInv'
<1> USE CallsAssumption DEF TypeOK, FleetUpdateInv, NodeUpdateInv, Calls, FleetCalls,
        Early, Recording
<1>1. CASE Begin(c)
  BY <1>1 DEF Begin, Goto
<1>2. CASE Query(c)
  BY <1>2 DEF Query, Goto, Return
<1>3. CASE CreateTransaction(c)
  BY <1>3 DEF CreateTransaction, Goto, Return
<1>4. CASE SelectActive(c)
  BY <1>4 DEF SelectActive, Goto
<1>5. CASE CreateVersionTransition(c)
  BY <1>5 DEF CreateVersionTransition, Goto, Return, SetStatus
<1>6. CASE StartUpdate(c)
  BY <1>6 DEF StartUpdate, Goto, Return, LogTransactionFailure
<1>7. CASE DoneReceived(c)
  BY <1>7 DEF DoneReceived, Goto, Return
<1>8. CASE ContextEnded(c)
  BY <1>8 DEF ContextEnded, Goto, Return, LogTransactionFailure
<1>9. CASE CompleteTransaction(c)
  BY <1>9 DEF CompleteTransaction, Goto, Return, FleetResult
<1>10. CASE RevokeOld(c)
  BY <1>10 DEF RevokeOld, Goto, SetStatus
<1>11. CASE SetNew(c)
  BY <1>11 DEF SetNew, Goto, Return, SetStatus, FleetResult
<1>12. CASE Finish(c)
  BY <1>12 DEF Finish, Goto
<1>13. CASE Deadline(c)
  BY <1>13 DEF Deadline
<1>14. CASE CallerCancels(c)
  BY <1>14 DEF CallerCancels
<1>15. CASE ReceiverTop(c)
  BY <1>15 DEF ReceiverTop, ReceiverGoto
<1>16. CASE FleetResponse(c)
  BY <1>16 DEF FleetResponse, ReceiverGoto
<1>17. CASE NodeResponse(c)
  BY <1>17 DEF NodeResponse, ReceiverGoto, Log, LogFails
<1>18. CASE ReceiverComplete(c)
  <2>1. \/ txn' = [txn EXCEPT ![c] = "completed"] /\ UNCHANGED lastError
        \/ lastError' = [lastError EXCEPT ![c] = TRUE] /\ UNCHANGED txn
    BY <1>18 DEF ReceiverComplete
  <2>2. \A n \in NodeCalls : rpc'[n] = "signal" /\ ~lastError'[n] => txn'[n] = "completed"
    BY <1>18, <2>1 DEF ReceiverComplete, ReceiverGoto
  <2>3. \A n \in NodeCalls : txn[n] = "completed" => txn'[n] = "completed"
    BY <2>1
  <2>4. QED
    BY <1>18, <2>2, <2>3 DEF ReceiverComplete, ReceiverGoto
<1>19. CASE RecvEOF(c)
  BY <1>19 DEF RecvEOF, ReceiverGoto
<1>20. CASE RecvError(c)
  BY <1>20 DEF RecvError, ReceiverGoto
<1>21. CASE SendOnClosedDone(c)
  BY <1>21 DEF SendOnClosedDone, Die, InProgress
<1>22. CASE RemoteSays(c)
  BY <1>22 DEF RemoteSays
<1>23. CASE RemoteEnds(c)
  BY <1>23 DEF RemoteEnds
<1> QED
  BY <1>1, <1>2, <1>3, <1>4, <1>5, <1>6, <1>7, <1>8, <1>9, <1>10, <1>11, <1>12,
     <1>13, <1>14, <1>15, <1>16, <1>17, <1>18, <1>19, <1>20, <1>21, <1>22, <1>23 DEF Call, Handler, Receiver

\* A step of a call keeps RowInv.
LEMMA CallKeepsRowInv ==
  ASSUME TypeOK, FleetUpdateInv, RowInv,
         NEW c \in Calls, Call(c)
  PROVE  RowInv'
<1> USE CallsAssumption DEF TypeOK, FleetUpdateInv, RowInv, ActiveMeansDeployed,
        RevokedOnlyByDeployed,
        Calls, FleetCalls, Rows, Early, BeforeInsert, Updating, Recording
<1>1. CASE Begin(c)
  BY <1>1 DEF Begin, Goto
<1>2. CASE Query(c)
  BY <1>2 DEF Query, Goto, Return
<1>3. CASE CreateTransaction(c)
  BY <1>3 DEF CreateTransaction, Goto, Return
<1>4. CASE SelectActive(c)
  BY <1>4 DEF SelectActive, Goto
<1>5. CASE CreateVersionTransition(c)
  BY <1>5 DEF CreateVersionTransition, Goto, Return, SetStatus
<1>6. CASE StartUpdate(c)
  BY <1>6 DEF StartUpdate, Goto, Return, LogTransactionFailure
<1>7. CASE DoneReceived(c)
  BY <1>7 DEF DoneReceived, Goto, Return
<1>8. CASE ContextEnded(c)
  BY <1>8 DEF ContextEnded, Goto, Return, LogTransactionFailure
<1>9. CASE CompleteTransaction(c)
  BY <1>9 DEF CompleteTransaction, Goto, Return, FleetResult
<1>10. CASE RevokeOld(c)
  <2> USE <1>10 DEF RevokeOld, Goto
  <2>1. c \in VersionCalls /\ remote[c] = "ok" /\ row[c] = "pending"
    OBVIOUS
  <2>2. CASE UNCHANGED row
    BY <2>1, <2>2
  <2>3. CASE from[c] # None /\ SetStatus(from[c], "disabled")
    <3> DEFINE old == from[c]
    <3>1. old \in Rows /\ old # c /\ row[old] \in {"active", "disabled"}
      BY <2>1, <2>3
    <3>2. /\ row'[old] = "disabled"
          /\ \A r \in Rows : r # old => row'[r] = row[r]
      BY <3>1, <2>3 DEF SetStatus
    <3>3. RevokedOnlyByDeployed'
      BY <2>1, <3>1, <3>2
    <3>4. ActiveMeansDeployed'
      BY <3>1, <3>2
    <3>5. QED
      BY <2>1, <3>1, <3>2, <3>3, <3>4
  <2>4. QED
    BY <2>2, <2>3
<1>11. CASE SetNew(c)
  BY <1>11 DEF SetNew, Goto, Return, SetStatus, FleetResult
<1>12. CASE Finish(c)
  BY <1>12 DEF Finish, Goto
<1>13. CASE Deadline(c)
  BY <1>13 DEF Deadline
<1>14. CASE CallerCancels(c)
  BY <1>14 DEF CallerCancels
<1>15. CASE ReceiverTop(c)
  BY <1>15 DEF ReceiverTop, ReceiverGoto
<1>16. CASE FleetResponse(c)
  BY <1>16 DEF FleetResponse, ReceiverGoto
<1>17. CASE NodeResponse(c)
  BY <1>17 DEF NodeResponse, ReceiverGoto, Log, LogFails
<1>18. CASE ReceiverComplete(c)
  BY <1>18 DEF ReceiverComplete, ReceiverGoto
<1>19. CASE RecvEOF(c)
  BY <1>19 DEF RecvEOF, ReceiverGoto
<1>20. CASE RecvError(c)
  BY <1>20 DEF RecvError, ReceiverGoto
<1>21. CASE SendOnClosedDone(c)
  BY <1>21 DEF SendOnClosedDone, Die, InProgress
<1>22. CASE RemoteSays(c)
  BY <1>22 DEF RemoteSays
<1>23. CASE RemoteEnds(c)
  BY <1>23 DEF RemoteEnds
<1> QED
  BY <1>1, <1>2, <1>3, <1>4, <1>5, <1>6, <1>7, <1>8, <1>9, <1>10, <1>11, <1>12,
     <1>13, <1>14, <1>15, <1>16, <1>17, <1>18, <1>19, <1>20, <1>21, <1>22, <1>23 DEF Call, Handler, Receiver

\* A step of a call moves rows as StatusMoves says.
LEMMA CallMovesStatus ==
  ASSUME TypeOK, FleetUpdateInv, RowInv,
         NEW c \in Calls, Call(c)
  PROVE  \A r \in Rows : row'[r] # row[r] =>
           <<row[r], row'[r]>> \in {<<"absent", "pending">>, <<"pending", "active">>,
                                   <<"pending", "failed">>, <<"active", "disabled">>}
<1> USE CallsAssumption DEF TypeOK, FleetUpdateInv, RowInv, Calls, FleetCalls, Rows,
        BeforeInsert, Updating
<1>1. CASE Begin(c)
  BY <1>1 DEF Begin, Goto
<1>2. CASE Query(c)
  BY <1>2 DEF Query, Goto, Return
<1>3. CASE CreateTransaction(c)
  BY <1>3 DEF CreateTransaction, Goto, Return
<1>4. CASE SelectActive(c)
  BY <1>4 DEF SelectActive, Goto
<1>5. CASE CreateVersionTransition(c)
  BY <1>5 DEF CreateVersionTransition, Goto, Return, SetStatus
<1>6. CASE StartUpdate(c)
  BY <1>6 DEF StartUpdate, Goto, Return, LogTransactionFailure
<1>7. CASE DoneReceived(c)
  BY <1>7 DEF DoneReceived, Goto, Return
<1>8. CASE ContextEnded(c)
  BY <1>8 DEF ContextEnded, Goto, Return, LogTransactionFailure
<1>9. CASE CompleteTransaction(c)
  BY <1>9 DEF CompleteTransaction, Goto, Return, FleetResult
<1>10. CASE RevokeOld(c)
  BY <1>10 DEF RevokeOld, Goto, SetStatus
<1>11. CASE SetNew(c)
  BY <1>11 DEF SetNew, Goto, Return, SetStatus, FleetResult
<1>12. CASE Finish(c)
  BY <1>12 DEF Finish, Goto
<1>13. CASE Deadline(c)
  BY <1>13 DEF Deadline
<1>14. CASE CallerCancels(c)
  BY <1>14 DEF CallerCancels
<1>15. CASE ReceiverTop(c)
  BY <1>15 DEF ReceiverTop, ReceiverGoto
<1>16. CASE FleetResponse(c)
  BY <1>16 DEF FleetResponse, ReceiverGoto
<1>17. CASE NodeResponse(c)
  BY <1>17 DEF NodeResponse, ReceiverGoto, Log, LogFails
<1>18. CASE ReceiverComplete(c)
  BY <1>18 DEF ReceiverComplete, ReceiverGoto
<1>19. CASE RecvEOF(c)
  BY <1>19 DEF RecvEOF, ReceiverGoto
<1>20. CASE RecvError(c)
  BY <1>20 DEF RecvError, ReceiverGoto
<1>21. CASE SendOnClosedDone(c)
  BY <1>21 DEF SendOnClosedDone, Die, InProgress
<1>22. CASE RemoteSays(c)
  BY <1>22 DEF RemoteSays
<1>23. CASE RemoteEnds(c)
  BY <1>23 DEF RemoteEnds
<1> QED
  BY <1>1, <1>2, <1>3, <1>4, <1>5, <1>6, <1>7, <1>8, <1>9, <1>10, <1>11, <1>12,
     <1>13, <1>14, <1>15, <1>16, <1>17, <1>18, <1>19, <1>20, <1>21, <1>22, <1>23 DEF Call, Handler, Receiver

\* A step of a call keeps AloneInv.
LEMMA CallKeepsAloneInv ==
  ASSUME TypeOK, AloneInv,
         NEW c \in Calls, Call(c)
  PROVE  AloneInv'
<1> USE DEF TypeOK, AloneInv, OneAtATime, InProgress, Calls, FleetCalls
<1>1. CASE Begin(c)
  BY <1>1 DEF Begin, Goto
<1>2. CASE Query(c)
  BY <1>2 DEF Query, Goto, Return
<1>3. CASE CreateTransaction(c)
  BY <1>3 DEF CreateTransaction, Goto, Return
<1>4. CASE SelectActive(c)
  BY <1>4 DEF SelectActive, Goto
<1>5. CASE CreateVersionTransition(c)
  BY <1>5 DEF CreateVersionTransition, Goto, Return, SetStatus
<1>6. CASE StartUpdate(c)
  BY <1>6 DEF StartUpdate, Goto, Return, LogTransactionFailure
<1>7. CASE DoneReceived(c)
  BY <1>7 DEF DoneReceived, Goto, Return
<1>8. CASE ContextEnded(c)
  BY <1>8 DEF ContextEnded, Goto, Return, LogTransactionFailure
<1>9. CASE CompleteTransaction(c)
  BY <1>9 DEF CompleteTransaction, Goto, Return, FleetResult
<1>10. CASE RevokeOld(c)
  BY <1>10 DEF RevokeOld, Goto, SetStatus
<1>11. CASE SetNew(c)
  BY <1>11 DEF SetNew, Goto, Return, SetStatus, FleetResult
<1>12. CASE Finish(c)
  BY <1>12 DEF Finish, Goto
<1>13. CASE Deadline(c)
  BY <1>13 DEF Deadline
<1>14. CASE CallerCancels(c)
  BY <1>14 DEF CallerCancels
<1>15. CASE ReceiverTop(c)
  BY <1>15 DEF ReceiverTop, ReceiverGoto
<1>16. CASE FleetResponse(c)
  BY <1>16 DEF FleetResponse, ReceiverGoto
<1>17. CASE NodeResponse(c)
  BY <1>17 DEF NodeResponse, ReceiverGoto, Log, LogFails
<1>18. CASE ReceiverComplete(c)
  BY <1>18 DEF ReceiverComplete, ReceiverGoto
<1>19. CASE RecvEOF(c)
  BY <1>19 DEF RecvEOF, ReceiverGoto
<1>20. CASE RecvError(c)
  BY <1>20 DEF RecvError, ReceiverGoto
<1>21. CASE SendOnClosedDone(c)
  BY <1>21 DEF SendOnClosedDone, Die, InProgress
<1>22. CASE RemoteSays(c)
  BY <1>22 DEF RemoteSays
<1>23. CASE RemoteEnds(c)
  BY <1>23 DEF RemoteEnds
<1> QED
  BY <1>1, <1>2, <1>3, <1>4, <1>5, <1>6, <1>7, <1>8, <1>9, <1>10, <1>11, <1>12,
     <1>13, <1>14, <1>15, <1>16, <1>17, <1>18, <1>19, <1>20, <1>21, <1>22, <1>23 DEF Call, Handler, Receiver

\* While no statement failed under a live context, one fails only under one that
\* has ended.
LEMMA StatementOutcome ==
  ASSUME NEW c \in Calls, ~dbFailed'
  PROVE  /\ Succeeds(c) => ctx[c] = "live" /\ ~dbFailed
         /\ FailsNow(c) => ctx[c] # "live" /\ ~dbFailed
BY SMT DEF Succeeds, FailsNow

\* A step of a call keeps OrderInv.
LEMMA CallKeepsOrderInv ==
  ASSUME TypeOK, FleetUpdateInv, RowInv, AloneInv, OrderInv,
         NEW c \in Calls, Call(c)
  PROVE  OrderInv'
<1> SUFFICES ASSUME ~overlapped', ~dbFailed'
             PROVE  ActiveIsKnown'
  BY DEF OrderInv
<1> USE CallsAssumption, StatementOutcome DEF TypeOK, FleetUpdateInv, RowInv, AloneInv,
        OrderInv, OneAtATime,
        ActiveIsKnown, OneActive, InProgress, Calls, FleetCalls, Rows, BeforeInsert, Updating, Recording
<1>1. CASE Begin(c)
  BY <1>1 DEF Begin, Goto
<1>2. CASE Query(c)
  BY <1>2 DEF Query, Goto, Return
<1>3. CASE CreateTransaction(c)
  BY <1>3 DEF CreateTransaction, Goto, Return
<1>4. CASE SelectActive(c)
  BY <1>4 DEF SelectActive, Goto
<1>5. CASE CreateVersionTransition(c)
  BY <1>5 DEF CreateVersionTransition, Goto, Return, SetStatus
<1>6. CASE StartUpdate(c)
  BY <1>6 DEF StartUpdate, Goto, Return, LogTransactionFailure
<1>7. CASE DoneReceived(c)
  BY <1>7 DEF DoneReceived, Goto, Return
<1>8. CASE ContextEnded(c)
  BY <1>8 DEF ContextEnded, Goto, Return, LogTransactionFailure
<1>9. CASE CompleteTransaction(c)
  BY <1>9 DEF CompleteTransaction, Goto, Return, FleetResult
<1>10. CASE RevokeOld(c)
  BY <1>10, SMTT(30) DEF RevokeOld, Goto, SetStatus
<1>11. CASE SetNew(c)
  BY <1>11, SMTT(30) DEF SetNew, Goto, Return, SetStatus, FleetResult
<1>12. CASE Finish(c)
  BY <1>12 DEF Finish, Goto
<1>13. CASE Deadline(c)
  BY <1>13 DEF Deadline
<1>14. CASE CallerCancels(c)
  BY <1>14 DEF CallerCancels
<1>15. CASE ReceiverTop(c)
  BY <1>15 DEF ReceiverTop, ReceiverGoto
<1>16. CASE FleetResponse(c)
  BY <1>16 DEF FleetResponse, ReceiverGoto
<1>17. CASE NodeResponse(c)
  BY <1>17 DEF NodeResponse, ReceiverGoto, Log, LogFails
<1>18. CASE ReceiverComplete(c)
  BY <1>18 DEF ReceiverComplete, ReceiverGoto
<1>19. CASE RecvEOF(c)
  BY <1>19 DEF RecvEOF, ReceiverGoto
<1>20. CASE RecvError(c)
  BY <1>20 DEF RecvError, ReceiverGoto
<1>21. CASE SendOnClosedDone(c)
  BY <1>21 DEF SendOnClosedDone, Die, InProgress
<1>22. CASE RemoteSays(c)
  BY <1>22 DEF RemoteSays
<1>23. CASE RemoteEnds(c)
  BY <1>23 DEF RemoteEnds
<1> QED
  BY <1>1, <1>2, <1>3, <1>4, <1>5, <1>6, <1>7, <1>8, <1>9, <1>10, <1>11, <1>12,
     <1>13, <1>14, <1>15, <1>16, <1>17, <1>18, <1>19, <1>20, <1>21, <1>22, <1>23 DEF Call, Handler, Receiver

\* Three statements change the table of the transitions, and an update that ended
\* without an error has ended.
LEMMA RowFrame ==
  ASSUME TypeOK, FleetUpdateInv, NEW c \in Calls, Call(c)
  PROVE  /\ UNCHANGED row \/ CreateVersionTransition(c) \/ RevokeOld(c) \/ SetNew(c)
         /\ \A d \in Calls : remote[d] = "ok" => remote'[d] = "ok"
<1>1. UNCHANGED row \/ CreateVersionTransition(c) \/ RevokeOld(c) \/ SetNew(c)
  BY DEF Call, Handler, Receiver, Begin, Query, CreateTransaction, SelectActive, StartUpdate,
         DoneReceived, ContextEnded, CompleteTransaction, Finish, Deadline, CallerCancels,
         ReceiverTop, FleetResponse, NodeResponse, ReceiverComplete, RecvEOF, RecvError,
         SendOnClosedDone, Die, RemoteSays, RemoteEnds
<1>2. CASE UNCHANGED remote
  BY <1>1, <1>2
<1>3. CASE StartUpdate(c) \/ RemoteSays(c) \/ RemoteEnds(c)
  BY <1>1, <1>3 DEF StartUpdate, RemoteSays, RemoteEnds, TypeOK, FleetUpdateInv, Early
<1>4. QED
  BY <1>2, <1>3
  DEF Call, Handler, Receiver, Begin, Query, CreateTransaction, SelectActive,
      CreateVersionTransition, RevokeOld, SetNew,
      DoneReceived, ContextEnded, CompleteTransaction, Finish, Deadline, CallerCancels,
      ReceiverTop, FleetResponse, NodeResponse, ReceiverComplete, RecvEOF, RecvError,
      SendOnClosedDone, Die

\* A step of a call keeps GapMeansUnrecorded: the call that revokes the last active
\* transition leaves its own behind, pending, and that one becomes active or stays.
LEMMA CallKeepsGap ==
  ASSUME TypeOK, FleetUpdateInv, RowInv, GapMeansUnrecorded,
         NEW c \in Calls, Call(c)
  PROVE  GapMeansUnrecorded'
<1> USE DEF TypeOK, GapMeansUnrecorded, Calls, FleetCalls, Rows
<1>0. \A d \in Calls : remote[d] = "ok" => remote'[d] = "ok"
  BY RowFrame
<1>1. CASE UNCHANGED row
  BY <1>0, <1>1
<1>2. CASE CreateVersionTransition(c)
  <2>1. c \in VersionCalls /\ row[c] = "absent" /\ c # Base
    BY <1>2, CallsAssumption DEF CreateVersionTransition, RowInv, BeforeInsert
  <2>2. \A r \in Rows : r # c => row'[r] = row[r]
    BY <1>2 DEF CreateVersionTransition, SetStatus
  <2>3. QED
    BY <1>0, <2>1, <2>2
<1>3. CASE RevokeOld(c)
  <2>1. c \in VersionCalls /\ remote[c] = "ok" /\ row[c] = "pending"
    BY <1>3 DEF RevokeOld, FleetUpdateInv, RowInv, Updating, Recording
  <2>2. CASE UNCHANGED row
    BY <1>0, <2>2
  <2>3. CASE from[c] # None /\ SetStatus(from[c], "disabled")
    <3>1. from[c] \in Rows /\ from[c] # c
      BY <2>1, <2>3 DEF RowInv
    <3>2. row'[c] = "pending"
      BY <2>1, <2>3, <3>1 DEF SetStatus
    <3>3. QED
      BY <1>0, <2>1, <3>2
  <2>4. QED
    BY <1>3, <2>2, <2>3 DEF RevokeOld
<1>4. CASE SetNew(c)
  <2>1. c \in VersionCalls /\ final[c] = "applied"
    BY <1>4 DEF SetNew, FleetUpdateInv, RowInv, Recording
  <2>2. CASE UNCHANGED row
    BY <1>0, <2>2
  <2>3. CASE SetStatus(c, "active")
    BY <2>1, <2>3 DEF SetStatus
  <2>4. QED
    BY <1>4, <2>1, <2>2, <2>3 DEF SetNew
<1>5. QED
  BY <1>1, <1>2, <1>3, <1>4, RowFrame

------------------------------------------------------------------------------
(* The theorems *)

\* Nothing has been called yet.
LEMMA InitHolds == Init => TypeOK /\ IInv
<1> SUFFICES ASSUME Init PROVE TypeOK /\ IInv
  OBVIOUS
<1> USE CallsAssumption DEF Init, Calls, FleetCalls, Rows
<1>1. TypeOK
  BY DEF TypeOK
<1>2. FleetUpdateInv /\ NodeUpdateInv
  BY DEF FleetUpdateInv, NodeUpdateInv, Early, Recording
<1>3. RowInv
  BY DEF RowInv, ActiveMeansDeployed, RevokedOnlyByDeployed, BeforeInsert, Updating
<1>4. AloneInv /\ OrderInv
  BY DEF AloneInv, OneAtATime, OrderInv, ActiveIsKnown, OneActive, InProgress
<1>5. GapMeansUnrecorded
  BY DEF GapMeansUnrecorded
<1>6. QED
  BY <1>1, <1>2, <1>3, <1>4, <1>5 DEF IInv

\* The end of the process leaves the rows and calls behind that were there.
LEMMA DieKeepsInv ==
  ASSUME TypeOK, IInv, Die
  PROVE  TypeOK' /\ IInv'
<1> USE DEF Die, IInv, InProgress, Calls, FleetCalls, Rows
<1>1. TypeOK'
  BY DEF TypeOK
<1>2. FleetUpdateInv' /\ NodeUpdateInv'
  BY DEF TypeOK, FleetUpdateInv, NodeUpdateInv, Early, Recording
<1>3. RowInv'
  BY DEF TypeOK, RowInv, ActiveMeansDeployed, RevokedOnlyByDeployed, BeforeInsert, Updating
<1>4. AloneInv' /\ OrderInv'
  BY DEF TypeOK, AloneInv, OneAtATime, OrderInv, ActiveIsKnown, OneActive
<1>5. GapMeansUnrecorded'
  BY DEF GapMeansUnrecorded
<1>6. QED
  BY <1>1, <1>2, <1>3, <1>4, <1>5

\* A step that changes nothing keeps the invariant.
LEMMA StutterKeepsInv ==
  ASSUME TypeOK, IInv, UNCHANGED vars
  PROVE  TypeOK' /\ IInv'
<1> USE DEF vars, IInv, InProgress
<1>1. TypeOK'
  BY DEF TypeOK
<1>2. FleetUpdateInv' /\ NodeUpdateInv'
  BY DEF FleetUpdateInv, NodeUpdateInv
<1>3. RowInv'
  BY DEF RowInv, ActiveMeansDeployed, RevokedOnlyByDeployed
<1>4. AloneInv' /\ OrderInv'
  BY DEF AloneInv, OneAtATime, OrderInv, ActiveIsKnown, OneActive
<1>5. GapMeansUnrecorded'
  BY DEF GapMeansUnrecorded
<1>6. QED
  BY <1>1, <1>2, <1>3, <1>4, <1>5

\* The invariant is inductive.
LEMMA NextKeepsInv ==
  ASSUME TypeOK, IInv, [Next]_vars
  PROVE  TypeOK' /\ IInv'
<1>1. CASE \E c \in Calls : Call(c)
  <2> PICK c \in Calls : Call(c)
    BY <1>1
  <2>1. TypeOK'
    BY CallKeepsTypes
  <2>2. FleetUpdateInv' /\ NodeUpdateInv'
    BY CallKeepsFleetUpdateInv, CallKeepsNodeUpdateInv DEF IInv
  <2>3. RowInv'
    BY CallKeepsRowInv DEF IInv
  <2>4. AloneInv' /\ OrderInv'
    BY CallKeepsAloneInv, CallKeepsOrderInv DEF IInv
  <2>5. GapMeansUnrecorded'
    BY CallKeepsGap DEF IInv
  <2>6. QED
    BY <2>1, <2>2, <2>3, <2>4, <2>5 DEF IInv
<1>2. CASE Kill
  BY <1>2, DieKeepsInv DEF Kill
<1>3. CASE UNCHANGED vars
  BY <1>3, StutterKeepsInv
<1>4. QED
  BY <1>1, <1>2, <1>3 DEF Next

\* The inductive invariant holds in every reachable state.
THEOREM Inductive == Spec => [](TypeOK /\ IInv)
<1>1. (TypeOK /\ IInv) /\ [Next]_vars => (TypeOK /\ IInv)'
  BY NextKeepsInv
<1>2. QED
  BY InitHolds, <1>1, PTL DEF Spec

\* Every variable keeps its type, for any number of calls and any faults.
THEOREM ActivationTypes == Spec => []TypeOK
BY Inductive, PTL

\* An active transition is one whose update the control plane ended without an
\* error, whatever calls overlap and whatever is cut short.
THEOREM ActiveIsDeployed == Spec => []ActiveMeansDeployed
<1>1. IInv => ActiveMeansDeployed
  BY DEF IInv, RowInv
<1>2. QED
  BY Inductive, <1>1, PTL

\* A revoked transition was replaced by a call whose update was deployed.
THEOREM RevokedIsReplaced == Spec => []RevokedOnlyByDeployed
<1>1. IInv => RevokedOnlyByDeployed
  BY DEF IInv, RowInv
<1>2. QED
  BY Inductive, <1>1, PTL

\* Once a version was active, there is always one on record, or on its way there: if
\* none is active, an update was deployed whose own row still says pending.
THEOREM GapIsUnrecorded == Spec => []GapMeansUnrecorded
<1>1. IInv => GapMeansUnrecorded
  BY DEF IInv
<1>2. QED
  BY Inductive, <1>1, PTL

\* At most one transition is active while activations come one after another and
\* no statement fails under a live context.
THEOREM AtMostOneActive == Spec => []OneActiveInOrder
<1>1. IInv => OneActiveInOrder
  BY DEF IInv, OrderInv, ActiveIsKnown, OneActiveInOrder
<1>2. QED
  BY Inductive, <1>1, PTL

\* An answer of success is backed by a deployed update, or by the record.
THEOREM SuccessHasBacking == Spec => []SuccessIsBacked
<1>1. IInv => SuccessIsBacked
  BY CallsAssumption DEF IInv, FleetUpdateInv, NodeUpdateInv, SuccessIsBacked, Calls, FleetCalls
<1>2. QED
  BY Inductive, <1>1, PTL

\* Transitions only move from pending to their end and from active to disabled.
THEOREM StatusesMove == Spec => StatusMoves
<1> DEFINE Moves ==
      \A r \in Rows : row'[r] # row[r] =>
        <<row[r], row'[r]>> \in {<<"absent", "pending">>, <<"pending", "active">>,
                                <<"pending", "failed">>, <<"active", "disabled">>}
<1>1. ASSUME TypeOK, IInv, [Next]_vars
      PROVE  [Moves]_vars
  <2>1. CASE \E c \in Calls : Call(c)
    BY <1>1, <2>1, CallMovesStatus DEF IInv
  <2>2. CASE Kill
    BY <2>2 DEF Kill, Die
  <2>3. CASE UNCHANGED vars
    BY <2>3
  <2>4. QED
    BY <1>1, <2>1, <2>2, <2>3 DEF Next
<1>2. QED
  BY Inductive, <1>1, PTL DEF Spec, StatusMoves

==============================================================================
