------------------------- MODULE TradingEngineTypes -------------------------
(***************************************************************************)
(* TypeOK holds of Spec for every set of trades, every limit and any       *)
(* number of faults, crashes and ticks.  It is not inductive alone: what a *)
(* step stores is typed because the loop is at that step only with a trade *)
(* at hand and an artifact it has read (LoopInv).  The proof has one lemma *)
(* per group of variables; a Frame lemma lists the steps that leave the    *)
(* group alone.                                                            *)
(***************************************************************************)
EXTENDS EngineProperties, FiniteSetTheorems, TLAPS

\* What the program counter says of the trade at hand and of the work left.

LoopInv ==
    /\ pc \in {"exec", "exec_reservation", "exec_receipt", "exec_finish"} =>
          \A t \in batch : collected[t] \in ExecArtifacts
    /\ pc \in {"exec_reservation", "exec_receipt", "exec_finish"} =>
          cur \in Trades /\ collected[cur] \in ExecArtifacts
    /\ pc \in {"exit", "exit_receipt", "exit_reservation", "exit_count", "exit_delete"} =>
          \A t \in batch : exitFile[t] \in ExitIds
    /\ pc \in {"exit_receipt", "exit_reservation", "exit_count", "exit_delete"} =>
          cur \in Trades \ batch /\ exitFile[cur] \in ExitIds
    /\ pc \in {"recover_exit", "recover_count", "lock", "publish", "registry", "insert"} =>
          cur \in Trades

TypeInv == TypeOK /\ LoopInv

-----------------------------------------------------------------------------
(* The store *)

LEMMA StoreFrame ==
    ASSUME \/ CollectExecutionFeedback \/ ExecutionFinish \/ ExecutionFeedbackDone
           \/ CollectTradeExits \/ ExitDelete \/ ExitFeedbackDone
           \/ ListOpenTrades \/ RecoveryDone
           \/ UpdateAccountState \/ SkipDecisionCycle \/ StartDecisionCycle \/ Housekeep
           \/ FailClosedBridgeUncertainty \/ EvaluationDone \/ SendLock \/ SendPublish
           \/ TornArtifact \/ Crash \/ EnvironmentStep \/ UNCHANGED vars
    PROVE  UNCHANGED <<now, storeVars>>
BY DEF CollectExecutionFeedback, ExecutionFinish, ExecutionFeedbackDone, CollectTradeExits,
       ExitDelete, ExitFeedbackDone, ListOpenTrades, RecoveryDone, UpdateAccountState,
       SkipDecisionCycle, StartDecisionCycle, Housekeep, FailClosedBridgeUncertainty,
       EvaluationDone, SendLock, SendPublish, TornArtifact, Crash, EnvironmentStep,
       InsideUnchanged, vars, clockVars

\* The operators that write a row, a reservation and the loss streak.
LEMMA TransitionType ==
    ASSUME StoreTypeOK, NEW t, NEW state \in ReservationStates, Transition(t, state)
    PROVE  reservation' \in [Trades -> ReservationStates]
BY DEF StoreTypeOK, Transition

LEMMA RowType ==
    ASSUME StoreTypeOK, NEW t, NEW status \in RowStates, row' = [row EXCEPT ![t] = status]
    PROVE  row' \in [Trades -> RowStates]
BY DEF StoreTypeOK

LEMMA LossType ==
    ASSUME StoreTypeOK, AccountTypeOK, NEW o, RecordConsecutiveLossUpdate(o)
    PROVE  /\ losses' \in 0..LossHalt
           /\ seeded' \in BOOLEAN
           /\ savedLosses' \in 0..LossHalt
<1>1. seeded' \in BOOLEAN
  BY DEF RecordConsecutiveLossUpdate
<1>2. SeededLosses \in 0..LossHalt
  BY DEF SeededLosses, StoreTypeOK, AccountTypeOK
<1>3. losses' \in 0..LossHalt
  <2>1. CASE o = "loss"
    BY <2>1, <1>2, StoreAssumption DEF RecordConsecutiveLossUpdate
  <2>2. CASE o = "win"
    BY <2>2, <1>2, StoreAssumption DEF RecordConsecutiveLossUpdate
  <2>3. CASE o \notin {"loss", "win"}
    BY <2>3, <1>2, StoreAssumption DEF RecordConsecutiveLossUpdate
  <2>. QED
    BY <2>1, <2>2, <2>3
<1>4. savedLosses' \in 0..LossHalt
  BY <1>3 DEF RecordConsecutiveLossUpdate, InsertAccountMetrics, metricVars, StoreTypeOK
<1>. QED
  BY <1>1, <1>3, <1>4

LEMMA StoreTypeNext ==
    ASSUME TypeInv, [Next]_vars
    PROVE  StoreTypeOK'
<1> USE DEF TypeInv, TypeOK, StoreTypeOK, clockVars, storeVars, ledgerVars, receiptVars, metricVars
<1>1. CASE UNCHANGED <<now, storeVars>>
  BY <1>1
<1>2. ASSUME NEW t \in Trades, ApplyExecutionFeedback(t) PROVE StoreTypeOK'
  <2>1. row' \in [Trades -> RowStates] /\ ticketed' \subseteq Trades
    BY <1>2 DEF ApplyExecutionFeedback, ApplyExecutionResult, RowStates
  <2>. QED
    BY <1>2, <2>1 DEF ApplyExecutionFeedback
<1>3. CASE ExecutionReservation
  <2>1. collected[cur].status \in ReservationStates
    BY <1>3 DEF ExecutionReservation, LoopInv, ExecArtifacts, ReservationStates
  <2>2. reservation' \in [Trades -> ReservationStates]
    BY <1>3, <2>1, TransitionType DEF ExecutionReservation
  <2>. QED
    BY <1>3, <2>2 DEF ExecutionReservation
<1>4. CASE ExecutionReceipt
  <2>1. <<cur, collected[cur]>> \in Trades \X ExecArtifacts
    BY <1>4 DEF ExecutionReceipt, LoopInv
  <2>. QED
    BY <1>4, <2>1 DEF ExecutionReceipt, RecordExecReceipt
<1>5. ASSUME NEW t \in Trades, ApplyTradeExit(t) PROVE StoreTypeOK'
  <2>1. row' \in [Trades -> RowStates]
    BY <1>5 DEF ApplyTradeExit, ApplyExitResult, RowStates
  <2>. QED
    BY <1>5, <2>1 DEF ApplyTradeExit
<1>6. CASE ExitReceipt
  <2>1. <<cur, exitFile[cur]>> \in Trades \X ExitIds
    BY <1>6 DEF ExitReceipt, LoopInv
  <2>. QED
    BY <1>6, <2>1 DEF ExitReceipt, RecordExitReceipt
<1>7. CASE ExitReservation
  <2>1. reservation' \in [Trades -> ReservationStates]
    BY <1>7, TransitionType DEF ExitReservation, ReservationStates
  <2>. QED
    BY <1>7, <2>1 DEF ExitReservation
<1>8. CASE ExitCount
  <2>1. savedLosses' \in 0..LossHalt
    BY <1>8, LossType DEF ExitCount
  <2>. QED
    BY <1>8, <2>1 DEF ExitCount
<1>9. ASSUME NEW t \in Trades, RecoverTrade(t) PROVE StoreTypeOK'
  <2>1. row' \in [Trades -> RowStates] /\ ticketed' \subseteq Trades
    BY <1>9 DEF RecoverTrade, ApplyExecutionResult, RowStates
  <2>. QED
    BY <1>9, <2>1 DEF RecoverTrade
<1>10. CASE RecoverExit
  BY <1>10, RowType DEF RecoverExit, ApplyExitResult, RowStates
<1>11. CASE RecoverCount
  <2>1. savedLosses' \in 0..LossHalt
    BY <1>11, LossType DEF RecoverCount
  <2>. QED
    BY <1>11, <2>1 DEF RecoverCount
<1>12. ASSUME NEW t \in Trades, MarkUncertain(t) PROVE StoreTypeOK'
  BY <1>12 DEF MarkUncertain, MarkExecutionUncertain, RowStates
<1>13. ASSUME NEW t \in Trades, EvaluateSymbol(t) PROVE StoreTypeOK'
  <2>1. ASSUME NEW r \in ProposedRisks, NEW approved \in BOOLEAN, TryReserve(t, Throttled(r), approved)
        PROVE  /\ reservation' \in [Trades -> ReservationStates]
               /\ risk' \in [Trades -> Nat]
               /\ expiresAt' \in [Trades -> Nat]
    <3>1. Throttled(r) \in Nat
      BY EngineAssumption DEF Throttled, ThrottlePercent
    <3>2. reservation' \in [Trades -> ReservationStates]
      BY <2>1 DEF TryReserve, ReservationStates
    <3>. QED
      BY <2>1, <3>1, <3>2, StoreAssumption DEF TryReserve
  <2>2. /\ reservation' \in [Trades -> ReservationStates]
        /\ risk' \in [Trades -> Nat]
        /\ expiresAt' \in [Trades -> Nat]
    BY <1>13, <2>1 DEF EvaluateSymbol, HasCapacity
  <2>3. row' \in [Trades -> RowStates]
    BY <1>13 DEF EvaluateSymbol, InsertProposal, RowStates
  <2>. QED
    BY <1>13, <2>2, <2>3 DEF EvaluateSymbol
<1>14. CASE SendExpired
  <2>1. reservation' \in [Trades -> ReservationStates]
    BY <1>14, TransitionType DEF SendExpired, ReservationStates
  <2>. QED
    BY <1>14, <2>1 DEF SendExpired
<1>15. CASE SendFailsBeforePublish \/ SendFailsAfterPublish
  <2>1. reservation' \in [Trades -> ReservationStates]
    BY <1>15, TransitionType DEF SendFailsBeforePublish, SendFailsAfterPublish, ReservationStates
  <2>2. row' \in [Trades -> RowStates]
    BY <1>15, RowType DEF SendFailsBeforePublish, SendFailsAfterPublish, InsertProposal, RowStates
  <2>. QED
    BY <1>15, <2>1, <2>2 DEF SendFailsBeforePublish, SendFailsAfterPublish
<1>16. CASE SendReturns
  <2>1. reservation' \in [Trades -> ReservationStates]
    BY <1>16, TransitionType DEF SendReturns, ReservationStates
  <2>. QED
    BY <1>16, <2>1 DEF SendReturns
<1>17. CASE InsertPending
  BY <1>17, RowType DEF InsertPending, InsertProposal, RowStates
<1>18. CASE PersistMetrics
  BY <1>18 DEF PersistMetrics, InsertAccountMetrics, AccountTypeOK
<1>19. CASE Restart
  BY <1>19 DEF Restart, MarkStaleTrades, RowStates
<1>20. CASE Tick
  BY <1>20 DEF Tick
<1>. QED
  BY <1>1, <1>2, <1>3, <1>4, <1>5, <1>6, <1>7, <1>8, <1>9, <1>10, <1>11, <1>12, <1>13,
     <1>14, <1>15, <1>16, <1>17, <1>18, <1>19, <1>20, StoreFrame
  DEF Next, EngineStep, FeedbackStep, RecoveryStep, DecisionStep

-----------------------------------------------------------------------------
(* The bridge directory *)

LEMMA BridgeFrame ==
    ASSUME \/ CollectExecutionFeedback \/ ExecutionReservation \/ ExecutionReceipt
           \/ ExecutionFeedbackDone \/ CollectTradeExits \/ ExitReceipt \/ ExitReservation
           \/ ExitCount \/ ExitFeedbackDone \/ (RecoveryStep /\ ~RecoverCount)
           \/ UpdateAccountState \/ SkipDecisionCycle \/ StartDecisionCycle
           \/ \E t \in Trades : MarkUncertain(t) \/ EvaluateSymbol(t)
           \/ FailClosedBridgeUncertainty \/ EvaluationDone
           \/ SendExpired \/ SendReturns \/ SendFailsAfterPublish \/ InsertPending
           \/ PersistMetrics \/ Crash \/ Restart \/ Tick \/ UNCHANGED vars
    PROVE  UNCHANGED bridgeVars
BY DEF CollectExecutionFeedback, ExecutionReservation, ExecutionReceipt, ExecutionFeedbackDone,
       CollectTradeExits, ExitReceipt, ExitReservation, ExitCount, ExitFeedbackDone,
       RecoveryStep, ListOpenTrades, RecoverTrade, RecoverExit, RecoveryDone,
       UpdateAccountState, SkipDecisionCycle, StartDecisionCycle, MarkUncertain, EvaluateSymbol,
       FailClosedBridgeUncertainty, EvaluationDone, SendExpired, SendReturns,
       SendFailsAfterPublish, InsertPending, PersistMetrics, Crash, Restart, Tick, vars,
       outsideVars

LEMMA ExecFileType ==
    ASSUME BridgeTypeOK, NEW t, DeleteExecArtifact(t)
    PROVE  execFile' \in [Trades -> ExecArtifacts \cup {NoArtifact}]
BY DEF BridgeTypeOK, DeleteExecArtifact

LEMMA ExitFileType ==
    ASSUME BridgeTypeOK, NEW t, DeleteExitArtifact(t)
    PROVE  exitFile' \in [Trades -> ExitIds \cup {"none"}]
BY DEF BridgeTypeOK, DeleteExitArtifact

LEMMA BridgeTypeNext ==
    ASSUME TypeInv, [Next]_vars
    PROVE  BridgeTypeOK'
<1> USE DEF TypeInv, TypeOK, BridgeTypeOK, bridgeVars, signalVars
<1>1. CASE UNCHANGED bridgeVars
  BY <1>1
<1>2. ASSUME NEW t \in Trades, ApplyExecutionFeedback(t) PROVE BridgeTypeOK'
  BY <1>2, ExecFileType DEF ApplyExecutionFeedback, Unlink, ReleaseLock
<1>3. CASE ExecutionFinish
  BY <1>3, ExecFileType DEF ExecutionFinish, Unlink, ReleaseLock
<1>4. ASSUME NEW t \in Trades, ApplyTradeExit(t) PROVE BridgeTypeOK'
  BY <1>4, ExitFileType DEF ApplyTradeExit, Unlink
<1>5. CASE ExitDelete
  BY <1>5, ExitFileType DEF ExitDelete, Unlink
<1>6. CASE RecoverCount
  BY <1>6 DEF RecoverCount, ReleaseLock
<1>7. CASE Housekeep
  BY <1>7 DEF Housekeep, CleanupStale
<1>8. CASE SendLock
  BY <1>8 DEF SendLock, CreateLock, LoopInv
<1>9. CASE SendPublish
  BY <1>9 DEF SendPublish, PublishPending, LoopInv
<1>10. CASE SendFailsBeforePublish
  BY <1>10 DEF SendFailsBeforePublish, ReleaseLock
<1>11. CASE TornArtifact
  BY <1>11, ExecFileType, ExitFileType DEF TornArtifact
<1>12. CASE EnvironmentStep
  <2> USE DEF eaVars, brokerVars, historyVars
  <2>1. ASSUME NEW t \in Trades, SkipProcessedSignal(t) \/ DropSignal(t) PROVE BridgeTypeOK'
    BY <2>1 DEF SkipProcessedSignal, DropSignal, DeleteSignal
  <2>2. ASSUME NEW t \in Trades, NEW status \in {"EXECUTED", "REJECTED"}, NEW ticket \in Nat,
               WriteExecutionFeedback(t, status, ticket)
        PROVE  execFile' \in [Trades -> ExecArtifacts \cup {NoArtifact}]
    <3>1. [status |-> status, ticket |-> ticket, at |-> now] \in ExecArtifacts
      BY DEF ExecArtifacts, StoreTypeOK
    <3>. QED
      BY <2>2, <3>1 DEF WriteExecutionFeedback
  <2>3. \A t \in Trades : fills[t] + 1 \in Nat
    BY DEF EATypeOK, MaxFills
  <2>4. ASSUME NEW t \in Trades, RejectSignal(t) \/ ExecuteSignal(t) PROVE BridgeTypeOK'
    <3>1. pending' \subseteq Trades /\ UNCHANGED <<locks, exitFile, snapshot>>
      BY <2>4 DEF RejectSignal, ExecuteSignal, DeleteSignal
    <3>2. execFile' \in [Trades -> ExecArtifacts \cup {NoArtifact}]
      BY <2>2, <2>3, <2>4 DEF RejectSignal, ExecuteSignal
    <3>. QED
      BY <3>1, <3>2
  <2>5. ASSUME NEW t \in Trades, OnTradeTransaction(t) \/ SweepClosedManagedPosition(t)
        PROVE BridgeTypeOK'
    BY <2>5 DEF OnTradeTransaction, SweepClosedManagedPosition, FinalizeClosedPosition, ExitId, ExitIds
  <2>6. ASSUME NEW t \in Trades, PartialClose(t) \/ ClosePosition(t) PROVE BridgeTypeOK'
    BY <2>6 DEF PartialClose, ClosePosition
  <2>7. ASSUME NEW open \in SUBSET Trades, NEW slots, snapshot' = SnapshotOf(open, slots)
        PROVE snapshot' \in [open : SUBSET Trades, restored : BOOLEAN, at : Nat]
    BY <2>7 DEF SnapshotOf, StoreTypeOK
  <2>8. OpenPositions \in SUBSET Trades
    BY DEF OpenPositions
  <2>9. CASE WriteAccountSnapshot \/ EARestart
    BY <2>7, <2>8, <2>9 DEF WriteAccountSnapshot, EARestart, OnInit
  <2>10. ASSUME NEW t \in Trades, KilledInExecution(t) \/ KilledInRejection(t) PROVE BridgeTypeOK'
    <3>1. snapshot' \in [open : SUBSET Trades, restored : BOOLEAN, at : Nat]
      BY <2>7, <2>8, <2>10 DEF KilledInExecution, KilledInRejection, OnInit
    <3>2. execFile' \in [Trades -> ExecArtifacts \cup {NoArtifact}]
      BY <2>2, <2>3, <2>10 DEF KilledInExecution, KilledInRejection
    <3>3. UNCHANGED <<pending, locks, exitFile>>
      BY <2>10 DEF KilledInExecution, KilledInRejection
    <3>. QED
      BY <3>1, <3>2, <3>3
  <2>. QED
    BY <1>12, <2>1, <2>4, <2>5, <2>6, <2>9, <2>10
    DEF EnvironmentStep, EANext, EAStep, ProcessPendingSignal
<1>. QED
  BY <1>1, <1>2, <1>3, <1>4, <1>5, <1>6, <1>7, <1>8, <1>9, <1>10, <1>11, <1>12, BridgeFrame
  DEF Next, EngineStep, FeedbackStep, RecoveryStep, DecisionStep

-----------------------------------------------------------------------------
(* The EA and the broker *)

LEMMA EAFrame ==
    ASSUME EngineStep \/ TornArtifact \/ Crash \/ Restart \/ Tick \/ UNCHANGED vars
    PROVE  UNCHANGED eaVars
BY DEF EngineStep, FeedbackStep, RecoveryStep, DecisionStep,
       CollectExecutionFeedback, ApplyExecutionFeedback, ExecutionReservation, ExecutionReceipt,
       ExecutionFinish, ExecutionFeedbackDone, CollectTradeExits, ApplyTradeExit, ExitReceipt,
       ExitReservation, ExitCount, ExitDelete, ExitFeedbackDone, ListOpenTrades, RecoverTrade,
       RecoverExit, RecoverCount, RecoveryDone, UpdateAccountState, SkipDecisionCycle,
       StartDecisionCycle, Housekeep, MarkUncertain, FailClosedBridgeUncertainty, EvaluateSymbol,
       EvaluationDone, SendLock, SendExpired, SendPublish, SendFailsBeforePublish, SendReturns,
       SendFailsAfterPublish, InsertPending, PersistMetrics, TornArtifact, Crash, Restart, Tick,
       vars, outsideVars

LEMMA FaultFrame ==
    ASSUME EngineStep \/ TornArtifact \/ Crash \/ Restart \/ EnvironmentStep \/ Tick \/ UNCHANGED vars
    PROVE  UNCHANGED faults \/ \E kind \in FaultKinds : Fault(kind)
<1> USE DEF FaultKinds, Unlink, outsideVars
<1>1. CASE FeedbackStep
  BY <1>1 DEF FeedbackStep, CollectExecutionFeedback, ApplyExecutionFeedback,
       ExecutionReservation, ExecutionReceipt, ExecutionFinish, ExecutionFeedbackDone,
       CollectTradeExits, ApplyTradeExit, ExitReceipt, ExitReservation, ExitCount, ExitDelete,
       ExitFeedbackDone
<1>2. CASE RecoveryStep
  BY <1>2 DEF RecoveryStep, ListOpenTrades, RecoverTrade, RecoverExit, RecoverCount, RecoveryDone
<1>3. CASE DecisionStep
  BY <1>3 DEF DecisionStep, UpdateAccountState, SkipDecisionCycle, StartDecisionCycle, Housekeep,
       MarkUncertain, FailClosedBridgeUncertainty, EvaluateSymbol, EvaluationDone, SendLock,
       SendExpired, SendPublish, SendFailsBeforePublish, SendReturns, SendFailsAfterPublish,
       InsertPending, PersistMetrics
<1>4. CASE EnvironmentStep
  BY <1>4 DEF EnvironmentStep, EANext, EAStep, ProcessPendingSignal, SkipProcessedSignal,
       DropSignal, RejectSignal, ExecuteSignal, DeleteSignal, OnTradeTransaction,
       SweepClosedManagedPosition, FinalizeClosedPosition, WriteAccountSnapshot, PartialClose,
       ClosePosition, EARestart, KilledInExecution, KilledInRejection
<1>5. CASE TornArtifact \/ Crash \/ Restart \/ Tick \/ UNCHANGED vars
  BY <1>5 DEF TornArtifact, Crash, Restart, Tick, vars
<1>. QED
  BY <1>1, <1>2, <1>3, <1>4, <1>5 DEF EngineStep

LEMMA EATypeNext ==
    ASSUME TypeInv, [Next]_vars
    PROVE  EATypeOK'
<1> USE FaultAssumption DEF TypeInv, TypeOK, EATypeOK, eaVars, brokerVars, historyVars
<1>1. faults' \in 0..MaxFaults
  BY FaultFrame DEF Fault, Next
<1>2. CASE UNCHANGED eaVars
  BY <1>1, <1>2
<1>3. ASSUME NEW t \in Trades, SkipProcessedSignal(t) \/ DropSignal(t) \/ RejectSignal(t)
      PROVE EATypeOK'
  BY <1>1, <1>3 DEF SkipProcessedSignal, DropSignal, RejectSignal, NoteReread
<1>4. ASSUME NEW t \in Trades, SendOrder(t)
      PROVE  /\ position' \in [Trades -> {"none", "open", "closed"}]
             /\ outcome' \in [Trades -> {"win", "loss", "flat"}]
             /\ closedAt' \in [Trades -> Nat]
             /\ fills' \in [Trades -> 0..MaxFills]
             /\ halved' \subseteq Trades
             /\ reread' \subseteq Trades
  BY <1>4 DEF SendOrder, NoteReread, MaxFills
<1>5. ASSUME NEW t \in Trades, ExecuteSignal(t) PROVE EATypeOK'
  BY <1>1, <1>4, <1>5 DEF ExecuteSignal
<1>6. ASSUME NEW t \in Trades, PartialClose(t) \/ ClosePosition(t) PROVE EATypeOK'
  BY <1>1, <1>6 DEF PartialClose, ClosePosition, StoreTypeOK
<1>7. ASSUME NEW t \in Trades, OnTradeTransaction(t) \/ SweepClosedManagedPosition(t)
      PROVE EATypeOK'
  BY <1>1, <1>7 DEF OnTradeTransaction, SweepClosedManagedPosition, FinalizeClosedPosition
<1>8. CASE WriteAccountSnapshot \/ EARestart
  BY <1>1, <1>8 DEF WriteAccountSnapshot, EARestart, OnInit
<1>9. ASSUME NEW t \in Trades, KilledInExecution(t) PROVE EATypeOK'
  <2>1. /\ managed' \subseteq Trades
        /\ processed' \subseteq Trades
        /\ closeEvents' \subseteq Trades
        /\ restarts' \in Nat
    BY <1>9 DEF KilledInExecution, OnInit
  <2>. QED
    BY <1>1, <1>4, <1>9, <2>1 DEF KilledInExecution
<1>10. ASSUME NEW t \in Trades, KilledInRejection(t) PROVE EATypeOK'
  BY <1>1, <1>10 DEF KilledInRejection, OnInit, NoteReread
<1>. QED
  BY <1>2, <1>3, <1>5, <1>6, <1>7, <1>8, <1>9, <1>10, EAFrame
  DEF Next, EnvironmentStep, EANext, EAStep, ProcessPendingSignal

-----------------------------------------------------------------------------
(* The account state in memory *)

LEMMA AccountFrame ==
    ASSUME \/ FeedbackStep /\ ~ExitCount
           \/ RecoveryStep /\ ~RecoverCount
           \/ SkipDecisionCycle \/ StartDecisionCycle \/ Housekeep
           \/ \E t \in Trades : MarkUncertain(t) \/ EvaluateSymbol(t)
           \/ EvaluationDone \/ SendLock \/ SendPublish \/ SendReturns \/ InsertPending
           \/ PersistMetrics \/ TornArtifact \/ Restart \/ EnvironmentStep \/ Tick
           \/ UNCHANGED vars
    PROVE  /\ UNCHANGED <<accountVars, losses, seeded, lastClose, exitCounts, recoveryCounts>>
           /\ UNCHANGED summary \/ \E t \in Trades : RecoverTrade(t)
<1> USE DEF engineVars, memoryVars, accountVars, lossVars
<1>1. CASE FeedbackStep /\ ~ExitCount
  BY <1>1 DEF FeedbackStep, CollectExecutionFeedback, ApplyExecutionFeedback,
       ExecutionReservation, ExecutionReceipt, ExecutionFinish, ExecutionFeedbackDone,
       CollectTradeExits, ApplyTradeExit, ExitReceipt, ExitReservation, ExitDelete,
       ExitFeedbackDone
<1>2. CASE RecoveryStep /\ ~RecoverCount
  BY <1>2 DEF RecoveryStep, ListOpenTrades, RecoverTrade, RecoverExit, RecoveryDone
<1>3. CASE \/ SkipDecisionCycle \/ StartDecisionCycle \/ Housekeep
           \/ \E t \in Trades : MarkUncertain(t) \/ EvaluateSymbol(t)
           \/ EvaluationDone \/ SendLock \/ SendPublish \/ SendReturns \/ InsertPending
           \/ PersistMetrics
  BY <1>3 DEF SkipDecisionCycle, StartDecisionCycle, Housekeep, MarkUncertain, EvaluateSymbol,
       EvaluationDone, SendLock, SendPublish, SendReturns, InsertPending, PersistMetrics
<1>4. CASE TornArtifact \/ Restart \/ EnvironmentStep \/ Tick \/ UNCHANGED vars
  BY <1>4 DEF TornArtifact, Restart, EnvironmentStep, InsideUnchanged, Tick, vars
<1>. QED
  BY <1>1, <1>2, <1>3, <1>4

LEMMA CountType ==
    ASSUME NEW counts \in [Trades -> 0..MaxCounts], NEW t \in Trades
    PROVE  Count(counts, t) \in [Trades -> 0..MaxCounts]
BY DEF Count, MaxCounts

LEMMA OpenCountType ==
    ASSUME NEW S \in SUBSET Trades
    PROVE  Cardinality(S) \in Nat
BY StoreAssumption, FS_Subset, FS_CardinalityType

LEMMA SummaryType ==
    ASSUME TypeInv, [Next]_vars
    PROVE  summary' \in [result : {"win", "loss", "flat"}, at : Nat]
<1> USE DEF TypeInv, TypeOK, AccountTypeOK
<1>1. ASSUME NEW t \in Trades, RecoverTrade(t)
      PROVE  summary' \in [result : {"win", "loss", "flat"}, at : Nat]
  BY <1>1 DEF RecoverTrade, EATypeOK
<1>2. CASE summary' = NoSummary
  BY <1>2 DEF NoSummary
<1>3. CASE ExitCount \/ UpdateAccountState \/ FailClosedBridgeUncertainty
  BY <1>3 DEF ExitCount, UpdateAccountState, FailClosedBridgeUncertainty, lossVars
<1>4. CASE RecoverCount \/ SendExpired \/ Crash
  BY <1>2, <1>4 DEF RecoverCount, SendExpired, Crash, Die, ForgetMemory
<1>5. CASE SendFailsBeforePublish \/ SendFailsAfterPublish
  BY <1>2, <1>5 DEF SendFailsBeforePublish, SendFailsAfterPublish, Die, ForgetMemory, memoryVars
<1>. QED
  BY <1>1, <1>3, <1>4, <1>5, AccountFrame
  DEF Next, EngineStep, DecisionStep

LEMMA AccountTypeNext ==
    ASSUME TypeInv, [Next]_vars
    PROVE  AccountTypeOK'
<1> USE DEF TypeInv, TypeOK, accountVars, lossVars, memoryVars
<1>s. summary' \in [result : {"win", "loss", "flat"}, at : Nat]
  BY SummaryType
<1>1. CASE UNCHANGED <<accountVars, losses, seeded, lastClose, exitCounts, recoveryCounts>>
  BY <1>s, <1>1, Zenon DEF AccountTypeOK
<1>2. CASE ExitCount
  <2>1. losses' \in 0..LossHalt /\ seeded' \in BOOLEAN
    BY <1>2, LossType DEF ExitCount
  <2>2. lastClose' \in Nat
    BY <1>2 DEF ExitCount, RecordBrokerCloseTime, LoopInv, EATypeOK, AccountTypeOK
  <2>3. exitCounts' \in [Trades -> 0..MaxCounts]
    BY <1>2, CountType DEF ExitCount, LoopInv, AccountTypeOK
  <2>4. UNCHANGED <<reconciled, openCount, recoveryCounts>>
    BY <1>2 DEF ExitCount
  <2>. QED
    BY <1>s, <2>1, <2>2, <2>3, <2>4, Zenon DEF AccountTypeOK
<1>3. CASE RecoverCount
  <2>1. losses' \in 0..LossHalt /\ seeded' \in BOOLEAN
    BY <1>3, LossType DEF RecoverCount
  <2>2. lastClose' \in Nat
    BY <1>3 DEF RecoverCount, RecordBrokerCloseTime, LoopInv, EATypeOK, AccountTypeOK
  <2>3. recoveryCounts' \in [Trades -> 0..MaxCounts]
    BY <1>3, CountType DEF RecoverCount, LoopInv, AccountTypeOK
  <2>4. UNCHANGED <<reconciled, openCount, exitCounts>>
    BY <1>3 DEF RecoverCount
  <2>. QED
    BY <1>s, <2>1, <2>2, <2>3, <2>4, Zenon DEF AccountTypeOK
<1>4. CASE UpdateAccountState
  <2>1. ASSUME NEW open \in SUBSET Trades, NEW restored, UpdateAccountStatus(open, restored)
        PROVE  /\ openCount' \in Nat
               /\ losses' \in 0..LossHalt
               /\ seeded' \in BOOLEAN
    BY <2>1, OpenCountType DEF UpdateAccountStatus, StoreTypeOK
  <2>2. ASSUME NEW open, NEW restored, UpdateAccountStatus(open, restored)
        PROVE  reconciled' \in BOOLEAN
    BY <2>2 DEF UpdateAccountStatus, Reconciled
  <2>3. ASSUME FailClosedOnSnapshot
        PROVE  reconciled' \in BOOLEAN /\ UNCHANGED <<openCount, losses, seeded>>
    BY <2>3 DEF FailClosedOnSnapshot
  <2>4. snapshot.open \in SUBSET Trades /\ OpenPositions \in SUBSET Trades
    BY DEF BridgeTypeOK, OpenPositions
  <2>5. \/ UpdateAccountStatus(snapshot.open, snapshot.restored)
        \/ UpdateAccountStatus(OpenPositions, OpenPositions = {})
        \/ FailClosedOnSnapshot
    BY <1>4 DEF UpdateAccountState
  <2>6. /\ openCount' \in Nat
        /\ losses' \in 0..LossHalt
        /\ reconciled' \in BOOLEAN
        /\ seeded' \in BOOLEAN
    BY <2>1, <2>2, <2>3, <2>4, <2>5, Zenon DEF AccountTypeOK
  <2>7. UNCHANGED <<lastClose, exitCounts, recoveryCounts>>
    BY <1>4 DEF UpdateAccountState
  <2>. QED
    BY <1>s, <2>6, <2>7, Zenon DEF AccountTypeOK
<1>5. CASE FailClosedBridgeUncertainty
  <2>1. reconciled' = FALSE
        /\ UNCHANGED <<openCount, losses, seeded, lastClose, exitCounts, recoveryCounts>>
    BY <1>5 DEF FailClosedBridgeUncertainty
  <2>. QED
    BY <1>s, <2>1, Zenon DEF AccountTypeOK
<1>6. ASSUME ForgetMemory, UNCHANGED <<exitCounts, recoveryCounts>> PROVE AccountTypeOK'
  <2>1. reconciled' = TRUE /\ seeded' = FALSE
    BY <1>6 DEF ForgetMemory
  <2>2. openCount' \in Nat /\ losses' \in 0..LossHalt /\ lastClose' \in Nat
    BY <1>6, StoreAssumption DEF ForgetMemory
  <2>. QED
    BY <1>s, <1>6, <2>1, <2>2, Zenon DEF AccountTypeOK
<1>7. CASE SendExpired \/ Crash
  BY <1>6, <1>7 DEF SendExpired, Crash, Die
<1>8. CASE SendFailsBeforePublish
  BY <1>1, <1>6, <1>8 DEF SendFailsBeforePublish, Die
<1>9. CASE SendFailsAfterPublish
  <2>1. CASE Preserve10
    <3>1. reconciled' = FALSE
          /\ UNCHANGED <<openCount, losses, seeded, lastClose, exitCounts, recoveryCounts>>
      BY <1>9, <2>1 DEF SendFailsAfterPublish
    <3>. QED
      BY <1>s, <3>1, Zenon DEF AccountTypeOK
  <2>2. CASE ~Preserve10
    BY <1>6, <1>9, <2>2 DEF SendFailsAfterPublish, Die
  <2>. QED
    BY <2>1, <2>2
<1>. QED
  BY <1>1, <1>2, <1>3, <1>4, <1>5, <1>7, <1>8, <1>9, AccountFrame
  DEF Next, EngineStep, DecisionStep

-----------------------------------------------------------------------------
(* The loop *)

LEMMA PassStartType ==
    ASSUME TypeInv, [Next]_vars
    PROVE  iterStart' \in Nat /\ crashes' \in 0..MaxCrashes
<1> USE DEF TypeInv, TypeOK, LoopTypeOK, clockVars
<1>1. CASE PersistMetrics \/ Restart
  BY <1>1 DEF PersistMetrics, Restart, StoreTypeOK
<1>2. CASE Crash
  BY <1>2, EngineAssumption DEF Crash
<1>3. CASE ~(PersistMetrics \/ Restart \/ Crash)
  <2>1. UNCHANGED <<iterStart, crashes>>
    BY <1>3 DEF Next, EngineStep, FeedbackStep, RecoveryStep, DecisionStep, EnvironmentStep,
      InsideUnchanged, vars, engineVars,
      CollectExecutionFeedback, ApplyExecutionFeedback, ExecutionReservation, ExecutionReceipt,
      ExecutionFinish, ExecutionFeedbackDone, CollectTradeExits, ApplyTradeExit, ExitReceipt,
      ExitReservation, ExitCount, ExitDelete, ExitFeedbackDone, ListOpenTrades, RecoverTrade,
      RecoverExit, RecoverCount, RecoveryDone, UpdateAccountState, SkipDecisionCycle,
      StartDecisionCycle, Housekeep, MarkUncertain, FailClosedBridgeUncertainty, EvaluateSymbol,
      EvaluationDone, SendLock, SendExpired, SendPublish, SendFailsBeforePublish, SendReturns,
      SendFailsAfterPublish, InsertPending, TornArtifact, Tick
  <2>. QED
    BY <2>1
<1>. QED
  BY <1>1, <1>2, <1>3

\* What the loop keeps for itself: where it is and what it works on.
LoopStateOK ==
    /\ pc \in PCs
    /\ cur \in Trades \cup {NoTrade}
    /\ batch \subseteq Trades
    /\ collected \in [Trades -> ExecArtifacts \cup {NoArtifact}]

LEMMA ForgetType ==
    ASSUME Die
    PROVE  LoopStateOK' /\ LoopInv'
<1>1. pc' = "down" /\ cur' = NoTrade /\ batch' = {} /\ collected' = [t \in Trades |-> NoArtifact]
  BY DEF Die, Goto, ForgetMemory, NothingCollected, NoArtifacts
<1>. QED
  BY <1>1 DEF LoopStateOK, LoopInv, PCs

LEMMA LoopTypeNext ==
    ASSUME TypeInv, [Next]_vars
    PROVE  LoopStateOK'
<1> USE DEF TypeInv, TypeOK, LoopTypeOK, LoopStateOK, Goto
<1>1. CASE UNCHANGED <<pc, cur, batch, collected>>
  BY <1>1
<1>2. CASE FeedbackStep
  <2> USE DEF PCs
  <2>1. CASE CollectExecutionFeedback
    <3>1. batch' \subseteq Trades
      BY <2>1 DEF CollectExecutionFeedback, ExecFiles
    <3>2. collected' \in [Trades -> ExecArtifacts \cup {NoArtifact}]
      BY <2>1 DEF CollectExecutionFeedback, BridgeTypeOK
    <3>. QED
      BY <2>1, <3>1, <3>2 DEF CollectExecutionFeedback
  <2>2. CASE \E t \in Trades : ApplyExecutionFeedback(t)
    BY <2>2 DEF ApplyExecutionFeedback
  <2>3. CASE ExecutionReservation \/ ExecutionReceipt \/ ExecutionFinish
    BY <2>3 DEF ExecutionReservation, ExecutionReceipt, ExecutionFinish
  <2>4. CASE ExecutionFeedbackDone
    BY <2>4 DEF ExecutionFeedbackDone, NothingCollected, NoArtifacts
  <2>5. CASE CollectTradeExits
    BY <2>5 DEF CollectTradeExits, ExitFiles
  <2>6. CASE \E t \in Trades : ApplyTradeExit(t)
    BY <2>6 DEF ApplyTradeExit
  <2>7. CASE ExitReceipt \/ ExitReservation \/ ExitCount \/ ExitDelete \/ ExitFeedbackDone
    BY <2>7 DEF ExitReceipt, ExitReservation, ExitCount, ExitDelete, ExitFeedbackDone
  <2>. QED
    BY <1>2, <2>1, <2>2, <2>3, <2>4, <2>5, <2>6, <2>7 DEF FeedbackStep
<1>3. CASE RecoveryStep
  BY <1>3 DEF RecoveryStep, ListOpenTrades, Ledger, RecoverTrade, RecoverExit, RecoverCount,
    RecoveryDone, PCs
<1>4. CASE DecisionStep
  <2> USE DEF PCs
  <2>1. CASE \/ UpdateAccountState \/ SkipDecisionCycle \/ StartDecisionCycle
             \/ FailClosedBridgeUncertainty \/ EvaluationDone \/ SendLock \/ SendPublish
             \/ SendReturns \/ InsertPending \/ PersistMetrics
    BY <2>1 DEF UpdateAccountState, SkipDecisionCycle, StartDecisionCycle,
      FailClosedBridgeUncertainty, EvaluationDone, SendLock, SendPublish, SendReturns,
      InsertPending, PersistMetrics
  <2>2. CASE Housekeep
    <3>1. batch' \subseteq Trades
      BY <2>2 DEF Housekeep, Proposals, Unproposed, StalePending, OrphanLocks, BridgeTypeOK
    <3>. QED
      BY <2>2, <3>1 DEF Housekeep
  <2>3. CASE \E t \in Trades : MarkUncertain(t) \/ EvaluateSymbol(t)
    BY <2>3 DEF MarkUncertain, EvaluateSymbol
  <2>4. CASE SendExpired
    BY <2>4, ForgetType DEF SendExpired
  <2>5. CASE SendFailsBeforePublish
    BY <2>5, ForgetType DEF SendFailsBeforePublish
  <2>6. CASE SendFailsAfterPublish
    BY <2>6, ForgetType DEF SendFailsAfterPublish
  <2>. QED
    BY <1>4, <2>1, <2>2, <2>3, <2>4, <2>5, <2>6 DEF DecisionStep
<1>5. CASE Crash
  BY <1>5, ForgetType DEF Crash
<1>6. CASE Restart
  BY <1>6 DEF Restart, PCs
<1>7. CASE TornArtifact \/ EnvironmentStep \/ Tick \/ UNCHANGED vars
  <2>1. UNCHANGED <<pc, cur, batch, collected>>
    BY <1>7 DEF TornArtifact, EnvironmentStep, InsideUnchanged, Tick, vars, engineVars
  <2>. QED
    BY <1>1, <2>1
<1>. QED
  BY <1>2, <1>3, <1>4, <1>5, <1>6, <1>7 DEF Next, EngineStep

\* Artifacts of the EA only ever appear from outside: what the loop has collected
\* is still there when its turn comes.
LEMMA OutsideKeepsExits ==
    ASSUME BridgeTypeOK, EnvironmentStep
    PROVE  /\ \A t \in Trades : exitFile[t] \in ExitIds => exitFile'[t] = exitFile[t]
           /\ UNCHANGED <<pc, cur, batch, collected>>
<1>1. UNCHANGED <<pc, cur, batch, collected>>
  BY DEF EnvironmentStep, InsideUnchanged, engineVars
<1>2. UNCHANGED exitFile \/ \E t \in Trades : FinalizeClosedPosition(t)
  BY DEF EnvironmentStep, EANext, EAStep, ProcessPendingSignal, SkipProcessedSignal, DropSignal,
    RejectSignal, ExecuteSignal, OnTradeTransaction, SweepClosedManagedPosition, PartialClose,
    ClosePosition, WriteAccountSnapshot, EARestart, KilledInExecution, KilledInRejection, bridgeVars
<1>3. ASSUME NEW u \in Trades, FinalizeClosedPosition(u), NEW t \in Trades, exitFile[t] \in ExitIds
      PROVE  exitFile'[t] = exitFile[t]
  BY <1>3 DEF FinalizeClosedPosition, BridgeTypeOK, ExitIds
<1>. QED
  BY <1>1, <1>2, <1>3

LEMMA LoopInvNext ==
    ASSUME TypeInv, [Next]_vars
    PROVE  LoopInv'
<1> USE DEF TypeInv, TypeOK, LoopTypeOK, LoopInv, Goto
<1>1. CASE FeedbackStep
  <2>1. CASE CollectExecutionFeedback
    <3>1. \A t \in batch' : t \in Trades /\ execFile[t] # NoArtifact /\ collected'[t] = execFile[t]
      BY <2>1 DEF CollectExecutionFeedback, ExecFiles
    <3>2. \A t \in batch' : collected'[t] \in ExecArtifacts
      BY <3>1 DEF BridgeTypeOK
    <3>. QED
      BY <2>1, <3>2 DEF CollectExecutionFeedback
  <2>2. ASSUME NEW t \in Trades, ApplyExecutionFeedback(t) PROVE LoopInv'
    BY <2>2 DEF ApplyExecutionFeedback
  <2>3. CASE ExecutionReservation \/ ExecutionReceipt \/ ExecutionFinish
    BY <2>3 DEF ExecutionReservation, ExecutionReceipt, ExecutionFinish
  <2>4. CASE ExecutionFeedbackDone
    BY <2>4 DEF ExecutionFeedbackDone
  <2>5. CASE CollectTradeExits
    <3>1. \A t \in batch' : exitFile'[t] \in ExitIds
      BY <2>5 DEF CollectTradeExits, ExitFiles, BridgeTypeOK, bridgeVars
    <3>. QED
      BY <2>5, <3>1 DEF CollectTradeExits
  <2>6. ASSUME NEW t \in Trades, ApplyTradeExit(t) PROVE LoopInv'
    <3>1. \A u \in batch' : exitFile'[u] \in ExitIds
      BY <2>6 DEF ApplyTradeExit, Unlink, DeleteExitArtifact, BridgeTypeOK
    <3>2. \/ pc' = "exit"
          \/ pc' = "exit_receipt" /\ cur' \in Trades \ batch' /\ exitFile'[cur'] \in ExitIds
      BY <2>6 DEF ApplyTradeExit
    <3>. QED
      BY <3>1, <3>2
  <2>7. CASE ExitReceipt \/ ExitReservation \/ ExitCount
    BY <2>7 DEF ExitReceipt, ExitReservation, ExitCount, outsideVars, bridgeVars
  <2>8. CASE ExitDelete
    BY <2>8 DEF ExitDelete, Unlink, DeleteExitArtifact, BridgeTypeOK
  <2>9. CASE ExitFeedbackDone
    BY <2>9 DEF ExitFeedbackDone
  <2>. QED
    BY <1>1, <2>1, <2>2, <2>3, <2>4, <2>5, <2>6, <2>7, <2>8, <2>9 DEF FeedbackStep
<1>2. CASE RecoveryStep
  BY <1>2 DEF RecoveryStep, ListOpenTrades, RecoverTrade, RecoverExit, RecoverCount, RecoveryDone
<1>3. CASE DecisionStep
  <2>1. CASE \/ UpdateAccountState \/ SkipDecisionCycle \/ StartDecisionCycle \/ Housekeep
             \/ FailClosedBridgeUncertainty \/ EvaluationDone \/ PersistMetrics
             \/ \E t \in Trades : MarkUncertain(t)
    BY <2>1 DEF UpdateAccountState, SkipDecisionCycle, StartDecisionCycle, Housekeep,
      FailClosedBridgeUncertainty, EvaluationDone, PersistMetrics, MarkUncertain
  <2>2. CASE \/ SendLock \/ SendPublish \/ SendReturns \/ InsertPending
             \/ \E t \in Trades : EvaluateSymbol(t)
    BY <2>2 DEF SendLock, SendPublish, SendReturns, InsertPending, EvaluateSymbol
  <2>3. CASE SendExpired
    BY <2>3, ForgetType DEF SendExpired
  <2>4. CASE SendFailsBeforePublish
    BY <2>4, ForgetType DEF SendFailsBeforePublish
  <2>5. CASE SendFailsAfterPublish
    BY <2>5, ForgetType DEF SendFailsAfterPublish
  <2>. QED
    BY <1>3, <2>1, <2>2, <2>3, <2>4, <2>5 DEF DecisionStep
<1>4. CASE TornArtifact
  <2>1. pc \in {"collect_exec", "collect_exit"} /\ UNCHANGED <<pc, cur, batch, collected>>
    BY <1>4 DEF TornArtifact, engineVars
  <2>. QED
    BY <2>1
<1>5. CASE Crash
  BY <1>5, ForgetType DEF Crash
<1>6. CASE Restart
  BY <1>6 DEF Restart
<1>7. CASE EnvironmentStep
  <2>1. /\ \A t \in Trades : exitFile[t] \in ExitIds => exitFile'[t] \in ExitIds
        /\ UNCHANGED <<pc, cur, batch, collected>>
    BY <1>7, OutsideKeepsExits
  <2>. QED
    BY <2>1
<1>8. CASE Tick \/ UNCHANGED vars
  BY <1>8 DEF Tick, vars, engineVars, outsideVars, bridgeVars
<1>. QED
  BY <1>1, <1>2, <1>3, <1>4, <1>5, <1>6, <1>7, <1>8 DEF Next, EngineStep

-----------------------------------------------------------------------------
(* The theorem *)

LEMMA TypeInvInit == Init => TypeInv
<1> SUFFICES ASSUME Init PROVE TypeInv
  OBVIOUS
<1> USE DEF Init
<1>1. StoreTypeOK
  BY StoreAssumption DEF StoreInit, StoreTypeOK, RowStates, ReservationStates
<1>2. BridgeTypeOK
  BY DEF BridgeInit, BridgeTypeOK, NoArtifacts
<1>3. EATypeOK
  BY FaultAssumption DEF EAInit, EATypeOK, MaxFills
<1>4. LoopTypeOK
  BY EngineAssumption DEF EngineInit, LoopTypeOK, NothingCollected, NoArtifacts, PCs
<1>5. AccountTypeOK
  <2>1. reconciled = TRUE /\ seeded = FALSE
    BY DEF EngineInit
  <2>2. openCount \in Nat /\ losses \in 0..LossHalt /\ lastClose \in Nat
    BY StoreAssumption DEF EngineInit
  <2>3. exitCounts \in [Trades -> 0..MaxCounts] /\ recoveryCounts \in [Trades -> 0..MaxCounts]
    BY DEF EngineInit, MaxCounts
  <2>4. summary \in [result : {"win", "loss", "flat"}, at : Nat]
    BY DEF EngineInit, NoSummary
  <2>. QED
    BY <2>1, <2>2, <2>3, <2>4, Zenon DEF AccountTypeOK
<1>6. LoopInv
  BY DEF EngineInit, LoopInv
<1>. QED
  BY <1>1, <1>2, <1>3, <1>4, <1>5, <1>6 DEF TypeInv, TypeOK

LEMMA TypeInvNext == TypeInv /\ [Next]_vars => TypeInv'
<1> SUFFICES ASSUME TypeInv, [Next]_vars PROVE TypeInv'
  OBVIOUS
<1>1. LoopTypeOK'
  BY LoopTypeNext, PassStartType DEF LoopStateOK, LoopTypeOK
<1>. QED
  BY <1>1, StoreTypeNext, BridgeTypeNext, EATypeNext, AccountTypeNext, LoopInvNext
  DEF TypeInv, TypeOK

\* The engine, the EA and the broker keep every variable in its domain, in every
\* interleaving, with any number of faults and crashes.
THEOREM TypeCorrect == Spec => []TypeOK
<1>1. TypeInv => TypeOK
  BY DEF TypeInv
<1>. QED
  BY <1>1, TypeInvInit, TypeInvNext, PTL DEF Spec
=============================================================================
