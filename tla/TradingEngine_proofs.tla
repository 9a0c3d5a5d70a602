------------------------ MODULE TradingEngine_proofs ------------------------
(***************************************************************************)
(* The path of a trade: an exit is counted once per identity, a signal     *)
(* filled once per start of the EA, a loss streak ends with a win, every   *)
(* closed trade is counted, an acknowledged position stays on the ledger   *)
(* until it is closed, if only in part; and the exposure: while            *)
(* nothing is lost, every open position is accounted for, every fill is    *)
(* reserved, and what is committed stays within the policy.                *)
(***************************************************************************)
EXTENDS TradingEngineTypes, WellFoundedInduction

-----------------------------------------------------------------------------
(* Exits: the receipt stands between an artifact and the loss streak.      *)

\* The receipt of an artifact is written before the artifact is counted, and
\* nothing with a receipt is applied: so what is about to be written has no
\* receipt, and what is about to be counted has one that no count stands for.
ExitInv ==
    /\ \A t \in Trades : exitCounts[t] <= Cardinality(ExitReceiptsOf(t))
    /\ pc = "exit_receipt" => <<cur, exitFile[cur]>> \notin exitReceipts
    /\ pc \in {"exit_reservation", "exit_count"} =>
          exitCounts[cur] < Cardinality(ExitReceiptsOf(cur))

LEMMA ReceiptsFinite ==
    ASSUME NEW t
    PROVE  /\ IsFiniteSet(ExitReceiptsOf(t))
           /\ Cardinality(ExitReceiptsOf(t)) \in Nat
<1>1. IsFiniteSet({"trade_id"}) /\ ExitIds = {"trade_id"} \cup {"comment"}
  BY FS_Singleton DEF ExitIds
<1>2. IsFiniteSet(ExitIds)
  BY <1>1, FS_AddElement
<1>3. ExitReceiptsOf(t) \in SUBSET ExitIds
  BY DEF ExitReceiptsOf
<1>. QED
  BY <1>2, <1>3, FS_Subset, FS_CardinalityType

LEMMA ExitInvInit == Init => ExitInv
<1> SUFFICES ASSUME Init PROVE ExitInv
  OBVIOUS
<1>1. pc = "collect_exec" /\ \A t \in Trades : exitCounts[t] = 0
  BY DEF Init, EngineInit
<1>. QED
  BY <1>1, ReceiptsFinite DEF ExitInv

\* The steps that touch neither an exit artifact, nor a receipt, nor a count, and
\* do not lead into the handling of an exit.
LEMMA ExitFrame ==
    ASSUME \/ CollectExecutionFeedback \/ \E t \in Trades : ApplyExecutionFeedback(t)
           \/ ExecutionReservation \/ ExecutionReceipt \/ ExecutionFinish
           \/ ExecutionFeedbackDone \/ CollectTradeExits \/ ExitFeedbackDone \/ RecoveryStep
           \/ DecisionStep \/ Crash \/ Restart
    PROVE  /\ UNCHANGED <<exitFile, exitReceipts, exitCounts>>
           /\ pc' \notin {"exit_receipt", "exit_reservation", "exit_count"}
<1> USE DEF storeVars, ledgerVars, receiptVars, outsideVars, bridgeVars, lossVars, Goto
<1>1. CASE \/ CollectExecutionFeedback \/ \E t \in Trades : ApplyExecutionFeedback(t)
           \/ ExecutionReservation \/ ExecutionReceipt \/ ExecutionFinish
           \/ ExecutionFeedbackDone \/ CollectTradeExits \/ ExitFeedbackDone
  BY <1>1 DEF CollectExecutionFeedback, ApplyExecutionFeedback, ExecutionReservation,
    ExecutionReceipt, RecordExecReceipt, ExecutionFinish, ExecutionFeedbackDone,
    CollectTradeExits, ExitFeedbackDone
<1>2. CASE RecoveryStep
  BY <1>2 DEF RecoveryStep, ListOpenTrades, RecoverTrade, RecoverExit, RecoverCount, RecoveryDone
<1>3. CASE DecisionStep
  BY <1>3 DEF DecisionStep, UpdateAccountState, SkipDecisionCycle, StartDecisionCycle, Housekeep,
    MarkUncertain, FailClosedBridgeUncertainty, EvaluateSymbol, EvaluationDone, SendLock,
    SendExpired, SendPublish, SendFailsBeforePublish, SendReturns, SendFailsAfterPublish,
    InsertPending, PersistMetrics, Die
<1>4. CASE Crash \/ Restart
  BY <1>4 DEF Crash, Restart, Die
<1>. QED
  BY <1>1, <1>2, <1>3, <1>4

LEMMA ExitInvNext ==
    ASSUME TypeInv, ExitInv, [Next]_vars
    PROVE  ExitInv'
<1> USE DEF ExitInv, TypeInv, TypeOK, LoopInv, Goto
<1>1. ASSUME UNCHANGED <<exitReceipts, exitCounts>>,
             pc' \notin {"exit_receipt", "exit_reservation", "exit_count"}
      PROVE  ExitInv'
  BY <1>1 DEF ExitReceiptsOf
<1>2. ASSUME UNCHANGED <<exitReceipts, exitCounts, pc, cur>>,
             \A t \in Trades : exitFile[t] \in ExitIds => exitFile'[t] = exitFile[t]
      PROVE  ExitInv'
  BY <1>2 DEF ExitReceiptsOf
<1>3. ASSUME NEW t \in Trades, ApplyTradeExit(t) PROVE ExitInv'
  <2>1. UNCHANGED <<exitReceipts, exitCounts>>
    BY <1>3 DEF ApplyTradeExit, receiptVars, lossVars
  <2>2. \/ pc' = "exit"
        \/ /\ pc' = "exit_receipt"
           /\ cur' = t
           /\ exitFile' = exitFile
           /\ <<t, exitFile[t]>> \notin exitReceipts
    BY <1>3 DEF ApplyTradeExit, ExitReceiptExists
  <2>. QED
    BY <2>1, <2>2 DEF ExitReceiptsOf
<1>4. CASE ExitReceipt
  <2> DEFINE id == exitFile[cur]
  <2>1. /\ pc' = "exit_reservation" /\ cur \in Trades /\ id \in ExitIds
        /\ <<cur, id>> \notin exitReceipts
        /\ exitReceipts' = exitReceipts \cup {<<cur, id>>}
        /\ UNCHANGED <<exitFile, cur, exitCounts>>
    BY <1>4 DEF ExitReceipt, RecordExitReceipt, outsideVars, bridgeVars, lossVars
  <2> HIDE DEF id
  <2>2. \A t \in Trades \ {cur} : ExitReceiptsOf(t)' = ExitReceiptsOf(t)
    BY <2>1 DEF ExitReceiptsOf
  <2>3. ExitReceiptsOf(cur)' = ExitReceiptsOf(cur) \cup {id} /\ id \notin ExitReceiptsOf(cur)
    BY <2>1 DEF ExitReceiptsOf
  <2>4. Cardinality(ExitReceiptsOf(cur)') = Cardinality(ExitReceiptsOf(cur)) + 1
    BY <2>3, ReceiptsFinite, FS_AddElement
  <2>5. exitCounts[cur] < Cardinality(ExitReceiptsOf(cur)')
    BY <2>1, <2>4, ReceiptsFinite DEF AccountTypeOK
  <2>6. \A t \in Trades : exitCounts'[t] <= Cardinality(ExitReceiptsOf(t)')
    <3>1. ASSUME NEW t \in Trades \ {cur} PROVE exitCounts[t] <= Cardinality(ExitReceiptsOf(t)')
      BY <2>2, <3>1
    <3>2. exitCounts[cur] <= Cardinality(ExitReceiptsOf(cur)')
      BY <2>1, <2>4, <2>5, ReceiptsFinite DEF AccountTypeOK, MaxCounts
    <3>. QED
      BY <2>1, <3>1, <3>2
  <2>. QED
    BY <2>1, <2>5, <2>6
<1>5. CASE ExitReservation
  <2>1. pc = "exit_reservation" /\ pc' = "exit_count" /\ UNCHANGED <<exitReceipts, exitCounts, cur>>
    BY <1>5 DEF ExitReservation, receiptVars, outsideVars, bridgeVars, lossVars
  <2>. QED
    BY <2>1 DEF ExitReceiptsOf
<1>6. CASE ExitCount
  <2>1. /\ pc = "exit_count" /\ pc' = "exit_delete" /\ cur \in Trades
        /\ exitCounts' = Count(exitCounts, cur)
        /\ UNCHANGED exitReceipts
    BY <1>6 DEF ExitCount, ledgerVars, receiptVars
  <2>2. \A t \in Trades : ExitReceiptsOf(t)' = ExitReceiptsOf(t)
    BY <2>1 DEF ExitReceiptsOf
  <2>3. \A t \in Trades : exitCounts'[t] <= Cardinality(ExitReceiptsOf(t))
    BY <2>1, ReceiptsFinite DEF Count, MaxCounts, AccountTypeOK
  <2>. QED
    BY <2>1, <2>2, <2>3
<1>7. CASE ExitDelete
  BY <1>1, <1>7 DEF ExitDelete, storeVars, ledgerVars, receiptVars, lossVars
<1>8. CASE TornArtifact
  <2>1. /\ pc \in {"collect_exec", "collect_exit"}
        /\ UNCHANGED <<exitReceipts, exitCounts, pc>>
    BY <1>8 DEF TornArtifact, storeVars, ledgerVars, receiptVars, engineVars
  <2>. QED
    BY <1>1, <2>1
<1>9. CASE EnvironmentStep
  <2>1. UNCHANGED <<exitReceipts, exitCounts, pc, cur>>
    BY <1>9 DEF EnvironmentStep, InsideUnchanged, storeVars, ledgerVars, receiptVars, engineVars
  <2>. QED
    BY <1>2, <1>9, <2>1, OutsideKeepsExits
<1>10. CASE Tick \/ UNCHANGED vars
  BY <1>2, <1>10 DEF Tick, vars, storeVars, ledgerVars, receiptVars, outsideVars, bridgeVars, engineVars
<1>. QED
  BY <1>1, <1>3, <1>4, <1>5, <1>6, <1>7, <1>8, <1>9, <1>10, ExitFrame
  DEF Next, EngineStep, FeedbackStep

\* Whatever the broker does with the comment of an exit deal, an exit enters the
\* loss streak at most once under each identity its artifacts carry: over
\* crashes between any two steps, locked and torn artifacts, and artifacts
\* written again.
THEOREM ExitsCountedOnce == Spec => []ExitCountedOnce
<1>1. Init => TypeInv /\ ExitInv
  BY TypeInvInit, ExitInvInit
<1>2. TypeInv /\ ExitInv /\ [Next]_vars => (TypeInv /\ ExitInv)'
  BY TypeInvNext, ExitInvNext
<1>3. ExitInv => ExitCountedOnce
  BY DEF ExitInv, ExitCountedOnce
<1>. QED
  BY <1>1, <1>2, <1>3, PTL DEF Spec

-----------------------------------------------------------------------------
(* Fills: a signal file that outlives its order is known to the EA, unless *)
(* the EA has been restarted since.                                        *)

FillPCs == {"evaluate", "lock", "publish", "registry", "insert"}

\* What can leave the file of a filled signal behind.
SignalOutlivesFill == faults > 0 /\ {"file_delete", "ea_kill"} \cap Faults # {}

\* A signal is published once, right after its reservation; from its fill on
\* its file is gone, or the EA still knows it as processed, or a restart that
\* no fill stands for has made it forget.
FillInv ==
    /\ \A t \in Trades : fills[t] <= 1 + restarts
    /\ \A t \in Trades \ reread : fills[t] <= 1
    /\ \A t \in Trades : fills[t] > 0 \/ t \in pending => reservation[t] # "none"
    /\ \A t \in pending \ processed : fills[t] <= restarts
    /\ \A t \in pending : fills[t] > 0 => SignalOutlivesFill
    /\ reread # {} => SignalOutlivesFill
    /\ pc \in FillPCs => \A t \in batch : reservation[t] = "none"
    /\ pc \in {"lock", "publish"} => fills[cur] = 0 /\ cur \notin pending
    /\ pc \in {"lock", "publish", "registry", "insert"} => reservation[cur] # "none"

LEMMA FillInvInit == Init => FillInv
BY DEF Init, StoreInit, BridgeInit, EAInit, EngineInit, FillInv, FillPCs

\* A reservation is never taken back to none, and only EvaluateSymbol makes one.
LEMMA ReservationKept ==
    ASSUME TypeInv, [Next]_vars
    PROVE  /\ \A t \in Trades : reservation[t] # "none" => reservation'[t] # "none"
           /\ ~(\E u \in Trades : EvaluateSymbol(u)) =>
                 \A t \in Trades : reservation[t] = "none" => reservation'[t] = "none"
<1> USE DEF TypeInv, TypeOK, StoreTypeOK
<1>1. ASSUME NEW t, NEW state \in ReservationStates \ {"none"}, Transition(t, state), NEW u \in Trades
      PROVE  reservation[u] = "none" <=> reservation'[u] = "none"
  BY <1>1 DEF Transition
<1>2. ASSUME NEW t \in Trades, EvaluateSymbol(t), NEW u \in Trades, reservation[u] # "none"
      PROVE  reservation'[u] # "none"
  BY <1>2 DEF EvaluateSymbol, TryReserve
<1>3. CASE ExecutionReservation
  <2>1. collected[cur].status \in ReservationStates \ {"none"}
    BY <1>3 DEF ExecutionReservation, LoopInv, ExecArtifacts, ReservationStates
  <2>2. ~(\E u \in Trades : EvaluateSymbol(u))
    BY <1>3 DEF ExecutionReservation, EvaluateSymbol
  <2>. QED
    BY <1>1, <1>3, <2>1, <2>2 DEF ExecutionReservation
<1>4. CASE ExitReservation \/ SendExpired \/ SendReturns
           \/ SendFailsBeforePublish \/ SendFailsAfterPublish
  <2>1. {"CLOSED", "RELEASED", "ROUTED", "EXECUTION_UNCERTAIN"} \subseteq ReservationStates \ {"none"}
    BY DEF ReservationStates
  <2>2. UNCHANGED reservation \/ \E state \in ReservationStates \ {"none"} : Transition(cur, state)
    BY <1>4, <2>1 DEF ExitReservation, SendExpired, SendReturns, SendFailsBeforePublish,
      SendFailsAfterPublish
  <2>. QED
    BY <1>1, <2>2
<1>5. CASE \E t \in Trades : EvaluateSymbol(t)
  BY <1>2, <1>5
<1>6. CASE \/ \E t \in Trades : ApplyExecutionFeedback(t) \/ ApplyTradeExit(t)
           \/ ExecutionReceipt \/ ExitReceipt \/ ExitCount \/ RecoveryStep
           \/ \E t \in Trades : MarkUncertain(t)
           \/ InsertPending \/ PersistMetrics \/ Restart \/ Tick
  <2>1. UNCHANGED reservation
    BY <1>6 DEF ApplyExecutionFeedback, ApplyTradeExit, ExecutionReceipt, ExitReceipt, ExitCount,
      RecoveryStep, ListOpenTrades, RecoverTrade, RecoverExit, RecoverCount, RecoveryDone,
      MarkUncertain, InsertPending, PersistMetrics, Restart, Tick, storeVars, ledgerVars
  <2>. QED
    BY <2>1
<1>7. CASE UNCHANGED <<now, storeVars>>
  BY <1>7 DEF storeVars, ledgerVars
<1>. QED
  BY <1>3, <1>4, <1>5, <1>6, <1>7, StoreFrame
  DEF Next, EngineStep, FeedbackStep, RecoveryStep, DecisionStep

\* The steps that touch neither a signal nor a fill and lead to no evaluation.
LEMMA FillFrame ==
    ASSUME \/ FeedbackStep \/ RecoveryStep \/ UpdateAccountState \/ SkipDecisionCycle
           \/ StartDecisionCycle \/ \E t \in Trades : MarkUncertain(t)
           \/ FailClosedBridgeUncertainty \/ EvaluationDone \/ SendExpired \/ PersistMetrics
           \/ TornArtifact \/ Crash \/ Restart
    PROVE  /\ UNCHANGED <<pending, fills, processed, historyVars>>
           /\ pc' \notin FillPCs
<1> USE DEF outsideVars, bridgeVars, signalVars, eaVars, brokerVars, Goto, FillPCs
<1>1. CASE FeedbackStep
  BY <1>1 DEF FeedbackStep, CollectExecutionFeedback, ApplyExecutionFeedback,
    ExecutionReservation, ExecutionReceipt, ExecutionFinish, ExecutionFeedbackDone,
    CollectTradeExits, ApplyTradeExit, ExitReceipt, ExitReservation, ExitCount, ExitDelete,
    ExitFeedbackDone
<1>2. CASE RecoveryStep
  BY <1>2 DEF RecoveryStep, ListOpenTrades, RecoverTrade, RecoverExit, RecoverCount, RecoveryDone
<1>3. CASE \/ UpdateAccountState \/ SkipDecisionCycle \/ StartDecisionCycle
           \/ \E t \in Trades : MarkUncertain(t)
           \/ FailClosedBridgeUncertainty \/ EvaluationDone \/ SendExpired \/ PersistMetrics
  BY <1>3 DEF UpdateAccountState, SkipDecisionCycle, StartDecisionCycle, MarkUncertain,
    FailClosedBridgeUncertainty, EvaluationDone, SendExpired, PersistMetrics, Die
<1>4. CASE TornArtifact \/ Crash \/ Restart
  BY <1>4 DEF TornArtifact, Crash, Restart, Die, engineVars
<1>. QED
  BY <1>1, <1>2, <1>3, <1>4

LEMMA FillInvNext ==
    ASSUME TypeInv, TypeInv', FillInv, [Next]_vars
    PROVE  FillInv'
<1> USE FaultAssumption DEF FillInv, FillPCs, SignalOutlivesFill, historyVars, Goto
<1>1. faults \in Nat /\ faults' \in Nat /\ faults' >= faults
  BY FaultFrame DEF TypeInv, TypeOK, EATypeOK, Fault, Next
<1>2. \A t \in Trades : reservation[t] # "none" => reservation'[t] # "none"
  BY ReservationKept
<1>3. ASSUME UNCHANGED <<pending, fills, processed, historyVars>>,
             pc' \notin FillPCs
      PROVE  FillInv'
  BY <1>1, <1>2, <1>3
<1>4. ASSUME UNCHANGED <<pending, fills, processed, historyVars>>, UNCHANGED <<batch, cur, pc>>, UNCHANGED reservation
      PROVE  FillInv'
  BY <1>1, <1>4
<1>5. CASE Housekeep
  <2>1. pending' \subseteq pending /\ UNCHANGED <<fills, processed, historyVars, reservation>>
    BY <1>5 DEF Housekeep, CleanupStale, storeVars, ledgerVars, eaVars, brokerVars
  <2>2. \/ pc' = "mark_uncertain"
        \/ pc' = "evaluate" /\ \A t \in batch' : reservation[t] = "none"
    BY <1>5 DEF Housekeep, Proposals, Unproposed
  <2>. QED
    BY <1>1, <2>1, <2>2
<1>6. ASSUME NEW t \in Trades, EvaluateSymbol(t) PROVE FillInv'
  <2>1. UNCHANGED <<pending, fills, processed, historyVars>>
    BY <1>6 DEF EvaluateSymbol, outsideVars, bridgeVars, signalVars, eaVars, brokerVars
  <2>2. pc = "evaluate" /\ t \in batch /\ batch' = batch \ {t} /\ reservation[t] = "none"
    BY <1>6 DEF EvaluateSymbol
  <2>3. \A u \in Trades \ {t} : reservation[u] = "none" => reservation'[u] = "none"
    BY <1>6 DEF EvaluateSymbol, TryReserve, Lapsed, Active, ActiveReservationStates
  <2>4. \A u \in batch' : reservation'[u] = "none"
    BY <2>2, <2>3 DEF TypeInv, TypeOK, LoopTypeOK
  <2>5. \/ pc' = "evaluate"
        \/ pc' = "lock" /\ cur' = t /\ reservation'[t] = "RESERVED"
    BY <1>6, <2>2 DEF EvaluateSymbol, TryReserve, Lapsed, Active, ActiveReservationStates
  <2>6. fills[t] = 0 /\ t \notin pending
    BY <2>2 DEF TypeInv, TypeOK, EATypeOK, MaxFills
  <2>. QED
    BY <1>1, <1>2, <2>1, <2>4, <2>5, <2>6
<1>7. ASSUME \/ SendLock \/ SendPublish \/ SendReturns \/ SendFailsBeforePublish
             \/ SendFailsAfterPublish \/ InsertPending
      PROVE  FillInv'
  <2>1. \A t \in Trades : reservation[t] = "none" => reservation'[t] = "none"
    <3>1. ~(\E u \in Trades : EvaluateSymbol(u))
      BY <1>7 DEF SendLock, SendPublish, SendReturns, SendFailsBeforePublish,
        SendFailsAfterPublish, InsertPending, EvaluateSymbol
    <3>. QED
      BY <3>1, ReservationKept
  <2>2. cur \in Trades /\ reservation'[cur] # "none" /\ batch \subseteq Trades
    BY <1>2, <1>7 DEF SendLock, SendPublish, SendReturns, SendFailsBeforePublish,
      SendFailsAfterPublish, InsertPending, TypeInv, TypeOK, LoopTypeOK, LoopInv
  <2>3. UNCHANGED <<fills, processed, historyVars>>
    BY <1>7 DEF SendLock, SendPublish, SendReturns, SendFailsBeforePublish,
      SendFailsAfterPublish, InsertPending, outsideVars, eaVars, brokerVars
  <2>4. UNCHANGED batch \/ pc' = "down"
    BY <1>7 DEF SendLock, SendPublish, SendReturns, SendFailsBeforePublish,
      SendFailsAfterPublish, InsertPending, Die
  <2>5. CASE SendPublish
    <3>1. pc = "publish" /\ pc' = "registry" /\ pending' = pending \cup {cur} /\ UNCHANGED cur
      BY <2>5 DEF SendPublish, PublishPending
    <3>2. fills[cur] <= restarts
      BY <2>2, <3>1 DEF TypeInv, TypeOK, EATypeOK
    <3>3. \A t \in pending' \ processed' : fills'[t] <= restarts'
      BY <2>3, <3>1, <3>2
    <3>. QED
      BY <1>1, <1>2, <2>1, <2>2, <2>3, <2>4, <3>1, <3>3
  <2>6. CASE SendLock
    <3>1. pc = "lock" /\ pc' = "publish" /\ UNCHANGED <<cur, pending>>
      BY <2>6 DEF SendLock
    <3>. QED
      BY <1>1, <1>2, <2>1, <2>2, <2>3, <2>4, <3>1
  <2>7. CASE SendReturns
    <3>1. pc = "registry" /\ pc' = "insert" /\ UNCHANGED <<cur, pending>>
      BY <2>7 DEF SendReturns, outsideVars, bridgeVars, signalVars
    <3>. QED
      BY <1>1, <1>2, <2>1, <2>2, <2>3, <2>4, <3>1
  <2>8. CASE SendFailsBeforePublish \/ SendFailsAfterPublish \/ InsertPending
    <3>1. pc \in {"publish", "registry", "insert"} /\ pc' \in {"evaluate", "down"} /\ UNCHANGED pending
      BY <2>8 DEF SendFailsBeforePublish, SendFailsAfterPublish, InsertPending, Die,
        outsideVars, bridgeVars, signalVars
    <3>. QED
      BY <1>1, <1>2, <2>1, <2>2, <2>3, <2>4, <3>1
  <2>. QED
    BY <1>7, <2>5, <2>6, <2>7, <2>8
<1>8. CASE EnvironmentStep
  <2>1. UNCHANGED <<reservation, pc, cur, batch>>
    BY <1>8 DEF EnvironmentStep, InsideUnchanged, storeVars, ledgerVars, engineVars
  <2> USE DEF TypeInv, TypeOK, EATypeOK, BridgeTypeOK, brokerVars
  <2>2. ASSUME NEW t \in Trades, SkipProcessedSignal(t) \/ DropSignal(t) \/ RejectSignal(t)
        PROVE  FillInv'
    <3>1. pending' \subseteq pending /\ UNCHANGED <<fills, processed, restarts>>
      BY <2>2 DEF SkipProcessedSignal, DropSignal, RejectSignal, DeleteSignal, eaVars
    <3>2. reread' = reread \/ (t \in pending /\ fills[t] > 0 /\ reread' = reread \cup {t})
      BY <2>2 DEF SkipProcessedSignal, DropSignal, RejectSignal, NoteReread, eaVars
    <3>3. reread' # {} => SignalOutlivesFill
      BY <3>2
    <3>. QED
      BY <1>1, <2>1, <3>1, <3>2, <3>3
  <2>3. ASSUME NEW t \in Trades, SendOrder(t)
        PROVE  /\ t \in pending \ processed
               /\ fills[t] <= restarts
               /\ fills' = [fills EXCEPT ![t] = @ + 1]
               /\ reread' = reread \cup (IF fills[t] > 0 THEN {t} ELSE {})
               /\ reread' # {} => SignalOutlivesFill
               /\ cur = t => pc \notin {"lock", "publish"}
    <3>1. t \in pending /\ t \notin processed /\ fills' = [fills EXCEPT ![t] = @ + 1]
      BY <2>3 DEF SendOrder, IsProcessed
    <3>2. reread' = reread \cup (IF fills[t] > 0 THEN {t} ELSE {})
      BY <2>3 DEF SendOrder, NoteReread
    <3>. QED
      BY <3>1, <3>2
  <2>4. ASSUME NEW t \in Trades, SendOrder(t), restarts' >= restarts,
               \/ restarts' = restarts /\ processed' = processed \cup {t}
               \/ restarts' = restarts + 1,
               \/ pending' = pending \ {t}
               \/ pending' = pending /\ SignalOutlivesFill'
        PROVE  FillInv'
    <3>1. \A u \in Trades \ {t} : fills'[u] = fills[u]
      BY <2>3, <2>4
    <3>2. fills'[t] = fills[t] + 1 /\ fills[t] \in Nat /\ restarts \in Nat /\ restarts' \in Nat
      BY <2>3, <2>4
    <3>3. \A u \in Trades : fills'[u] <= 1 + restarts'
      BY <2>3, <2>4, <3>1, <3>2
    <3>4. \A u \in Trades \ reread' : fills'[u] <= 1
      BY <2>3, <2>4, <3>1, <3>2
    <3>5. \A u \in Trades : fills'[u] > 0 \/ u \in pending' => reservation'[u] # "none"
      BY <2>1, <2>3, <2>4, <3>1
    <3>6. \A u \in pending' \ processed' : fills'[u] <= restarts'
      <4>1. CASE restarts' = restarts + 1
        BY <3>3, <3>1, <3>2, <2>3, <2>4, <4>1
      <4>2. CASE restarts' = restarts /\ processed' = processed \cup {t}
        BY <2>4, <3>1, <4>2
      <4>. QED
        BY <2>4, <4>1, <4>2
    <3>7. \A u \in pending' : fills'[u] > 0 => SignalOutlivesFill'
      BY <1>1, <2>4, <3>1
    <3>8. reread' # {} => SignalOutlivesFill'
      BY <1>1, <2>3, <2>4
    <3>9. pc' \in {"lock", "publish"} => fills'[cur'] = 0 /\ cur' \notin pending'
      BY <2>1, <2>3, <2>4, <3>1 DEF LoopInv
    <3>. QED
      BY <2>1, <3>3, <3>4, <3>5, <3>6, <3>7, <3>8, <3>9
  <2>5. ASSUME NEW t \in Trades, ExecuteSignal(t) PROVE FillInv'
    <3>1. \/ pending' = pending \ {t}
          \/ pending' = pending /\ "file_delete" \in Faults /\ faults' = faults + 1
      BY <2>5 DEF ExecuteSignal, DeleteSignal, Fault
    <3>. QED
      BY <1>1, <2>4, <2>5, <3>1 DEF ExecuteSignal
  <2>6. ASSUME NEW t \in Trades, KilledInExecution(t) PROVE FillInv'
    <3>1. /\ SendOrder(t) /\ restarts' = restarts + 1 /\ UNCHANGED pending
          /\ "ea_kill" \in Faults /\ faults' = faults + 1
      BY <2>6 DEF KilledInExecution, OnInit, Fault, signalVars
    <3>. QED
      BY <1>1, <2>4, <3>1
  <2>7. ASSUME restarts' = restarts + 1, UNCHANGED <<pending, fills>>,
               reread' = reread \/ SignalOutlivesFill'
               \/ \E t \in pending : fills[t] > 0,
               \A t \in reread : t \in reread'
        PROVE  FillInv'
    BY <1>1, <2>1, <2>7
  <2>8. ASSUME NEW t \in Trades, KilledInRejection(t) PROVE FillInv'
    <3>1. /\ restarts' = restarts + 1 /\ UNCHANGED <<pending, fills>>
          /\ \A u \in reread : u \in reread'
          /\ "ea_kill" \in Faults /\ faults' = faults + 1
      BY <2>8 DEF KilledInRejection, NoteReread, OnInit, Fault, signalVars
    <3>. QED
      BY <1>1, <2>7, <3>1
  <2>9. CASE EARestart
    BY <2>7, <2>9 DEF EARestart, OnInit, signalVars
  <2>10. ASSUME UNCHANGED <<pending, fills, processed, historyVars>> PROVE FillInv'
    BY <1>4, <2>1, <2>10
  <2>11. CASE \/ \E t \in Trades : \/ OnTradeTransaction(t) \/ SweepClosedManagedPosition(t)
                                   \/ PartialClose(t) \/ ClosePosition(t)
              \/ WriteAccountSnapshot
    BY <2>10, <2>11 DEF OnTradeTransaction, SweepClosedManagedPosition, FinalizeClosedPosition,
      PartialClose, ClosePosition, WriteAccountSnapshot, bridgeVars, signalVars, eaVars
  <2>. QED
    BY <1>8, <2>2, <2>5, <2>6, <2>8, <2>9, <2>11
    DEF EnvironmentStep, EANext, EAStep, ProcessPendingSignal
<1>9. CASE Tick \/ UNCHANGED vars
  BY <1>4, <1>9 DEF Tick, vars, storeVars, ledgerVars, outsideVars, bridgeVars, signalVars, eaVars,
    brokerVars, engineVars
<1>. QED
  BY <1>3, <1>5, <1>6, <1>7, <1>8, <1>9, FillFrame DEF Next, EngineStep, DecisionStep

\* A signal is filled at most once and once more for each restart of the EA, over
\* any number of crashes of the engine, and whatever the EA is killed in.
THEOREM SignalFillsWithinRestarts == Spec => []FillsWithinRestarts
<1>1. Init => TypeInv /\ FillInv
  BY TypeInvInit, FillInvInit
<1>2. TypeInv /\ FillInv /\ [Next]_vars => (TypeInv /\ FillInv)'
  BY TypeInvNext, FillInvNext
<1>3. FillInv => FillsWithinRestarts
  BY DEF FillInv, FillsWithinRestarts
<1>. QED
  BY <1>1, <1>2, <1>3, PTL DEF Spec

-----------------------------------------------------------------------------
(* The loss streak *)

DecisionPCs == {"candle", "housekeep", "mark_uncertain", "evaluate", "lock", "publish",
                "registry", "insert", "persist"}

\* Where the loop decides, the streak in memory is the persisted one, and so it
\* is in any process that has seeded it.
StreakInv ==
    /\ seeded => losses = savedLosses
    /\ pc \in DecisionPCs => seeded

\* Only a count and the end of a pass write a metrics row.
LEMMA MetricsFrame ==
    ASSUME [Next]_vars
    PROVE  UNCHANGED metricVars \/ ExitCount \/ RecoverCount \/ PersistMetrics
<1> USE DEF storeVars
<1>1. CASE FeedbackStep
  BY <1>1 DEF FeedbackStep, CollectExecutionFeedback, ApplyExecutionFeedback,
    ExecutionReservation, ExecutionReceipt, ExecutionFinish, ExecutionFeedbackDone,
    CollectTradeExits, ApplyTradeExit, ExitReceipt, ExitReservation, ExitDelete, ExitFeedbackDone
<1>2. CASE RecoveryStep
  BY <1>2 DEF RecoveryStep, ListOpenTrades, RecoverTrade, RecoverExit, RecoveryDone
<1>3. CASE DecisionStep
  BY <1>3 DEF DecisionStep, UpdateAccountState, SkipDecisionCycle, StartDecisionCycle, Housekeep,
    MarkUncertain, FailClosedBridgeUncertainty, EvaluateSymbol, EvaluationDone, SendLock,
    SendExpired, SendPublish, SendFailsBeforePublish, SendReturns, SendFailsAfterPublish,
    InsertPending
<1>4. CASE TornArtifact \/ Crash \/ Restart \/ EnvironmentStep \/ Tick \/ UNCHANGED vars
  BY <1>4 DEF TornArtifact, Crash, Restart, EnvironmentStep, InsideUnchanged, Tick, vars
<1>. QED
  BY <1>1, <1>2, <1>3, <1>4 DEF Next, EngineStep

LEMMA StreakInvInit == Init => StreakInv
BY DEF Init, EngineInit, StreakInv, DecisionPCs

LEMMA StreakInvNext ==
    ASSUME "snapshot" \notin Faults, TypeInv, StreakInv, [Next]_vars
    PROVE  StreakInv' /\ (savedLosses' < savedLosses => RecordsWin)
<1> USE DEF StreakInv
<1>1. savedLosses \in 0..LossHalt
  BY DEF TypeInv, TypeOK, StoreTypeOK
<1>2. ASSUME UNCHANGED metricVars PROVE ~(savedLosses' < savedLosses)
  BY <1>1, <1>2, StoreAssumption DEF metricVars
<1>3. ASSUME UNCHANGED <<losses, seeded, savedLosses>>, pc' \in DecisionPCs => pc \in DecisionPCs
      PROVE  StreakInv'
  BY <1>3
<1>4. ASSUME NEW result, RecordConsecutiveLossUpdate(result), result = "win" => RecordsWin
      PROVE  seeded' /\ losses' = savedLosses' /\ (savedLosses' < savedLosses => RecordsWin)
  <2>1. SeededLosses = savedLosses
    BY DEF SeededLosses
  <2>2. CASE result = "win"
    BY <1>4, <2>2 DEF RecordConsecutiveLossUpdate, InsertAccountMetrics, RecordsWin
  <2>3. CASE result = "loss"
    BY <1>1, <1>4, <2>1, <2>3, StoreAssumption DEF RecordConsecutiveLossUpdate, InsertAccountMetrics
  <2>4. CASE result \notin {"win", "loss"}
    <3>1. losses' = savedLosses /\ savedLosses' = savedLosses
      BY <1>4, <2>1, <2>4 DEF RecordConsecutiveLossUpdate, InsertAccountMetrics, metricVars
    <3>. QED
      BY <1>1, <1>4, <3>1, StoreAssumption DEF RecordConsecutiveLossUpdate
  <2>. QED
    BY <2>2, <2>3, <2>4
<1>5. CASE ExitCount \/ RecoverCount
  <2>1. PICK result : RecordConsecutiveLossUpdate(result) /\ (result = "win" => RecordsWin)
    BY <1>5 DEF ExitCount, RecoverCount, RecordsWin
  <2>. QED
    BY <1>4, <1>5, <2>1 DEF ExitCount, RecoverCount, Goto, DecisionPCs
<1>6. CASE PersistMetrics
  <2>1. pc = "persist" /\ savedLosses' = losses /\ pc' = "collect_exec" /\ UNCHANGED <<losses, seeded>>
    BY <1>6 DEF PersistMetrics, InsertAccountMetrics, Goto, lossVars
  <2>. QED
    BY <1>1, <2>1, StoreAssumption DEF DecisionPCs
<1>7. CASE UpdateAccountState
  <2>1. seeded' /\ losses' = savedLosses /\ UNCHANGED metricVars
    BY <1>7 DEF UpdateAccountState, UpdateAccountStatus, Fault, storeVars
  <2>. QED
    BY <1>2, <2>1 DEF metricVars
<1>8. ASSUME Die, UNCHANGED metricVars PROVE StreakInv'
  BY <1>8 DEF Die, Goto, ForgetMemory, DecisionPCs
<1>9. CASE SendExpired \/ Crash
  BY <1>2, <1>8, <1>9 DEF SendExpired, Crash, storeVars
<1>10. CASE \/ FailClosedBridgeUncertainty \/ SendFailsBeforePublish \/ SendFailsAfterPublish
  <2>1. pc \in DecisionPCs /\ UNCHANGED metricVars
    BY <1>10 DEF FailClosedBridgeUncertainty, SendFailsBeforePublish, SendFailsAfterPublish,
      storeVars, DecisionPCs
  <2>2. UNCHANGED <<losses, seeded>> \/ Die
    BY <1>10 DEF FailClosedBridgeUncertainty, SendFailsBeforePublish, SendFailsAfterPublish,
      lossVars, memoryVars
  <2>. QED
    BY <1>2, <1>8, <2>1, <2>2 DEF metricVars
<1>11. CASE \/ SkipDecisionCycle \/ StartDecisionCycle \/ Housekeep
            \/ \E t \in Trades : MarkUncertain(t) \/ EvaluateSymbol(t)
            \/ EvaluationDone \/ SendLock \/ SendPublish \/ SendReturns \/ InsertPending
  <2>1. pc \in DecisionPCs /\ UNCHANGED metricVars
    BY <1>11 DEF SkipDecisionCycle, StartDecisionCycle, Housekeep, MarkUncertain, EvaluateSymbol,
      EvaluationDone, SendLock, SendPublish, SendReturns, InsertPending, storeVars, DecisionPCs
  <2>2. UNCHANGED <<losses, seeded>>
    BY <1>11, AccountFrame
  <2>. QED
    BY <1>2, <1>3, <2>1, <2>2 DEF metricVars
<1>12. CASE (FeedbackStep /\ ~ExitCount) \/ (RecoveryStep /\ ~RecoverCount)
  <2>1. UNCHANGED metricVars
    BY <1>12, MetricsFrame DEF ExitCount, RecoverCount, PersistMetrics, FeedbackStep, RecoveryStep,
      CollectExecutionFeedback, ApplyExecutionFeedback,
      ExecutionReservation, ExecutionReceipt, ExecutionFinish, ExecutionFeedbackDone,
      CollectTradeExits, ApplyTradeExit, ExitReceipt, ExitReservation, ExitDelete, ExitFeedbackDone,
      ListOpenTrades, RecoverTrade, RecoverExit, RecoveryDone
  <2>2. pc' \notin DecisionPCs
    BY <1>12 DEF DecisionPCs, FeedbackStep, RecoveryStep, Goto,
      CollectExecutionFeedback, ApplyExecutionFeedback,
      ExecutionReservation, ExecutionReceipt, ExecutionFinish, ExecutionFeedbackDone,
      CollectTradeExits, ApplyTradeExit, ExitReceipt, ExitReservation, ExitDelete, ExitFeedbackDone,
      ListOpenTrades, RecoverTrade, RecoverExit, RecoveryDone
  <2>3. UNCHANGED <<losses, seeded>>
    BY <1>12, AccountFrame
  <2>. QED
    BY <1>2, <1>3, <2>1, <2>2, <2>3 DEF metricVars
<1>13. CASE TornArtifact \/ Restart \/ EnvironmentStep \/ Tick \/ UNCHANGED vars
  <2>1. UNCHANGED metricVars /\ (UNCHANGED pc \/ pc' = "collect_exec")
    BY <1>13 DEF TornArtifact, Restart, EnvironmentStep, InsideUnchanged, Tick, vars, storeVars,
      engineVars, Goto
  <2>2. UNCHANGED <<losses, seeded>>
    BY <1>13, AccountFrame
  <2>. QED
    BY <1>2, <1>3, <2>1, <2>2 DEF metricVars, DecisionPCs
<1>. QED
  BY <1>5, <1>6, <1>7, <1>9, <1>10, <1>11, <1>12, <1>13
  DEF Next, EngineStep, DecisionStep

\* The persisted streak shrinks only when a win is recorded: no crash, fault,
\* restart or end of a pass takes a loss back, as long as the terminal answers
\* when the account is refreshed.
THEOREM StreakEndsWithWinHolds == "snapshot" \notin Faults /\ Spec => StreakEndsWithWin
<1> SUFFICES ASSUME "snapshot" \notin Faults PROVE Spec => StreakEndsWithWin
  OBVIOUS
<1>1. Init => TypeInv /\ StreakInv
  BY TypeInvInit, StreakInvInit
<1>2. TypeInv /\ StreakInv /\ [Next]_vars => (TypeInv /\ StreakInv)'
  BY TypeInvNext, StreakInvNext
<1>3. TypeInv /\ StreakInv /\ [Next]_vars => [savedLosses' < savedLosses => RecordsWin]_vars
  BY StreakInvNext
<1>. QED
  BY <1>1, <1>2, <1>3, PTL DEF Spec, StreakEndsWithWin

-----------------------------------------------------------------------------
(* No closure is left uncounted *)

Counted(t) == exitCounts[t] > 0 \/ recoveryCounts[t] > 0

CountingPCs == {"exit_receipt", "exit_reservation", "exit_count", "recover_count"}

\* Without a crash, a closed row is counted, or the loop is on its way to count it.
CountInv ==
    crashes = 0 =>
        \A t \in Trades : row[t] = "CLOSED" => Counted(t) \/ (pc \in CountingPCs /\ cur = t)

\* The steps that close no row, count nothing and leave no closure half-handled.
LEMMA CountFrame ==
    ASSUME TypeInv,
           \/ CollectExecutionFeedback \/ \E t \in Trades : ApplyExecutionFeedback(t)
           \/ ExecutionReservation \/ ExecutionReceipt \/ ExecutionFinish
           \/ ExecutionFeedbackDone \/ CollectTradeExits \/ ExitDelete \/ ExitFeedbackDone
           \/ ListOpenTrades \/ \E t \in Trades : RecoverTrade(t)
           \/ RecoveryDone \/ DecisionStep \/ Restart
    PROVE  /\ \A t \in Trades : row'[t] = "CLOSED" => row[t] = "CLOSED"
           /\ UNCHANGED <<exitCounts, recoveryCounts, crashes>>
           /\ pc \notin CountingPCs
<1> USE DEF storeVars, ledgerVars, clockVars, lossVars, CountingPCs, TypeInv, TypeOK, StoreTypeOK
<1>1. CASE \/ CollectExecutionFeedback \/ ExecutionReservation \/ ExecutionReceipt
           \/ ExecutionFinish \/ ExecutionFeedbackDone \/ CollectTradeExits \/ ExitDelete
           \/ ExitFeedbackDone \/ ListOpenTrades \/ RecoveryDone
  BY <1>1 DEF CollectExecutionFeedback, ExecutionReservation, ExecutionReceipt, ExecutionFinish,
    ExecutionFeedbackDone, CollectTradeExits, ExitDelete, ExitFeedbackDone, ListOpenTrades,
    RecoveryDone
<1>2. ASSUME NEW t \in Trades, ApplyExecutionFeedback(t) \/ RecoverTrade(t)
      PROVE  /\ \A u \in Trades : row'[u] = "CLOSED" => row[u] = "CLOSED"
             /\ UNCHANGED <<exitCounts, recoveryCounts, crashes>>
             /\ pc \notin CountingPCs
  BY <1>2 DEF ApplyExecutionFeedback, RecoverTrade, ApplyExecutionResult
<1>3. CASE DecisionStep
  <2>1. CASE \/ UpdateAccountState \/ SkipDecisionCycle \/ StartDecisionCycle \/ Housekeep
             \/ FailClosedBridgeUncertainty \/ EvaluationDone \/ SendLock
             \/ SendExpired \/ SendPublish \/ SendReturns \/ PersistMetrics
    BY <2>1 DEF UpdateAccountState, SkipDecisionCycle, StartDecisionCycle, Housekeep,
      FailClosedBridgeUncertainty, EvaluationDone, SendLock, SendExpired, SendPublish, SendReturns,
      PersistMetrics
  <2>2. ASSUME NEW t \in Trades, MarkUncertain(t) \/ EvaluateSymbol(t)
        PROVE  /\ \A u \in Trades : row'[u] = "CLOSED" => row[u] = "CLOSED"
               /\ UNCHANGED <<exitCounts, recoveryCounts, crashes>>
               /\ pc \notin CountingPCs
    BY <2>2 DEF MarkUncertain, EvaluateSymbol, MarkExecutionUncertain, InsertProposal
  <2>3. CASE SendFailsBeforePublish \/ SendFailsAfterPublish \/ InsertPending
    BY <2>3 DEF SendFailsBeforePublish, SendFailsAfterPublish, InsertPending, InsertProposal
  <2>. QED
    BY <1>3, <2>1, <2>2, <2>3 DEF DecisionStep
<1>4. CASE Restart
  BY <1>4 DEF Restart, MarkStaleTrades
<1>. QED
  BY <1>1, <1>2, <1>3, <1>4

LEMMA CountInvInit == Init => CountInv
BY DEF Init, StoreInit, CountInv

LEMMA CountInvNext ==
    ASSUME TypeInv, CountInv, [Next]_vars
    PROVE  CountInv'
<1> SUFFICES ASSUME crashes' = 0
             PROVE  \A t \in Trades : row'[t] = "CLOSED" =>
                        Counted(t)' \/ (pc' \in CountingPCs /\ cur' = t)
  BY DEF CountInv
<1> USE DEF CountInv, Counted
<1>1. crashes \in 0..MaxCrashes /\ row \in [Trades -> RowStates]
  BY DEF TypeInv, TypeOK, LoopTypeOK, StoreTypeOK
<1>2. ASSUME NEW t \in Trades, ApplyTradeExit(t) PROVE CountInv'
  <2>1. pc \notin CountingPCs /\ UNCHANGED <<crashes, exitCounts, recoveryCounts>>
    BY <1>2 DEF ApplyTradeExit, CountingPCs, clockVars, lossVars
  <2>2. UNCHANGED row \/ (row' = [row EXCEPT ![t] = "CLOSED"] /\ pc' = "exit_receipt" /\ cur' = t)
    BY <1>2 DEF ApplyTradeExit, ApplyExitResult, Goto
  <2>. QED
    BY <1>1, <2>1, <2>2 DEF CountingPCs
<1>3. CASE ExitReceipt \/ ExitReservation
  BY <1>3 DEF ExitReceipt, ExitReservation, CountingPCs, clockVars, lossVars, Goto
<1>4. ASSUME NEW counts \in [Trades -> 0..MaxCounts], NEW t \in Trades, NEW u \in Trades
      PROVE  Count(counts, t)[t] > 0 /\ (counts[u] > 0 => Count(counts, t)[u] > 0)
  BY DEF Count, MaxCounts
<1>5. CASE ExitCount
  <2>1. UNCHANGED <<row, crashes, recoveryCounts, cur>> /\ exitCounts' = Count(exitCounts, cur)
    BY <1>5 DEF ExitCount, clockVars, ledgerVars
  <2>2. cur \in Trades /\ exitCounts \in [Trades -> 0..MaxCounts]
    BY <1>5 DEF ExitCount, TypeInv, TypeOK, LoopInv, AccountTypeOK
  <2>. QED
    BY <1>4, <2>1, <2>2
<1>6. CASE RecoverExit
  BY <1>1, <1>6 DEF RecoverExit, ApplyExitResult, CountingPCs, clockVars, lossVars, Goto
<1>7. CASE RecoverCount
  <2>1. UNCHANGED <<row, crashes, exitCounts>> /\ recoveryCounts' = Count(recoveryCounts, cur)
    BY <1>7 DEF RecoverCount, clockVars, ledgerVars
  <2>2. cur \in Trades /\ recoveryCounts \in [Trades -> 0..MaxCounts]
    BY <1>7 DEF RecoverCount, TypeInv, TypeOK, LoopInv, AccountTypeOK
  <2>. QED
    BY <1>4, <2>1, <2>2
<1>8. CASE Crash
  BY <1>1, <1>8 DEF Crash
<1>9. CASE TornArtifact \/ EnvironmentStep \/ Tick \/ UNCHANGED vars
  BY <1>9 DEF TornArtifact, EnvironmentStep, InsideUnchanged, Tick, vars, engineVars, storeVars,
    ledgerVars
<1>. QED
  BY <1>2, <1>3, <1>5, <1>6, <1>7, <1>8, <1>9, CountFrame
  DEF Next, EngineStep, FeedbackStep, RecoveryStep

\* While no crash has torn a closure apart, every trade the ledger holds closed
\* has entered the loss streak once the feedback of a pass is consumed, whatever
\* files were locked or torn and whatever history call failed.
THEOREM ClosedTradesCounted == Spec => []ClosedTradeCounted
<1>1. TypeInv /\ CountInv => ClosedTradeCounted
  <2> SUFFICES ASSUME TypeInv, CountInv, pc = "refresh", crashes = 0,
                      NEW t \in Trades, row[t] = "CLOSED"
               PROVE  exitCounts[t] + recoveryCounts[t] >= 1
    BY DEF ClosedTradeCounted
  <2>1. exitCounts[t] \in Nat /\ recoveryCounts[t] \in Nat
    BY DEF TypeInv, TypeOK, AccountTypeOK, MaxCounts
  <2>2. Counted(t)
    BY DEF CountInv, CountingPCs
  <2>. QED
    BY <2>1, <2>2 DEF Counted
<1>2. Init => TypeInv /\ CountInv
  BY TypeInvInit, CountInvInit
<1>3. TypeInv /\ CountInv /\ [Next]_vars => (TypeInv /\ CountInv)'
  BY TypeInvNext, CountInvNext
<1>. QED
  BY <1>1, <1>2, <1>3, PTL DEF Spec

-----------------------------------------------------------------------------
(* An acknowledged position stays on the ledger *)

\* What the EA and the broker may do to a trade: fill it, for the second time only
\* if its signal is handled again, or close it for good.
LEMMA PositionNext ==
    ASSUME TypeInv, [Next]_vars, NEW t \in Trades
    PROVE  /\ \/ position'[t] = position[t] /\ fills'[t] = fills[t]
              \/ /\ position'[t] = "open" /\ position[t] # "closed"
                 /\ fills'[t] = fills[t] + 1
                 /\ t \in pending /\ ~IsProcessed(t)
                 /\ fills[t] # 0 => t \in reread'
              \/ /\ position[t] = "open" /\ position'[t] = "closed"
                 /\ fills'[t] = fills[t]
           /\ t \in reread => t \in reread'
           /\ t \in halved => t \in halved'
<1> USE DEF TypeInv, TypeOK, EATypeOK, eaVars, brokerVars, historyVars, MaxFills
<1>1. CASE UNCHANGED eaVars
  BY <1>1
<1>2. ASSUME NEW u \in Trades, SendOrder(u)
      PROVE  /\ \/ position'[t] = position[t] /\ fills'[t] = fills[t]
                \/ /\ position'[t] = "open" /\ position[t] # "closed"
                   /\ fills'[t] = fills[t] + 1
                   /\ t \in pending /\ ~IsProcessed(t)
                   /\ fills[t] # 0 => t \in reread'
             /\ t \in reread => t \in reread'
             /\ t \in halved => t \in halved'
  BY <1>2 DEF SendOrder, NoteReread
<1>3. ASSUME NEW u \in Trades, ExecuteSignal(u) \/ KilledInExecution(u)
      PROVE  SendOrder(u)
  BY <1>3 DEF ExecuteSignal, KilledInExecution
<1>4. ASSUME NEW u \in Trades, \/ SkipProcessedSignal(u) \/ DropSignal(u) \/ RejectSignal(u)
                               \/ KilledInRejection(u) \/ OnTradeTransaction(u)
                               \/ SweepClosedManagedPosition(u) \/ PartialClose(u)
      PROVE  /\ UNCHANGED <<position, fills>>
             /\ t \in reread => t \in reread'
             /\ t \in halved => t \in halved'
  BY <1>4 DEF SkipProcessedSignal, DropSignal, RejectSignal, KilledInRejection, NoteReread,
    OnTradeTransaction, SweepClosedManagedPosition, FinalizeClosedPosition, PartialClose
<1>5. CASE WriteAccountSnapshot \/ EARestart
  BY <1>5 DEF WriteAccountSnapshot, EARestart
<1>6. ASSUME NEW u \in Trades, ClosePosition(u)
      PROVE  /\ UNCHANGED <<fills, reread, halved>>
             /\ \/ position'[t] = position[t]
                \/ position[t] = "open" /\ position'[t] = "closed"
  BY <1>6 DEF ClosePosition
<1>. QED
  BY <1>1, <1>2, <1>3, <1>4, <1>5, <1>6, EAFrame
  DEF Next, EnvironmentStep, EANext, EAStep, ProcessPendingSignal

\* What the artifacts, the collected payloads, the receipts and the broker say of
\* a trade fits: whatever speaks of a fill has one behind it, only a closed
\* position has an exit artifact, and no refusal waits behind an executed
\* artifact unless the EA handled the signal again.
Evidence(t) ==
    /\ fills[t] = 0 => /\ "EXECUTED" \notin {execFile[t].status, collected[t].status}
                       /\ ~AcknowledgedFill(t)
                       /\ position[t] = "none"
    /\ exitFile[t] # "none" => position[t] = "closed"
    /\ t \notin reread =>
          /\ collected[t].status = "EXECUTED" \/ AcknowledgedFill(t) =>
                execFile[t].status # "REJECTED"
          /\ AcknowledgedFill(t) => collected[t].status # "REJECTED"

EvidenceInv == \A t \in Trades : Evidence(t)

\* While candidates are evaluated they have no row, while an execution is applied
\* its row says so and at last its receipt, and only a position that is closed, if
\* only in part, is recovered as closed.
RowInv ==
    /\ pc \in {"evaluate", "lock", "publish", "registry", "insert"} =>
          \A t \in batch : row[t] = "none"
    /\ pc \in {"lock", "publish", "registry", "insert"} => row[cur] = "none" /\ cur \notin batch
    /\ pc \in {"exec_reservation", "exec_receipt", "exec_finish"}
       /\ collected[cur].status = "EXECUTED" => row[cur] = "EXECUTED_OPEN"
    /\ pc = "exec_finish" /\ collected[cur].status = "EXECUTED" => AcknowledgedFill(cur)
    /\ pc \in {"recover_exit", "recover_count"} => position[cur] = "closed" \/ cur \in halved

LEMMA EvidenceInvInit == Init => EvidenceInv /\ RowInv
<1> SUFFICES ASSUME Init PROVE EvidenceInv /\ RowInv
  OBVIOUS
<1>1. \A t \in Trades : execFile[t].status = "none" /\ collected[t].status = "none"
                        /\ position[t] = "none" /\ exitFile[t] = "none" /\ fills[t] = 0
  BY DEF Init, BridgeInit, EAInit, EngineInit, NothingCollected, NoArtifacts, NoArtifact
<1>2. execReceipts = {} /\ pc = "collect_exec"
  BY DEF Init, StoreInit, EngineInit
<1>. QED
  BY <1>1, <1>2 DEF EvidenceInv, Evidence, RowInv, AcknowledgedFill

LEMMA EvidenceFrame ==
    ASSUME \/ CollectTradeExits \/ ExitReceipt \/ ExitReservation \/ ExitCount
           \/ ExitFeedbackDone \/ ExecutionReservation \/ RecoveryStep
           \/ (DecisionStep /\ ~Die) \/ Restart \/ Tick \/ UNCHANGED vars
    PROVE  UNCHANGED <<execFile, collected, execReceipts, position, fills, exitFile>>
<1> USE DEF storeVars, ledgerVars, receiptVars, outsideVars, bridgeVars, eaVars, brokerVars
<1>1. CASE \/ CollectTradeExits \/ ExitReceipt \/ ExitReservation \/ ExitCount
           \/ ExitFeedbackDone \/ ExecutionReservation \/ Restart \/ Tick \/ UNCHANGED vars
  BY <1>1 DEF CollectTradeExits, ExitReceipt, ExitReservation, ExitCount, ExitFeedbackDone,
    ExecutionReservation, Restart, Tick, vars, engineVars
<1>2. CASE RecoveryStep
  BY <1>2 DEF RecoveryStep, ListOpenTrades, RecoverTrade, RecoverExit, RecoverCount, RecoveryDone
<1>3. CASE DecisionStep /\ ~Die
  BY <1>3 DEF DecisionStep, UpdateAccountState, SkipDecisionCycle, StartDecisionCycle, Housekeep,
    MarkUncertain, FailClosedBridgeUncertainty, EvaluateSymbol, EvaluationDone, SendLock,
    SendExpired, SendPublish, SendFailsBeforePublish, SendReturns, SendFailsAfterPublish,
    InsertPending, PersistMetrics
<1>. QED
  BY <1>1, <1>2, <1>3

\* A process that goes down forgets what it collected and changes nothing outside.
LEMMA DeathFrame ==
    ASSUME Die, DecisionStep \/ Crash
    PROVE  /\ UNCHANGED <<execFile, execReceipts, position, fills, exitFile>>
           /\ pc' = "down" /\ \A t \in Trades : collected'[t] = NoArtifact
<1>1. pc' = "down" /\ collected' = NoArtifacts
  BY DEF Die, Goto, ForgetMemory, NothingCollected
<1>2. Crash \/ SendExpired \/ SendFailsBeforePublish \/ SendFailsAfterPublish
  BY <1>1 DEF DecisionStep, UpdateAccountState, SkipDecisionCycle, StartDecisionCycle, Housekeep,
    MarkUncertain, FailClosedBridgeUncertainty, EvaluateSymbol, EvaluationDone, SendLock,
    SendPublish, SendReturns, InsertPending, PersistMetrics, Goto
<1>. QED
  BY <1>1, <1>2 DEF Crash, SendExpired, SendFailsBeforePublish, SendFailsAfterPublish, NoArtifacts,
    storeVars, ledgerVars, receiptVars, outsideVars, bridgeVars, eaVars, brokerVars

\* What a step may take away: artifacts and what was collected of them.
LEMMA EvidenceKept ==
    ASSUME NEW t, Evidence(t),
           execFile'[t] = execFile[t] \/ execFile'[t] = NoArtifact,
           \/ collected'[t] = collected[t] \/ collected'[t] = NoArtifact
           \/ collected'[t] = execFile[t],
           AcknowledgedFill(t)' =>
               \/ AcknowledgedFill(t)
               \/ collected[t].status = "EXECUTED" /\ collected'[t] = collected[t],
           position'[t] = position[t], fills'[t] = fills[t],
           exitFile'[t] = exitFile[t] \/ exitFile'[t] = "none",
           t \in reread => t \in reread'
    PROVE  Evidence(t)'
<1>1. NoArtifact.status = "none"
  BY DEF NoArtifact
<1>. QED
  BY <1>1 DEF Evidence

LEMMA EvidenceInvNext ==
    ASSUME TypeInv, EvidenceInv, [Next]_vars
    PROVE  EvidenceInv'
<1> SUFFICES ASSUME NEW u \in Trades, Evidence(u) PROVE Evidence(u)'
  BY DEF EvidenceInv
<1>1. /\ execFile \in [Trades -> ExecArtifacts \cup {NoArtifact}]
      /\ exitFile \in [Trades -> ExitIds \cup {"none"}]
      /\ position \in [Trades -> {"none", "open", "closed"}]
      /\ fills \in [Trades -> 0..MaxFills]
  BY DEF TypeInv, TypeOK, BridgeTypeOK, EATypeOK
<1>0. u \in reread => u \in reread'
  BY PositionNext
<1>2. UNCHANGED execReceipts => (AcknowledgedFill(u)' <=> AcknowledgedFill(u))
  BY DEF AcknowledgedFill
<1>3. CASE UNCHANGED <<execFile, collected, execReceipts, position, fills, exitFile>>
  BY <1>2, <1>3, <1>0, EvidenceKept
<1>4. CASE CollectExecutionFeedback
  <2>1. UNCHANGED <<execFile, execReceipts, position, fills, exitFile>>
    BY <1>4 DEF CollectExecutionFeedback, storeVars, ledgerVars, receiptVars, bridgeVars, eaVars,
      brokerVars
  <2>2. collected'[u] = execFile[u] \/ collected'[u] = NoArtifact
    BY <1>4 DEF CollectExecutionFeedback
  <2>. QED
    BY <1>2, <2>1, <2>2, <1>0, EvidenceKept
<1>5. ASSUME UNCHANGED <<collected, execReceipts, position, fills>>,
             UNCHANGED execFile \/ \E t \in Trades : DeleteExecArtifact(t),
             UNCHANGED exitFile \/ \E t \in Trades : DeleteExitArtifact(t)
      PROVE  Evidence(u)'
  <2>1. execFile'[u] = execFile[u] \/ execFile'[u] = NoArtifact
    BY <1>1, <1>5 DEF DeleteExecArtifact
  <2>2. exitFile'[u] = exitFile[u] \/ exitFile'[u] = "none"
    BY <1>1, <1>5 DEF DeleteExitArtifact
  <2>. QED
    BY <1>2, <1>5, <2>1, <2>2, <1>0, EvidenceKept
<1>6. CASE \/ \E t \in Trades : ApplyExecutionFeedback(t)
           \/ ExecutionFinish
           \/ \E t \in Trades : ApplyTradeExit(t)
           \/ ExitDelete \/ TornArtifact
  <2> USE DEF Unlink, storeVars, ledgerVars, receiptVars, signalVars, eaVars, brokerVars, engineVars
  <2>1. CASE \E t \in Trades : ApplyExecutionFeedback(t)
    BY <1>5, <2>1 DEF ApplyExecutionFeedback
  <2>2. CASE ExecutionFinish
    <3>1. cur \in Trades
      BY <2>2 DEF ExecutionFinish, TypeInv, LoopInv
    <3>. QED
      BY <1>5, <2>2, <3>1 DEF ExecutionFinish
  <2>3. CASE \E t \in Trades : ApplyTradeExit(t)
    BY <1>5, <2>3 DEF ApplyTradeExit
  <2>4. CASE ExitDelete
    <3>1. cur \in Trades
      BY <2>4 DEF ExitDelete, TypeInv, LoopInv
    <3>. QED
      BY <1>5, <2>4, <3>1 DEF ExitDelete
  <2>5. CASE TornArtifact
    BY <1>5, <2>5 DEF TornArtifact, ExecFiles, ExitFiles
  <2>. QED
    BY <1>6, <2>1, <2>2, <2>3, <2>4, <2>5
<1>7. CASE ExecutionReceipt
  <2>1. execReceipts' = execReceipts \cup {<<cur, collected[cur]>>}
        /\ UNCHANGED <<execFile, collected, position, fills, exitFile>>
    BY <1>7 DEF ExecutionReceipt, RecordExecReceipt, outsideVars, bridgeVars, eaVars, brokerVars
  <2>2. AcknowledgedFill(u)' => AcknowledgedFill(u) \/ collected[u].status = "EXECUTED"
    BY <2>1 DEF AcknowledgedFill
  <2>. QED
    BY <2>1, <2>2, <1>0, EvidenceKept
<1>8. CASE ExecutionFeedbackDone
  <2>1. UNCHANGED <<execFile, execReceipts, position, fills, exitFile>>
        /\ collected'[u] = NoArtifact
    BY <1>8 DEF ExecutionFeedbackDone, NothingCollected, NoArtifacts, storeVars, ledgerVars,
      receiptVars, outsideVars, bridgeVars, eaVars, brokerVars
  <2>. QED
    BY <1>2, <2>1, <1>0, EvidenceKept
<1>9. CASE Die /\ (DecisionStep \/ Crash)
  BY <1>2, <1>9, DeathFrame, <1>0, EvidenceKept
<1>10. CASE EnvironmentStep
  <2>1. UNCHANGED <<collected, execReceipts>>
    BY <1>10 DEF EnvironmentStep, InsideUnchanged, storeVars, ledgerVars, receiptVars, engineVars
  <2> USE DEF eaVars, brokerVars, bridgeVars, signalVars, historyVars
  <2>2. ASSUME NEW t \in Trades, RejectSignal(t) \/ KilledInRejection(t) PROVE Evidence(u)'
    <3>1. /\ execFile' = [execFile EXCEPT ![t] = [status |-> "REJECTED", ticket |-> 0, at |-> now]]
          /\ UNCHANGED <<position, fills, exitFile>>
          /\ fills[t] > 0 => t \in reread'
      BY <2>2 DEF RejectSignal, KilledInRejection, WriteExecutionFeedback, NoteReread
    <3>2. CASE u = t
      <4>1. execFile'[u].status = "REJECTED"
        BY <1>1, <3>1, <3>2
      <4>2. u \notin reread' => fills[u] = 0
        BY <1>1, <3>1, <3>2 DEF MaxFills
      <4>. QED
        BY <1>0, <1>2, <2>1, <3>1, <4>1, <4>2 DEF Evidence
    <3>3. CASE u # t
      BY <1>0, <1>1, <1>2, <2>1, <3>1, <3>3, EvidenceKept
    <3>. QED
      BY <3>2, <3>3
  <2>3. ASSUME NEW t \in Trades, ExecuteSignal(t) \/ KilledInExecution(t) PROVE Evidence(u)'
    <3>1. SendOrder(t) /\ UNCHANGED exitFile
      BY <2>3 DEF ExecuteSignal, KilledInExecution
    <3>2. /\ fills' = [fills EXCEPT ![t] = @ + 1]
          /\ position' = [position EXCEPT ![t] = "open"]
          /\ position[t] # "closed"
          /\ fills[t] > 0 => t \in reread'
      BY <3>1 DEF SendOrder, NoteReread
    <3>3. UNCHANGED execFile
          \/ execFile' = [execFile EXCEPT ![t] = [status |-> "EXECUTED", ticket |-> fills[t] + 1, at |-> now]]
      BY <2>3 DEF ExecuteSignal, KilledInExecution, WriteExecutionFeedback
    <3>4. CASE u = t
      <4>1. fills'[u] # 0 /\ position'[u] = "open" /\ exitFile'[u] = "none"
        BY <1>1, <3>1, <3>2, <3>4 DEF Evidence, MaxFills
      <4>2. u \notin reread' => ~AcknowledgedFill(u) /\ collected[u].status # "EXECUTED"
        BY <1>1, <3>2, <3>4 DEF Evidence, MaxFills
      <4>. QED
        BY <1>2, <2>1, <4>1, <4>2 DEF Evidence
    <3>5. CASE u # t
      BY <1>0, <1>1, <1>2, <2>1, <3>1, <3>2, <3>3, <3>5, EvidenceKept
    <3>. QED
      BY <3>4, <3>5
  <2>4. ASSUME NEW t \in Trades, OnTradeTransaction(t) \/ SweepClosedManagedPosition(t)
        PROVE  Evidence(u)'
    <3>1. FinalizeClosedPosition(t)
      BY <2>4 DEF OnTradeTransaction, SweepClosedManagedPosition
    <3>2. position[t] = "closed" /\ UNCHANGED <<execFile, position, fills>>
          /\ (u # t => exitFile'[u] = exitFile[u])
      BY <1>1, <3>1 DEF FinalizeClosedPosition
    <3>. QED
      BY <1>0, <1>2, <2>1, <3>2 DEF Evidence
  <2>5. ASSUME NEW t \in Trades, ClosePosition(t) PROVE Evidence(u)'
    <3>1. position[t] = "open" /\ position' = [position EXCEPT ![t] = "closed"]
          /\ UNCHANGED <<execFile, exitFile, fills>>
      BY <2>5 DEF ClosePosition
    <3>2. CASE u = t
      BY <1>0, <1>1, <1>2, <2>1, <3>1, <3>2 DEF Evidence
    <3>3. CASE u # t
      BY <1>0, <1>1, <1>2, <2>1, <3>1, <3>3, EvidenceKept
    <3>. QED
      BY <3>2, <3>3
  <2>6. CASE \/ \E t \in Trades : SkipProcessedSignal(t) \/ DropSignal(t) \/ PartialClose(t)
             \/ WriteAccountSnapshot \/ EARestart
    BY <1>3, <2>1, <2>6 DEF SkipProcessedSignal, DropSignal, PartialClose, WriteAccountSnapshot,
      EARestart
  <2>. QED
    BY <1>10, <2>2, <2>3, <2>4, <2>5, <2>6 DEF EnvironmentStep, EANext, EAStep, ProcessPendingSignal
<1>. QED
  BY <1>3, <1>4, <1>6, <1>7, <1>8, <1>9, <1>10, EvidenceFrame
  DEF Next, EngineStep, FeedbackStep, Crash

RoutePCs == {"lock", "publish", "registry", "insert"}

\* The steps around which nothing is evaluated, routed, applied or recovered.
LEMMA RowFrame ==
    ASSUME \/ CollectExecutionFeedback \/ ExecutionFinish
           \/ ExecutionFeedbackDone \/ CollectTradeExits
           \/ \E t \in Trades : ApplyTradeExit(t)
           \/ ExitReceipt \/ ExitReservation \/ ExitCount \/ ExitDelete \/ ExitFeedbackDone
           \/ ListOpenTrades \/ RecoverCount \/ RecoveryDone \/ UpdateAccountState
           \/ SkipDecisionCycle \/ StartDecisionCycle \/ \E t \in Trades : MarkUncertain(t)
           \/ FailClosedBridgeUncertainty \/ EvaluationDone \/ SendExpired \/ PersistMetrics
           \/ Crash \/ Restart
    PROVE  pc' \notin RoutePCs \cup {"evaluate", "exec_reservation", "exec_receipt", "exec_finish",
                                     "recover_exit", "recover_count"}
<1> USE DEF Goto, RoutePCs
<1>1. CASE \/ CollectExecutionFeedback \/ ExecutionFinish
           \/ ExecutionFeedbackDone \/ CollectTradeExits
           \/ \E t \in Trades : ApplyTradeExit(t)
           \/ ExitReceipt \/ ExitReservation \/ ExitCount \/ ExitDelete \/ ExitFeedbackDone
  BY <1>1 DEF CollectExecutionFeedback, ExecutionFinish, ExecutionFeedbackDone,
    CollectTradeExits, ApplyTradeExit, ExitReceipt, ExitReservation, ExitCount, ExitDelete,
    ExitFeedbackDone
<1>2. CASE \/ ListOpenTrades \/ RecoverCount \/ RecoveryDone \/ UpdateAccountState
           \/ SkipDecisionCycle \/ StartDecisionCycle \/ \E t \in Trades : MarkUncertain(t)
           \/ FailClosedBridgeUncertainty \/ EvaluationDone \/ SendExpired \/ PersistMetrics
           \/ Crash \/ Restart
  BY <1>2 DEF ListOpenTrades, RecoverCount, RecoveryDone, UpdateAccountState, SkipDecisionCycle,
    StartDecisionCycle, MarkUncertain, FailClosedBridgeUncertainty, EvaluationDone, SendExpired,
    PersistMetrics, Crash, Restart, Die
<1>. QED
  BY <1>1, <1>2

LEMMA RowInvNext ==
    ASSUME TypeInv, RowInv, [Next]_vars
    PROVE  RowInv'
<1>1. /\ row \in [Trades -> RowStates]
      /\ batch \subseteq Trades
      /\ position \in [Trades -> {"none", "open", "closed"}]
      /\ pc \in RoutePCs \cup {"recover_exit", "recover_count"} => cur \in Trades
  BY DEF TypeInv, TypeOK, StoreTypeOK, LoopTypeOK, EATypeOK, LoopInv, RoutePCs
<1>2. ASSUME NEW t \in Trades, ApplyExecutionFeedback(t) PROVE RowInv'
  <2>1. \/ UNCHANGED pc
        \/ /\ pc' = "exec_reservation" /\ cur' = t /\ UNCHANGED collected
           /\ row' = [row EXCEPT ![t] = IF collected[t].status = "EXECUTED" THEN "EXECUTED_OPEN"
                                        ELSE "REJECTED"]
    BY <1>2 DEF ApplyExecutionFeedback, ApplyExecutionResult, Goto
  <2>2. pc = "exec"
    BY <1>2 DEF ApplyExecutionFeedback
  <2>. QED
    BY <1>1, <2>1, <2>2 DEF RowInv
<1>3. CASE ExecutionReservation \/ ExecutionReceipt
  <2>1. /\ pc \in {"exec_reservation", "exec_receipt"} /\ UNCHANGED <<cur, collected, row>>
        /\ \/ pc' = "exec_receipt"
           \/ pc' = "exec_finish" /\ <<cur, collected[cur]>> \in execReceipts'
    BY <1>3 DEF ExecutionReservation, ExecutionReceipt, RecordExecReceipt, Goto, ledgerVars
  <2>. QED
    BY <2>1 DEF AcknowledgedFill, RowInv
<1>4. ASSUME NEW t \in Trades, RecoverTrade(t) PROVE RowInv'
  <2>1. /\ pc = "recover" /\ UNCHANGED <<position, halved>>
        /\ \/ UNCHANGED pc
           \/ /\ pc' = "recover_exit" /\ cur' = t
              /\ position[t] = "closed" \/ t \in halved
    BY <1>4 DEF RecoverTrade, HistoryShowsClosure, Goto, eaVars, brokerVars
  <2>. QED
    BY <2>1 DEF RowInv
<1>5. CASE RecoverExit
  <2>1. pc = "recover_exit" /\ pc' = "recover_count" /\ UNCHANGED <<cur, position, halved>>
    BY <1>5 DEF RecoverExit, Goto, outsideVars, eaVars, brokerVars
  <2>. QED
    BY <2>1 DEF RowInv
<1>6. CASE Housekeep
  <2>1. UNCHANGED row /\ (pc' = "mark_uncertain" \/ (pc' = "evaluate" /\ batch' \subseteq Unproposed))
    BY <1>6 DEF Housekeep, Proposals, Goto, storeVars, ledgerVars
  <2>. QED
    BY <2>1 DEF RowInv, Unproposed
<1>7. ASSUME NEW t \in Trades, EvaluateSymbol(t) PROVE RowInv'
  <2>1. pc = "evaluate" /\ t \in batch /\ batch' = batch \ {t}
    BY <1>7 DEF EvaluateSymbol
  <2>2. \/ pc' = "evaluate" /\ row' = [row EXCEPT ![t] = "REJECTED"]
        \/ pc' = "lock" /\ cur' = t /\ UNCHANGED row
    BY <1>7 DEF EvaluateSymbol, InsertProposal, Goto
  <2>. QED
    BY <1>1, <2>1, <2>2 DEF RowInv
<1>8. CASE SendLock \/ SendPublish \/ SendReturns
  <2>1. pc \in RoutePCs /\ pc' \in RoutePCs /\ UNCHANGED <<row, cur, batch>>
    BY <1>8 DEF SendLock, SendPublish, SendReturns, RoutePCs, Goto, storeVars, ledgerVars
  <2>. QED
    BY <2>1 DEF RowInv, RoutePCs
<1>9. CASE SendFailsBeforePublish \/ SendFailsAfterPublish \/ InsertPending
  <2>1. /\ pc \in RoutePCs
        /\ \/ pc' = "down"
           \/ /\ pc' = "evaluate" /\ UNCHANGED batch
              /\ \E status \in RowStates : row' = [row EXCEPT ![cur] = status]
    BY <1>9 DEF SendFailsBeforePublish, SendFailsAfterPublish, InsertPending, InsertProposal, Die,
      Goto, RoutePCs, RowStates
  <2>. QED
    BY <1>1, <2>1 DEF RowInv, RoutePCs
<1>10. CASE EnvironmentStep
  <2>1. UNCHANGED <<pc, row, cur, batch, collected, execReceipts>>
    BY <1>10 DEF EnvironmentStep, InsideUnchanged, storeVars, ledgerVars, receiptVars, engineVars
  <2>2. \A t \in Trades : /\ position[t] = "closed" => position'[t] = "closed"
                          /\ t \in halved => t \in halved'
    BY PositionNext
  <2>. QED
    BY <1>1, <2>1, <2>2 DEF RowInv, AcknowledgedFill
<1>11. CASE TornArtifact \/ Tick \/ UNCHANGED vars
  BY <1>11 DEF TornArtifact, Tick, vars, engineVars, storeVars, ledgerVars, outsideVars, eaVars,
    brokerVars, receiptVars, AcknowledgedFill, RowInv
<1>12. pc' \notin RoutePCs \cup {"evaluate", "exec_reservation", "exec_receipt", "exec_finish",
                                 "recover_exit", "recover_count"} => RowInv'
  BY DEF RowInv, RoutePCs
<1>. QED
  BY <1>2, <1>3, <1>4, <1>5, <1>6, <1>7, <1>8, <1>9, <1>10, <1>11, <1>12, RowFrame
  DEF Next, EngineStep, FeedbackStep, RecoveryStep, DecisionStep

\* The row of an open position only changes to say that it is executed, or, while a
\* closure is recovered, closed.
LEMMA OpenRowNext ==
    ASSUME TypeInv, EvidenceInv, RowInv, [Next]_vars,
           NEW t \in Trades, position[t] = "open", row[t] \in {"EXECUTED_OPEN", "CLOSED"},
           collected[t].status # "REJECTED"
    PROVE  \/ row'[t] = row[t]
           \/ row'[t] = "EXECUTED_OPEN"
           \/ RecoverExit /\ cur = t /\ t \in halved /\ row'[t] = "CLOSED"
<1>1. /\ row \in [Trades -> RowStates]
      /\ exitFile[t] = "none"
  BY DEF TypeInv, TypeOK, StoreTypeOK, EvidenceInv, Evidence
<1>2. CASE UNCHANGED row
  BY <1>2
<1>3. ASSUME NEW u \in Trades, ApplyExecutionFeedback(u)
      PROVE  row'[t] \in {row[t], "EXECUTED_OPEN"}
  <2>1. UNCHANGED row \/ ApplyExecutionResult(u, collected[u].status)
    BY <1>3 DEF ApplyExecutionFeedback
  <2>2. u = t => collected[t].status = "EXECUTED"
    <3>1. u \in batch /\ pc = "exec"
      BY <1>3 DEF ApplyExecutionFeedback
    <3>2. collected[u] \in ExecArtifacts
      BY <3>1 DEF TypeInv, LoopInv
    <3>. QED
      BY <1>1, <3>2 DEF ExecArtifacts
  <2>. QED
    BY <1>1, <2>1, <2>2 DEF ApplyExecutionResult
<1>4. ASSUME NEW u \in Trades, ApplyTradeExit(u) PROVE row'[t] = row[t]
  <2>1. u # t
    <3>1. exitFile[u] \in ExitIds
      BY <1>4 DEF ApplyTradeExit, TypeInv, LoopInv
    <3>. QED
      BY <1>1, <3>1 DEF ExitIds
  <2>. QED
    BY <1>1, <1>4, <2>1 DEF ApplyTradeExit, ApplyExitResult
<1>5. ASSUME NEW u \in Trades, RecoverTrade(u) PROVE row'[t] \in {row[t], "EXECUTED_OPEN"}
  BY <1>1, <1>5 DEF RecoverTrade, ApplyExecutionResult
<1>6. CASE RecoverExit
  <2>1. cur = t => t \in halved
    BY <1>6 DEF RecoverExit, RowInv
  <2>. QED
    BY <1>1, <1>6, <2>1 DEF RecoverExit, ApplyExitResult
<1>7. ASSUME NEW u \in Trades, MarkUncertain(u) PROVE row'[t] = row[t]
  BY <1>1, <1>7 DEF MarkUncertain, MarkExecutionUncertain
<1>8. ASSUME NEW u \in Trades, EvaluateSymbol(u) PROVE row'[t] = row[t]
  <2>1. u # t
    BY <1>1, <1>8 DEF EvaluateSymbol, RowInv
  <2>. QED
    BY <1>1, <1>8, <2>1 DEF EvaluateSymbol, InsertProposal
<1>9. CASE SendFailsBeforePublish \/ SendFailsAfterPublish \/ InsertPending
  <2>1. cur # t
    BY <1>1, <1>9 DEF SendFailsBeforePublish, SendFailsAfterPublish, InsertPending, RowInv
  <2>. QED
    BY <1>1, <1>9, <2>1 DEF SendFailsBeforePublish, SendFailsAfterPublish, InsertPending,
      InsertProposal
<1>10. CASE Restart
  BY <1>1, <1>10 DEF Restart, MarkStaleTrades
<1>11. \/ UNCHANGED row \/ Restart
       \/ \E u \in Trades : \/ ApplyExecutionFeedback(u) \/ ApplyTradeExit(u) \/ RecoverTrade(u)
                            \/ MarkUncertain(u) \/ EvaluateSymbol(u)
       \/ RecoverExit \/ SendFailsBeforePublish \/ SendFailsAfterPublish \/ InsertPending
  <2> USE DEF storeVars, ledgerVars
  <2>1. CASE FeedbackStep \/ RecoveryStep
    BY <2>1 DEF FeedbackStep, RecoveryStep, CollectExecutionFeedback, ExecutionReservation,
      ExecutionReceipt, ExecutionFinish, ExecutionFeedbackDone, CollectTradeExits, ExitReceipt,
      ExitReservation, ExitCount, ExitDelete, ExitFeedbackDone, ListOpenTrades, RecoverCount,
      RecoveryDone
  <2>2. CASE DecisionStep
    BY <2>2 DEF DecisionStep, UpdateAccountState, SkipDecisionCycle, StartDecisionCycle, Housekeep,
      FailClosedBridgeUncertainty, EvaluationDone, SendLock, SendExpired, SendPublish, SendReturns,
      PersistMetrics
  <2>3. CASE TornArtifact \/ Crash \/ EnvironmentStep \/ Tick \/ UNCHANGED vars
    BY <2>3 DEF TornArtifact, Crash, EnvironmentStep, InsideUnchanged, Tick, vars
  <2>. QED
    BY <2>1, <2>2, <2>3 DEF Next, EngineStep
<1>. QED
  BY <1>2, <1>3, <1>4, <1>5, <1>6, <1>7, <1>8, <1>9, <1>10, <1>11

\* A trade is acknowledged when its executed artifact is receipted, and not before.
LEMMA AcknowledgedByReceipt ==
    ASSUME [Next]_vars, NEW t
    PROVE  /\ AcknowledgedFill(t) => AcknowledgedFill(t)'
           /\ AcknowledgedFill(t)' =>
                 \/ AcknowledgedFill(t)
                 \/ ExecutionReceipt /\ cur = t /\ collected[t].status = "EXECUTED"
<1>1. UNCHANGED execReceipts \/ ExecutionReceipt
  <2> USE DEF storeVars, ledgerVars, receiptVars
  <2>1. CASE FeedbackStep \/ RecoveryStep
    BY <2>1 DEF FeedbackStep, RecoveryStep, CollectExecutionFeedback, ApplyExecutionFeedback,
      ExecutionReservation, ExecutionFinish, ExecutionFeedbackDone, CollectTradeExits,
      ApplyTradeExit, ExitReceipt, ExitReservation, ExitCount, ExitDelete, ExitFeedbackDone,
      ListOpenTrades, RecoverTrade, RecoverExit, RecoverCount, RecoveryDone
  <2>2. CASE DecisionStep
    BY <2>2 DEF DecisionStep, UpdateAccountState, SkipDecisionCycle, StartDecisionCycle,
      Housekeep, MarkUncertain, FailClosedBridgeUncertainty, EvaluateSymbol, EvaluationDone,
      SendLock, SendExpired, SendPublish, SendFailsBeforePublish, SendReturns,
      SendFailsAfterPublish, InsertPending, PersistMetrics
  <2>3. CASE TornArtifact \/ Crash \/ Restart \/ EnvironmentStep \/ Tick \/ UNCHANGED vars
    BY <2>3 DEF TornArtifact, Crash, Restart, EnvironmentStep, InsideUnchanged, Tick, vars
  <2>. QED
    BY <2>1, <2>2, <2>3 DEF Next, EngineStep
<1>2. ASSUME ExecutionReceipt PROVE execReceipts' = execReceipts \cup {<<cur, collected[cur]>>}
  BY <1>2 DEF ExecutionReceipt, RecordExecReceipt
<1>. QED
  BY <1>1, <1>2 DEF AcknowledgedFill

\* A position open after a step, acknowledged before it and handled once, was open
\* before it, and no refusal of it has been collected.
LEMMA AcknowledgedWasOpen ==
    ASSUME TypeInv, EvidenceInv, [Next]_vars,
           NEW t \in Trades \ reread', position'[t] = "open", AcknowledgedFill(t)
    PROVE  t \notin reread /\ position[t] = "open" /\ collected[t].status # "REJECTED"
<1>1. fills[t] # 0 /\ t \notin reread
  BY PositionNext DEF EvidenceInv, Evidence
<1>2. position[t] = "open"
  BY <1>1, PositionNext
<1>. QED
  BY <1>1, <1>2 DEF EvidenceInv, Evidence

OnRecord(t) == row[t] = "EXECUTED_OPEN" \/ (t \in halved /\ row[t] = "CLOSED")

RecordInv == \A t \in OpenPositions \ reread : AcknowledgedFill(t) => OnRecord(t)

LEMMA RecordInvNext ==
    ASSUME TypeInv, EvidenceInv, RowInv, RecordInv, [Next]_vars
    PROVE  RecordInv'
<1> SUFFICES ASSUME NEW t \in Trades \ reread', position'[t] = "open", AcknowledgedFill(t)'
             PROVE  OnRecord(t)'
  BY DEF RecordInv, OpenPositions
<1>1. CASE AcknowledgedFill(t)
  <2>1. t \notin reread /\ position[t] = "open" /\ collected[t].status # "REJECTED"
    BY <1>1, AcknowledgedWasOpen
  <2>2. OnRecord(t)
    BY <1>1, <2>1 DEF RecordInv, OpenPositions
  <2>3. t \in halved => t \in halved'
    BY PositionNext
  <2>. QED
    BY <2>1, <2>2, <2>3, OpenRowNext DEF OnRecord
<1>2. CASE ExecutionReceipt /\ cur = t /\ collected[t].status = "EXECUTED"
  BY <1>2 DEF ExecutionReceipt, RowInv, OnRecord, ledgerVars
<1>. QED
  BY <1>1, <1>2, AcknowledgedByReceipt

\* A position whose execution was acknowledged and receipted is on the ledger until
\* the broker closes it, or closes a part of it: over crashes between any two
\* steps, restarts and kills of the EA, late or lost artifacts and failed calls,
\* as long as the EA has not handled its signal again.
THEOREM AcknowledgedOnLedger == Spec => []AcknowledgedPositionOnLedger
<1> DEFINE I == TypeInv /\ EvidenceInv /\ RowInv /\ RecordInv
<1>1. Init => I
  <2>1. Init => RecordInv
    BY DEF Init, StoreInit, RecordInv, AcknowledgedFill
  <2>. QED
    BY <2>1, TypeInvInit, EvidenceInvInit
<1>2. I /\ [Next]_vars => I'
  BY TypeInvNext, EvidenceInvNext, RowInvNext, RecordInvNext
<1>3. I => AcknowledgedPositionOnLedger
  BY DEF RecordInv, OnRecord, AcknowledgedPositionOnLedger, OpenPositions, Ledger
<1>. QED
  BY <1>1, <1>2, <1>3, PTL DEF Spec

-----------------------------------------------------------------------------
(* As long as the listing of the open positions does not fail, a partial close is *)
(* never taken for a closure once the execution is acknowledged.                   *)

\* What is recovered is closed, or its execution has not been acknowledged.
Recoverable(t) == position[t] = "open" /\ t \notin reread => ~AcknowledgedFill(t)

OpenRecordInv ==
    /\ \A t \in OpenPositions \ reread : AcknowledgedFill(t) => row[t] = "EXECUTED_OPEN"
    /\ pc = "recover" => \A t \in batch : Recoverable(t)
    /\ pc \in {"recover_exit", "recover_count"} =>
          Recoverable(cur) /\ \A t \in batch : Recoverable(t)

LEMMA OpenRecordInvNext ==
    ASSUME "positions" \notin Faults, TypeInv, EvidenceInv, RowInv, OpenRecordInv, [Next]_vars
    PROVE  OpenRecordInv'
<1>1. ASSUME NEW t \in Trades \ reread', position'[t] = "open", AcknowledgedFill(t)'
      PROVE  row'[t] = "EXECUTED_OPEN"
  <2>1. CASE AcknowledgedFill(t)
    <3>1. t \notin reread /\ position[t] = "open" /\ collected[t].status # "REJECTED"
      BY <1>1, <2>1, AcknowledgedWasOpen
    <3>2. row[t] = "EXECUTED_OPEN"
      BY <2>1, <3>1 DEF OpenRecordInv, OpenPositions
    <3>3. ~(RecoverExit /\ cur = t)
      BY <2>1, <3>1 DEF RecoverExit, OpenRecordInv, Recoverable
    <3>. QED
      BY <3>1, <3>2, <3>3, OpenRowNext
  <2>2. CASE ExecutionReceipt /\ cur = t /\ collected[t].status = "EXECUTED"
    BY <2>2 DEF ExecutionReceipt, RowInv, ledgerVars
  <2>. QED
    BY <1>1, <2>1, <2>2, AcknowledgedByReceipt
<1>2. ASSUME NEW t \in Trades, Recoverable(t), ~ExecutionReceipt
      PROVE  Recoverable(t)'
  <2> SUFFICES ASSUME position'[t] = "open", t \notin reread', AcknowledgedFill(t)' PROVE FALSE
    BY DEF Recoverable
  <2>1. AcknowledgedFill(t)
    BY <1>2, AcknowledgedByReceipt
  <2>. QED
    BY <1>2, <2>1, AcknowledgedWasOpen DEF Recoverable
<1>3. CASE ListOpenTrades
  <2>1. /\ batch' \subseteq {t \in Ledger : row[t] = "EXECUTED_OPEN" => position[t] # "open"}
        /\ pc' = "recover"
    BY <1>3 DEF ListOpenTrades, Fault, Goto
  <2>2. \A t \in batch' : t \in Trades /\ Recoverable(t)
    BY <2>1 DEF OpenRecordInv, Recoverable, OpenPositions, Ledger
  <2>3. ~ExecutionReceipt
    BY <1>3 DEF ListOpenTrades, ExecutionReceipt
  <2>. QED
    BY <1>1, <1>2, <2>1, <2>2, <2>3 DEF OpenRecordInv, OpenPositions
<1>4. CASE /\ pc \in {"recover", "recover_exit", "recover_count"}
           /\ pc' \in {"recover", "recover_exit", "recover_count"}
           /\ batch' \subseteq batch
           /\ \/ pc' = "recover"
              \/ pc = "recover" /\ cur' \in batch
              \/ pc # "recover" /\ cur' = cur
  <2>1. ~ExecutionReceipt
    BY <1>4 DEF ExecutionReceipt
  <2>2. batch \subseteq Trades /\ (pc # "recover" => cur \in Trades)
    BY <1>4 DEF TypeInv, TypeOK, LoopTypeOK, LoopInv
  <2>3. \A t \in batch : Recoverable(t)'
    BY <1>2, <1>4, <2>1, <2>2 DEF OpenRecordInv
  <2>4. pc # "recover" /\ cur' = cur => Recoverable(cur)'
    <3> SUFFICES ASSUME pc # "recover", cur' = cur PROVE Recoverable(cur)'
      OBVIOUS
    <3>1. cur \in Trades /\ Recoverable(cur)
      BY <1>4, <2>2 DEF OpenRecordInv
    <3>. QED
      BY <1>2, <2>1, <3>1 DEF Recoverable, AcknowledgedFill
  <2>5. pc' # "recover" => Recoverable(cur)'
    BY <1>4, <2>3, <2>4
  <2>. QED
    BY <1>1, <1>4, <2>3, <2>5 DEF OpenRecordInv, OpenPositions
<1>5. CASE pc' \notin {"recover", "recover_exit", "recover_count"}
  BY <1>1, <1>5 DEF OpenRecordInv, OpenPositions
<1>6. CASE RecoveryStep
  <2>1. CASE \E t \in Trades : RecoverTrade(t)
    BY <1>4, <2>1 DEF RecoverTrade, Goto
  <2>2. CASE RecoverExit \/ RecoverCount \/ RecoveryDone
    BY <1>4, <1>5, <2>2 DEF RecoverExit, RecoverCount, RecoveryDone, Goto
  <2>. QED
    BY <1>3, <1>6, <2>1, <2>2 DEF RecoveryStep
<1>7. CASE TornArtifact \/ EnvironmentStep \/ Tick \/ UNCHANGED vars
  <2>1. UNCHANGED <<pc, cur, batch>>
    BY <1>7 DEF TornArtifact, EnvironmentStep, InsideUnchanged, Tick, vars, engineVars
  <2>. QED
    BY <1>4, <1>5, <2>1 DEF TypeInv, TypeOK, LoopTypeOK
<1>8. CASE FeedbackStep
  <2>1. pc' \notin {"recover", "recover_exit", "recover_count"}
    BY <1>8 DEF FeedbackStep, CollectExecutionFeedback, ApplyExecutionFeedback,
      ExecutionReservation, ExecutionReceipt, ExecutionFinish, ExecutionFeedbackDone,
      CollectTradeExits, ApplyTradeExit, ExitReceipt, ExitReservation, ExitCount, ExitDelete,
      ExitFeedbackDone, Goto
  <2>. QED
    BY <1>5, <2>1
<1>9. CASE DecisionStep \/ Crash \/ Restart
  <2>1. pc' \notin {"recover", "recover_exit", "recover_count"}
    BY <1>9 DEF DecisionStep, UpdateAccountState, SkipDecisionCycle, StartDecisionCycle, Housekeep,
      MarkUncertain, FailClosedBridgeUncertainty, EvaluateSymbol, EvaluationDone, SendLock,
      SendExpired, SendPublish, SendFailsBeforePublish, SendReturns, SendFailsAfterPublish,
      InsertPending, PersistMetrics, Crash, Restart, Die, Goto
  <2>. QED
    BY <1>5, <2>1
<1>. QED
  BY <1>6, <1>7, <1>8, <1>9 DEF Next, EngineStep

LEMMA OpenRecordInvInit == Init => OpenRecordInv
BY DEF Init, StoreInit, EngineInit, OpenRecordInv, AcknowledgedFill

\* If the listing of the open positions does not fail, an open position whose
\* execution was receipted, and whose signal was handled once, stays executed and
\* open on the ledger, even while the EA closes a part of it.
AcknowledgedStaysOpen ==
    \A t \in OpenPositions \ reread : AcknowledgedFill(t) => row[t] = "EXECUTED_OPEN"

THEOREM PartialCloseIsNoClosure ==
    "positions" \notin Faults /\ Spec => []AcknowledgedStaysOpen
<1> SUFFICES ASSUME "positions" \notin Faults PROVE Spec => []AcknowledgedStaysOpen
  OBVIOUS
<1> DEFINE I == TypeInv /\ EvidenceInv /\ RowInv /\ OpenRecordInv
<1>1. Init => I
  BY TypeInvInit, EvidenceInvInit, OpenRecordInvInit
<1>2. I /\ [Next]_vars => I'
  BY TypeInvNext, EvidenceInvNext, RowInvNext, OpenRecordInvNext
<1>3. I => AcknowledgedStaysOpen
  BY DEF OpenRecordInv, AcknowledgedStaysOpen
<1>. QED
  BY <1>1, <1>2, <1>3, PTL DEF Spec

-----------------------------------------------------------------------------
(* What a step may do to a trade *)

\* Only the evaluation of a trade writes the risk and the expiry of its reservation.
LEMMA ExpiryNext ==
    ASSUME TypeInv, [Next]_vars, NEW t \in Trades
    PROVE  \/ expiresAt'[t] = expiresAt[t] /\ risk'[t] = risk[t]
           \/ EvaluateSymbol(t)
<1> USE DEF storeVars, ledgerVars
<1>1. CASE FeedbackStep \/ RecoveryStep
  BY <1>1 DEF FeedbackStep, RecoveryStep, CollectExecutionFeedback, ApplyExecutionFeedback,
    ExecutionReservation, ExecutionReceipt, ExecutionFinish, ExecutionFeedbackDone,
    CollectTradeExits, ApplyTradeExit, ExitReceipt, ExitReservation, ExitCount, ExitDelete,
    ExitFeedbackDone, ListOpenTrades, RecoverTrade, RecoverExit, RecoverCount, RecoveryDone
<1>2. ASSUME NEW u \in Trades, EvaluateSymbol(u), u # t
      PROVE  expiresAt'[t] = expiresAt[t] /\ risk'[t] = risk[t]
  BY <1>2 DEF EvaluateSymbol, TryReserve, TypeInv, TypeOK, StoreTypeOK
<1>3. CASE DecisionStep
  BY <1>2, <1>3 DEF DecisionStep, UpdateAccountState, SkipDecisionCycle, StartDecisionCycle,
    Housekeep, MarkUncertain, FailClosedBridgeUncertainty, EvaluationDone, SendLock,
    SendExpired, SendPublish, SendFailsBeforePublish, SendReturns, SendFailsAfterPublish,
    InsertPending, PersistMetrics
<1>4. CASE TornArtifact \/ Crash \/ Restart \/ EnvironmentStep \/ Tick \/ UNCHANGED vars
  BY <1>4 DEF TornArtifact, Crash, Restart, EnvironmentStep, InsideUnchanged, Tick, vars
<1>. QED
  BY <1>1, <1>3, <1>4 DEF Next, EngineStep

\* How a reservation stops holding its capacity.
LEMMA ActiveNext ==
    ASSUME TypeInv, [Next]_vars, NEW t \in Trades, t \in Active
    PROVE  \/ t \in Active'
           \/ cur = t /\ \/ ExecutionReservation \/ ExitReservation
                         \/ SendFailsBeforePublish \/ SendExpired
           \/ t \in Lapsed /\ pc = "evaluate"
<1> USE DEF Active, ActiveReservationStates, storeVars, ledgerVars
<1>1. reservation \in [Trades -> ReservationStates]
  BY DEF TypeInv, TypeOK, StoreTypeOK
<1>2. ASSUME NEW u, NEW state, Transition(u, state)
      PROVE  \/ t \in Active'
             \/ u = t /\ state \notin ActiveReservationStates
  BY <1>1, <1>2 DEF Transition
<1>3. CASE ExecutionReservation \/ ExitReservation \/ SendFailsBeforePublish \/ SendExpired
  BY <1>2, <1>3 DEF ExecutionReservation, ExitReservation, SendFailsBeforePublish, SendExpired
<1>4. CASE SendReturns \/ SendFailsAfterPublish
  BY <1>2, <1>4 DEF SendReturns, SendFailsAfterPublish
<1>5. ASSUME NEW u \in Trades, EvaluateSymbol(u)
      PROVE  t \in Active' \/ (t \in Lapsed /\ pc = "evaluate")
  BY <1>1, <1>5 DEF EvaluateSymbol, TryReserve
<1>6. CASE /\ FeedbackStep \/ RecoveryStep
           /\ ~ExecutionReservation /\ ~ExitReservation
  BY <1>6 DEF FeedbackStep, RecoveryStep, CollectExecutionFeedback, ApplyExecutionFeedback,
    ExecutionReceipt, ExecutionFinish, ExecutionFeedbackDone,
    CollectTradeExits, ApplyTradeExit, ExitReceipt, ExitCount, ExitDelete,
    ExitFeedbackDone, ListOpenTrades, RecoverTrade, RecoverExit, RecoverCount, RecoveryDone
<1>7. CASE DecisionStep
  BY <1>3, <1>4, <1>5, <1>7 DEF DecisionStep, UpdateAccountState, SkipDecisionCycle,
    StartDecisionCycle, Housekeep, MarkUncertain, FailClosedBridgeUncertainty, EvaluationDone,
    SendLock, SendPublish, InsertPending, PersistMetrics
<1>8. CASE TornArtifact \/ Crash \/ Restart \/ EnvironmentStep \/ Tick \/ UNCHANGED vars
  BY <1>8 DEF TornArtifact, Crash, Restart, EnvironmentStep, InsideUnchanged, Tick, vars
<1>. QED
  BY <1>3, <1>6, <1>7, <1>8 DEF Next, EngineStep

\* A row is never taken back.
LEMMA RowKept ==
    ASSUME TypeInv, [Next]_vars, NEW t \in Trades, row[t] # "none"
    PROVE  row'[t] # "none"
<1> USE DEF storeVars, ledgerVars
<1>1. row \in [Trades -> RowStates]
  BY DEF TypeInv, TypeOK, StoreTypeOK
<1>2. CASE FeedbackStep \/ RecoveryStep
  BY <1>1, <1>2 DEF FeedbackStep, RecoveryStep, CollectExecutionFeedback, ApplyExecutionFeedback,
    ExecutionReservation, ExecutionReceipt, ExecutionFinish, ExecutionFeedbackDone,
    CollectTradeExits, ApplyTradeExit, ExitReceipt, ExitReservation, ExitCount, ExitDelete,
    ExitFeedbackDone, ListOpenTrades, RecoverTrade, RecoverExit, RecoverCount, RecoveryDone,
    ApplyExecutionResult, ApplyExitResult
<1>3. CASE DecisionStep
  BY <1>1, <1>3 DEF DecisionStep, UpdateAccountState, SkipDecisionCycle, StartDecisionCycle,
    Housekeep, MarkUncertain, FailClosedBridgeUncertainty, EvaluateSymbol, EvaluationDone, SendLock,
    SendExpired, SendPublish, SendFailsBeforePublish, SendReturns, SendFailsAfterPublish,
    InsertPending, PersistMetrics, MarkExecutionUncertain, InsertProposal
<1>4. CASE Restart
  BY <1>1, <1>4 DEF Restart, MarkStaleTrades
<1>5. CASE TornArtifact \/ Crash \/ EnvironmentStep \/ Tick \/ UNCHANGED vars
  BY <1>5 DEF TornArtifact, Crash, EnvironmentStep, InsideUnchanged, Tick, vars
<1>. QED
  BY <1>2, <1>3, <1>4, <1>5 DEF Next, EngineStep

\* Signals appear by publication alone, and only the EA fills them.
LEMMA SignalNext ==
    ASSUME TypeInv, [Next]_vars
    PROVE  /\ pending' \subseteq pending \/ (SendPublish /\ pending' = pending \cup {cur})
           /\ EnvironmentStep \/ UNCHANGED <<position, fills>>
<1>1. CASE Tick \/ UNCHANGED vars
  BY <1>1 DEF Tick, vars, outsideVars, bridgeVars, signalVars, eaVars, brokerVars
<1>2. CASE \/ Housekeep \/ SendLock \/ SendPublish \/ SendReturns \/ SendFailsBeforePublish
           \/ SendFailsAfterPublish \/ InsertPending \/ \E t \in Trades : EvaluateSymbol(t)
  BY <1>2 DEF Housekeep, SendLock, SendPublish, SendReturns, SendFailsBeforePublish,
    SendFailsAfterPublish, InsertPending, EvaluateSymbol, CleanupStale, PublishPending,
    outsideVars, bridgeVars, signalVars, eaVars, brokerVars
<1>3. CASE EnvironmentStep
  BY <1>3 DEF EnvironmentStep, EANext, EAStep, ProcessPendingSignal, SkipProcessedSignal,
    DropSignal, RejectSignal, ExecuteSignal, DeleteSignal, OnTradeTransaction,
    SweepClosedManagedPosition, FinalizeClosedPosition, PartialClose, ClosePosition,
    WriteAccountSnapshot, EARestart, KilledInExecution, KilledInRejection, bridgeVars, signalVars
<1>. QED
  BY <1>1, <1>2, <1>3, FillFrame, EAFrame DEF Next, EngineStep, DecisionStep, eaVars, brokerVars

\* The EA fills or refuses a signal, and may be killed before it deletes the file.
EAFills(t) == ExecuteSignal(t) \/ KilledInExecution(t)

EARefuses(t) == RejectSignal(t) \/ KilledInRejection(t)

LEMMA FillNext ==
    ASSUME TypeInv, [Next]_vars, NEW t \in Trades,
           fills'[t] # fills[t] \/ (position'[t] # position[t] /\ position'[t] = "open")
    PROVE  EnvironmentStep /\ EAFills(t) /\ t \in pending
<1>1. fills'[t] = fills[t] + 1 /\ t \in pending
  BY PositionNext
<1>2. fills \in [Trades -> 0..MaxFills]
  BY DEF TypeInv, TypeOK, EATypeOK
<1>3. EnvironmentStep
  BY <1>1, <1>2, SignalNext DEF MaxFills
<1>4. UNCHANGED fills \/ \E u \in Trades : EAFills(u)
  BY <1>3 DEF EnvironmentStep, EANext, EAStep, ProcessPendingSignal, SkipProcessedSignal,
    DropSignal, RejectSignal, OnTradeTransaction, SweepClosedManagedPosition,
    FinalizeClosedPosition, PartialClose, ClosePosition, WriteAccountSnapshot, EARestart,
    KilledInRejection, EAFills, eaVars, brokerVars
<1>5. ASSUME NEW u \in Trades, EAFills(u) PROVE fills' = [fills EXCEPT ![u] = @ + 1]
  BY <1>5 DEF EAFills, ExecuteSignal, KilledInExecution, SendOrder
<1>. QED
  BY <1>1, <1>2, <1>3, <1>4, <1>5 DEF MaxFills

\* The ways of an execution artifact into and out of the directory.
LEMMA ExecFileNext ==
    ASSUME TypeInv, [Next]_vars, NEW t \in Trades, execFile'[t] # execFile[t]
    PROVE  \/ ExecutionFinish /\ cur = t
           \/ ApplyExecutionFeedback(t) /\ ExecReceiptExists(t, collected[t])
           \/ TornArtifact
           \/ EnvironmentStep /\ (EARefuses(t) \/ EAFills(t))
<1>1. execFile \in [Trades -> ExecArtifacts \cup {NoArtifact}]
  BY DEF TypeInv, TypeOK, BridgeTypeOK
<1>2. \/ \E u \in Trades : ApplyExecutionFeedback(u)
      \/ ExecutionFinish \/ TornArtifact \/ EnvironmentStep
  <2>1. CASE Die /\ (DecisionStep \/ Crash)
    BY <2>1, DeathFrame
  <2>2. CASE CollectExecutionFeedback \/ ExecutionReceipt \/ ExecutionFeedbackDone
             \/ (\E u \in Trades : ApplyTradeExit(u)) \/ ExitDelete
    BY <2>2 DEF CollectExecutionFeedback, ExecutionReceipt, ExecutionFeedbackDone, ApplyTradeExit,
      ExitDelete, outsideVars, bridgeVars
  <2>. QED
    BY <2>1, <2>2, EvidenceFrame DEF Next, EngineStep, FeedbackStep, Crash
<1>3. ASSUME NEW u \in Trades, ApplyExecutionFeedback(u)
      PROVE  u = t /\ ExecReceiptExists(t, collected[t])
  BY <1>1, <1>3 DEF ApplyExecutionFeedback, Unlink, DeleteExecArtifact
<1>4. CASE ExecutionFinish
  BY <1>1, <1>4 DEF ExecutionFinish, Unlink, DeleteExecArtifact
<1>5. CASE EnvironmentStep
  <2>1. \E u \in Trades : EARefuses(u) \/ EAFills(u)
    BY <1>5 DEF EnvironmentStep, EANext, EAStep, ProcessPendingSignal, SkipProcessedSignal,
      DropSignal, OnTradeTransaction, SweepClosedManagedPosition, FinalizeClosedPosition,
      PartialClose, ClosePosition, WriteAccountSnapshot, EARestart, EARefuses, EAFills, bridgeVars
  <2>2. ASSUME NEW u \in Trades, EARefuses(u) \/ EAFills(u), u # t PROVE FALSE
    BY <1>1, <2>2 DEF EARefuses, EAFills, RejectSignal, KilledInRejection, ExecuteSignal,
      KilledInExecution, WriteExecutionFeedback
  <2>. QED
    BY <1>5, <2>1, <2>2
<1>. QED
  BY <1>2, <1>3, <1>4, <1>5

-----------------------------------------------------------------------------
(* Capacity: what is in flight or open is reserved or on the ledger *)

\* The EA answers a signal, or the pass that published it is over, within so many
\* ticks of its reservation.
AnswerLimit == MaxOf(PickupLimit, IterationLimit)

AtHand(t, pcs) == pc \in pcs /\ cur = t

\* An artifact that speaks of an order not sent: nothing of the trade is left to
\* fill.
RefusalIsFinal(t) ==
    "REJECTED" \in {execFile[t].status, collected[t].status} =>
        /\ t \notin pending
        /\ fills[t] = 0
        /\ reservation[t] # "none"
        /\ ~AtHand(t, {"lock", "publish"})

\* A reservation on its way to the EA holds its capacity and is young.
RoutedIsReserved(t) ==
    AtHand(t, {"lock", "publish"}) =>
        t \in Active /\ expiresAt[t] - TTL >= iterStart

PendingIsReserved(t) ==
    t \in pending =>
        /\ t \in Active
        /\ now <= expiresAt[t] - TTL + AnswerLimit
        /\ row[t] # "none" \/ AtHand(t, {"registry", "insert"})

\* A position whose execution has not been applied yet holds its capacity, and
\* the artifact that will put it on the ledger is waiting: for the next pass, in
\* the batch being applied, or written since the present pass began.
Unapplied(t) ==
    /\ position[t] = "open"
    /\ ~AcknowledgedFill(t)
    /\ ~AtHand(t, {"exec_reservation", "exec_receipt"})

OpenIsReserved(t) ==
    Unapplied(t) =>
        /\ t \in Active
        /\ execFile[t].status = "EXECUTED"
        /\ execFile[t].at <= expiresAt[t] - TTL + AnswerLimit
        /\ row[t] # "none" \/ AtHand(t, {"registry", "insert"})
        /\ \/ pc = "collect_exec"
           \/ pc \in {"exec", "exec_reservation", "exec_receipt", "exec_finish"} /\ t \in batch
           \/ execFile[t].at >= iterStart

CapacityInv ==
    /\ pc # "down"
    /\ iterStart <= now /\ now <= iterStart + IterationLimit
    /\ \A t \in Trades : /\ RefusalIsFinal(t)
                         /\ RoutedIsReserved(t)
                         /\ PendingIsReserved(t)
                         /\ OpenIsReserved(t)

\* Neither the engine nor, in a handler, the EA is killed, the files of the EA are
\* read and deleted when met, the listing of the open positions does not fail,
\* the policy survives a failed send, and a reservation outlives the answer to
\* its signal and the pass that reads it.
LossFree ==
    /\ MaxCrashes = 0
    /\ Faults \cap {"ea_kill", "file_delete", "torn_artifact", "locked_artifact", "positions"} = {}
    /\ Preserve10 \/ Faults \cap {"router_before_publish", "router_after_publish"} = {}
    /\ AnswerLimit + IterationLimit < TTL

EngineInv ==
    TypeInv /\ FillInv /\ EvidenceInv /\ RowInv /\ OpenRecordInv /\ CapacityInv

LEMMA AnswerLimitBounds ==
    AnswerLimit \in Nat /\ PickupLimit <= AnswerLimit /\ IterationLimit <= AnswerLimit
BY EngineAssumption DEF AnswerLimit, MaxOf

\* What a trade in flight or open cannot be.
LEMMA InFlight ==
    ASSUME LossFree, EngineInv, NEW t \in Trades
    PROVE  /\ t \in pending => fills[t] = 0
           /\ position[t] = "open" =>
                 /\ fills[t] # 0 /\ t \notin pending /\ t \notin reread
                 /\ exitFile[t] = "none"
                 /\ collected[t].status # "REJECTED"
           /\ fills[t] = 0 =>
                 /\ exitFile[t] = "none"
                 /\ collected[t].status # "EXECUTED" /\ execFile[t].status # "EXECUTED"
<1>1. fills[t] \in 0..MaxFills /\ exitFile[t] \in ExitIds \cup {"none"}
  BY DEF EngineInv, TypeInv, TypeOK, EATypeOK, BridgeTypeOK
<1>2. (t \in pending => fills[t] = 0) /\ t \notin reread
  BY <1>1 DEF EngineInv, FillInv, SignalOutlivesFill, LossFree, MaxFills
<1>3. fills[t] = 0 => /\ exitFile[t] = "none" /\ position[t] = "none"
                      /\ collected[t].status # "EXECUTED" /\ execFile[t].status # "EXECUTED"
  BY DEF EngineInv, EvidenceInv, Evidence
<1>4. position[t] = "open" => exitFile[t] = "none"
  BY DEF EngineInv, EvidenceInv, Evidence
<1>5. fills[t] # 0 => collected[t].status # "REJECTED"
  BY DEF EngineInv, CapacityInv, RefusalIsFinal
<1>. QED
  BY <1>2, <1>3, <1>4, <1>5

\* Under these assumptions the process lives on, and nothing is torn.
LEMMA NoDeath ==
    ASSUME LossFree, EngineInv, [Next]_vars
    PROVE  /\ pc' # "down"
           /\ ~Crash /\ ~Restart /\ ~SendExpired /\ ~TornArtifact
           /\ \A t \in Trades : ~KilledInExecution(t) /\ ~KilledInRejection(t)
           /\ SendFailsBeforePublish \/ SendFailsAfterPublish => Preserve10
<1>1. ~Crash
  <2>1. crashes = 0
    BY DEF LossFree, EngineInv, TypeInv, TypeOK, LoopTypeOK
  <2>. QED
    BY <2>1 DEF LossFree, Crash
<1>2. /\ ~Restart /\ ~TornArtifact
      /\ \A t \in Trades : ~KilledInExecution(t) /\ ~KilledInRejection(t)
  BY DEF EngineInv, CapacityInv, Restart, TornArtifact, KilledInExecution, KilledInRejection,
    Fault, LossFree
<1>3. ~SendExpired
  <2> SUFFICES ASSUME SendExpired PROVE FALSE
    OBVIOUS
  <2>1. pc = "lock" /\ cur \in Trades /\ now > expiresAt[cur]
    BY DEF SendExpired, Expired, EngineInv, TypeInv, LoopInv
  <2>2. expiresAt[cur] - TTL >= iterStart /\ now <= iterStart + IterationLimit
    BY <2>1 DEF EngineInv, CapacityInv, RoutedIsReserved, AtHand
  <2>3. expiresAt[cur] \in Nat /\ now \in Nat /\ iterStart \in Nat
    BY <2>1 DEF EngineInv, TypeInv, TypeOK, StoreTypeOK, LoopTypeOK
  <2>. QED
    BY <2>1, <2>2, <2>3, AnswerLimitBounds, StoreAssumption, EngineAssumption DEF LossFree
<1>4. SendFailsBeforePublish \/ SendFailsAfterPublish => Preserve10
  BY DEF SendFailsBeforePublish, SendFailsAfterPublish, Fault, LossFree
<1>5. pc' # "down"
  <2>1. CASE EngineStep /\ ~SendExpired
    <3>1. CASE FeedbackStep \/ RecoveryStep
      BY <3>1 DEF EngineInv, CapacityInv, FeedbackStep, RecoveryStep, Goto,
        CollectExecutionFeedback, ApplyExecutionFeedback, ExecutionReservation, ExecutionReceipt,
        ExecutionFinish, ExecutionFeedbackDone, CollectTradeExits, ApplyTradeExit, ExitReceipt,
        ExitReservation, ExitCount, ExitDelete, ExitFeedbackDone, ListOpenTrades, RecoverTrade,
        RecoverExit, RecoverCount, RecoveryDone
    <3>2. CASE DecisionStep /\ ~SendExpired
      BY <1>4, <3>2 DEF EngineInv, CapacityInv, DecisionStep, Goto, UpdateAccountState,
        SkipDecisionCycle, StartDecisionCycle, Housekeep, MarkUncertain,
        FailClosedBridgeUncertainty, EvaluateSymbol, EvaluationDone, SendLock, SendPublish,
        SendFailsBeforePublish, SendReturns, SendFailsAfterPublish, InsertPending, PersistMetrics
    <3>. QED
      BY <2>1, <3>1, <3>2 DEF EngineStep
  <2>2. CASE EnvironmentStep \/ Tick \/ UNCHANGED vars
    BY <2>2 DEF EngineInv, CapacityInv, EnvironmentStep, InsideUnchanged, Tick, vars, engineVars
  <2>. QED
    BY <1>1, <1>2, <1>3, <2>1, <2>2 DEF Next
<1>. QED
  BY <1>1, <1>2, <1>3, <1>4, <1>5

\* The clock moves by ticks, and a pass starts where the last one ends.
LEMMA PassTime ==
    ASSUME LossFree, EngineInv, [Next]_vars
    PROVE  /\ iterStart' <= now' /\ now' <= iterStart' + IterationLimit
           /\ UNCHANGED <<now, iterStart>> \/ PersistMetrics \/ Tick
           /\ UNCHANGED iterStart \/ pc' = "collect_exec"
<1>1. now \in Nat /\ iterStart \in Nat
  BY DEF EngineInv, TypeInv, TypeOK, StoreTypeOK, LoopTypeOK
<1>2. UNCHANGED <<now, iterStart>> \/ PersistMetrics \/ Tick
  <2> USE DEF clockVars
  <2>1. CASE FeedbackStep \/ RecoveryStep
    BY <2>1 DEF FeedbackStep, RecoveryStep,
      CollectExecutionFeedback, ApplyExecutionFeedback, ExecutionReservation, ExecutionReceipt,
      ExecutionFinish, ExecutionFeedbackDone, CollectTradeExits, ApplyTradeExit, ExitReceipt,
      ExitReservation, ExitCount, ExitDelete, ExitFeedbackDone, ListOpenTrades, RecoverTrade,
      RecoverExit, RecoverCount, RecoveryDone
  <2>2. CASE DecisionStep
    BY <2>2 DEF DecisionStep, UpdateAccountState,
      SkipDecisionCycle, StartDecisionCycle, Housekeep, MarkUncertain,
      FailClosedBridgeUncertainty, EvaluateSymbol, EvaluationDone, SendLock, SendExpired,
      SendPublish, SendFailsBeforePublish, SendReturns, SendFailsAfterPublish, InsertPending
  <2>3. CASE EnvironmentStep \/ UNCHANGED vars
    BY <2>3 DEF EnvironmentStep, InsideUnchanged, vars, engineVars
  <2>. QED
    BY <2>1, <2>2, <2>3, NoDeath DEF Next, EngineStep
<1>3. CASE PersistMetrics
  BY <1>1, <1>3, EngineAssumption DEF PersistMetrics, Goto
<1>4. CASE Tick
  BY <1>1, <1>4, EngineAssumption DEF Tick, EngineInv, CapacityInv, engineVars
<1>5. CASE UNCHANGED <<now, iterStart>>
  <2>1. iterStart <= now /\ now <= iterStart + IterationLimit
    BY DEF EngineInv, CapacityInv
  <2>. QED
    BY <1>5, <2>1
<1>. QED
  BY <1>2, <1>3, <1>4, <1>5

LEMMA RefusalNext ==
    ASSUME LossFree, EngineInv, [Next]_vars, NEW t \in Trades
    PROVE  RefusalIsFinal(t)'
<1> SUFFICES ASSUME "REJECTED" \in {execFile'[t].status, collected'[t].status}
             PROVE  /\ t \notin pending'
                    /\ fills'[t] = 0
                    /\ reservation'[t] # "none"
                    /\ ~AtHand(t, {"lock", "publish"})'
  BY DEF RefusalIsFinal
<1>1. /\ execFile \in [Trades -> ExecArtifacts \cup {NoArtifact}]
      /\ fills \in [Trades -> 0..MaxFills]
      /\ NoArtifact.status = "none"
  BY DEF EngineInv, TypeInv, TypeOK, BridgeTypeOK, EATypeOK, NoArtifact
<1>2. CASE "REJECTED" \in {execFile[t].status, collected[t].status}
  <2>1. t \notin pending /\ fills[t] = 0 /\ reservation[t] # "none" /\ ~AtHand(t, {"lock", "publish"})
    BY <1>2 DEF EngineInv, CapacityInv, RefusalIsFinal
  <2>2. reservation'[t] # "none"
    BY <2>1, ReservationKept DEF EngineInv
  <2>3. t \notin pending'
    BY <2>1, SignalNext DEF EngineInv, SendPublish, AtHand
  <2>4. fills'[t] = 0
    BY <2>1, FillNext DEF EngineInv
  <2>5. ~AtHand(t, {"lock", "publish"})'
    <3>1. ~EvaluateSymbol(t)
      BY <2>1 DEF EngineInv, FillInv, FillPCs, EvaluateSymbol
    <3>2. ASSUME pc' \in {"lock", "publish"}
          PROVE  \/ pc \in {"lock", "publish"} /\ UNCHANGED cur
                 \/ \E u \in Trades : EvaluateSymbol(u) /\ cur' = u
      <4>1. CASE EnvironmentStep \/ Tick \/ UNCHANGED vars
        BY <3>2, <4>1 DEF EnvironmentStep, InsideUnchanged, Tick, vars, engineVars
      <4>2. CASE \/ Housekeep \/ SendLock \/ SendPublish \/ SendReturns \/ SendFailsBeforePublish
                 \/ SendFailsAfterPublish \/ InsertPending \/ \E u \in Trades : EvaluateSymbol(u)
        BY <3>2, <4>2 DEF Housekeep, SendLock, SendPublish, SendReturns, SendFailsBeforePublish,
          SendFailsAfterPublish, InsertPending, EvaluateSymbol, Die, Goto
      <4>. QED
        BY <3>2, <4>1, <4>2, FillFrame DEF Next, EngineStep, DecisionStep, FillPCs
    <3>. QED
      BY <2>1, <3>1, <3>2 DEF AtHand
  <2>. QED
    BY <2>2, <2>3, <2>4, <2>5
<1>3. CASE "REJECTED" \notin {execFile[t].status, collected[t].status}
  <2>1. ~CollectExecutionFeedback \/ collected'[t] \in {execFile[t], NoArtifact}
    BY DEF CollectExecutionFeedback
  <2>2. \/ collected'[t] = collected[t] \/ collected'[t] = NoArtifact
        \/ collected'[t] = execFile[t]
    <3>1. CASE CollectExecutionFeedback
      BY <2>1, <3>1
    <3>2. CASE ExecutionFeedbackDone
      BY <3>2 DEF ExecutionFeedbackDone, NothingCollected, NoArtifacts
    <3>3. CASE \/ ExecutionReceipt \/ ExecutionFinish \/ ExitDelete
               \/ \E u \in Trades : ApplyExecutionFeedback(u) \/ ApplyTradeExit(u)
      BY <3>3 DEF ExecutionReceipt, ExecutionFinish, ExitDelete, ApplyExecutionFeedback,
        ApplyTradeExit
    <3>4. CASE Die /\ (DecisionStep \/ Crash)
      BY <3>4, DeathFrame
    <3>5. CASE TornArtifact \/ EnvironmentStep
      BY <3>5 DEF TornArtifact, EnvironmentStep, InsideUnchanged, engineVars
    <3>. QED
      BY <3>1, <3>2, <3>3, <3>4, <3>5, EvidenceFrame DEF Next, EngineStep, FeedbackStep, Crash
  <2>3. execFile'[t].status = "REJECTED" /\ execFile'[t] # execFile[t]
    BY <1>1, <1>3, <2>2
  <2>4. EnvironmentStep /\ RejectSignal(t)
    <3>1. ~(ExecutionFinish /\ cur = t) /\ ~ApplyExecutionFeedback(t)
      BY <1>1, <2>3 DEF ExecutionFinish, ApplyExecutionFeedback, Unlink, DeleteExecArtifact
    <3>2. ~ExecuteSignal(t)
      BY <1>1, <2>3 DEF ExecuteSignal, WriteExecutionFeedback
    <3>. QED
      BY <2>3, <3>1, <3>2, ExecFileNext, NoDeath DEF EngineInv, EARefuses, EAFills
  <2>5. UNCHANGED <<reservation, pc, cur, fills>>
    BY <2>4 DEF EnvironmentStep, InsideUnchanged, storeVars, ledgerVars, engineVars, RejectSignal,
      eaVars, brokerVars
  <2>6. t \in pending /\ pending' = pending \ {t}
    BY <2>4 DEF RejectSignal, DeleteSignal, Fault, LossFree
  <2>7. fills[t] = 0 /\ reservation[t] # "none" /\ ~AtHand(t, {"lock", "publish"})
    BY <2>6, InFlight DEF EngineInv, FillInv, AtHand
  <2>. QED
    BY <2>5, <2>6, <2>7 DEF AtHand
<1>. QED
  BY <1>2, <1>3

\* A published trade has its row, or the loop is about to give it one.
Recorded(t) == row[t] # "none" \/ AtHand(t, {"registry", "insert"})

LEMMA RecordedNext ==
    ASSUME LossFree, EngineInv, [Next]_vars, NEW t \in Trades, Recorded(t)
    PROVE  Recorded(t)'
<1>1. CASE row[t] # "none"
  BY <1>1, RowKept DEF EngineInv, Recorded
<1>2. CASE AtHand(t, {"registry", "insert"})
  <2>1. row \in [Trades -> RowStates]
    BY DEF EngineInv, TypeInv, TypeOK, StoreTypeOK
  <2>2. CASE SendReturns
    BY <1>2, <2>2 DEF SendReturns, AtHand, Goto, Recorded
  <2>3. CASE SendFailsAfterPublish \/ InsertPending
    <3>1. row'[cur] # "none"
      BY <1>2, <2>1, <2>3, NoDeath DEF AtHand, SendFailsAfterPublish, InsertPending, InsertProposal
    <3>. QED
      BY <1>2, <3>1 DEF AtHand, Recorded
  <2>4. CASE EnvironmentStep \/ Tick \/ UNCHANGED vars
    BY <1>2, <2>4 DEF EnvironmentStep, InsideUnchanged, Tick, vars, engineVars, AtHand, Recorded
  <2>5. ~FeedbackStep /\ ~RecoveryStep
    BY <1>2 DEF AtHand, FeedbackStep, RecoveryStep,
      CollectExecutionFeedback, ApplyExecutionFeedback, ExecutionReservation, ExecutionReceipt,
      ExecutionFinish, ExecutionFeedbackDone, CollectTradeExits, ApplyTradeExit, ExitReceipt,
      ExitReservation, ExitCount, ExitDelete, ExitFeedbackDone, ListOpenTrades, RecoverTrade,
      RecoverExit, RecoverCount, RecoveryDone
  <2>6. DecisionStep => SendReturns \/ SendFailsAfterPublish \/ InsertPending
    BY <1>2 DEF AtHand, DecisionStep, UpdateAccountState,
      SkipDecisionCycle, StartDecisionCycle, Housekeep, MarkUncertain,
      FailClosedBridgeUncertainty, EvaluateSymbol, EvaluationDone, SendLock, SendExpired,
      SendPublish, SendFailsBeforePublish, PersistMetrics
  <2>. QED
    BY <2>2, <2>3, <2>4, <2>5, <2>6, NoDeath DEF Next, EngineStep
<1>. QED
  BY <1>1, <1>2 DEF Recorded

LEMMA RoutedNext ==
    ASSUME LossFree, EngineInv, [Next]_vars, NEW t \in Trades
    PROVE  RoutedIsReserved(t)'
<1> SUFFICES ASSUME pc' \in {"lock", "publish"}, cur' = t
             PROVE  t \in Active' /\ expiresAt'[t] - TTL >= iterStart'
  BY DEF RoutedIsReserved, AtHand
<1>1. /\ expiresAt \in [Trades -> Nat] /\ now \in Nat /\ iterStart \in Nat
      /\ TTL \in Nat
  BY StoreAssumption DEF EngineInv, TypeInv, TypeOK, StoreTypeOK, LoopTypeOK
<1>2. UNCHANGED iterStart
  BY PassTime
<1>3. CASE EvaluateSymbol(t)
  <2>1. reservation[t] = "none"
    BY <1>3 DEF EngineInv, FillInv, FillPCs, EvaluateSymbol
  <2>2. expiresAt'[t] = now + TTL /\ reservation'[t] = "RESERVED"
    <3>1. pc = "evaluate"
      BY <1>3 DEF EvaluateSymbol
    <3>2. \E r \in ProposedRisks : TryReserve(t, Throttled(r), TRUE)
      BY <1>3, <3>1 DEF EvaluateSymbol, Goto
    <3>. QED
      BY <1>1, <2>1, <3>2 DEF TryReserve, Lapsed, Active, ActiveReservationStates
  <2>. QED
    BY <1>1, <1>2, <2>2 DEF EngineInv, CapacityInv, Active, ActiveReservationStates
<1>4. CASE ~EvaluateSymbol(t)
  <2>1. pc \in {"lock", "publish"} /\ cur = t /\ ~SendFailsBeforePublish
    <3>1. CASE EnvironmentStep \/ Tick \/ UNCHANGED vars
      <4>1. UNCHANGED <<pc, cur>>
        BY <3>1 DEF EnvironmentStep, InsideUnchanged, Tick, vars, engineVars
      <4>2. ~SendFailsBeforePublish
        BY <4>1 DEF SendFailsBeforePublish, Goto, Die
      <4>. QED
        BY <4>1, <4>2
    <3>2. CASE \/ Housekeep \/ SendLock \/ SendPublish \/ SendReturns \/ SendFailsBeforePublish
               \/ SendFailsAfterPublish \/ InsertPending \/ \E u \in Trades : EvaluateSymbol(u)
      BY <1>4, <3>2 DEF Housekeep, SendLock, SendPublish, SendReturns, SendFailsBeforePublish,
        SendFailsAfterPublish, InsertPending, EvaluateSymbol, Die, Goto
    <3>. QED
      BY <3>1, <3>2, FillFrame DEF Next, EngineStep, DecisionStep, FillPCs
  <2>2. t \in Active /\ expiresAt[t] - TTL >= iterStart
    BY <2>1 DEF EngineInv, CapacityInv, RoutedIsReserved, AtHand
  <2>3. expiresAt'[t] = expiresAt[t]
    BY <1>4, ExpiryNext DEF EngineInv
  <2>4. t \in Active'
    BY <2>1, <2>2, ActiveNext DEF EngineInv, ExecutionReservation, ExitReservation, SendExpired, Goto, Die
  <2>. QED
    BY <1>2, <2>2, <2>3, <2>4
<1>. QED
  BY <1>3, <1>4

\* A reservation of a trade in flight or open lapses, or is given up, only when
\* the execution of the trade has been applied.
LEMMA CapacityKept ==
    ASSUME LossFree, EngineInv, [Next]_vars, NEW t \in Trades, t \in Active,
           t \in pending \/ Unapplied(t)
    PROVE  t \in Active' /\ expiresAt'[t] = expiresAt[t]
<1>1. ~EvaluateSymbol(t)
  BY DEF EngineInv, FillInv, FillPCs, EvaluateSymbol, Active, ActiveReservationStates
<1>2. expiresAt'[t] = expiresAt[t]
  BY <1>1, ExpiryNext DEF EngineInv
<1>3. ~(cur = t /\ ExecutionReservation)
  <2> SUFFICES ASSUME cur = t, ExecutionReservation PROVE FALSE
    OBVIOUS
  <2>1. pc = "exec_reservation" /\ collected[t] \in ExecArtifacts
    BY DEF ExecutionReservation, EngineInv, TypeInv, LoopInv
  <2>2. collected[t].status \in {"EXECUTED", "REJECTED"}
    BY <2>1 DEF ExecArtifacts
  <2>3. CASE t \in pending
    BY <2>2, <2>3, InFlight DEF EngineInv, CapacityInv, RefusalIsFinal
  <2>4. CASE Unapplied(t)
    BY <2>1, <2>4 DEF Unapplied, AtHand
  <2>. QED
    BY <2>3, <2>4
<1>4. ~(cur = t /\ ExitReservation)
  <2> SUFFICES ASSUME cur = t, ExitReservation PROVE FALSE
    OBVIOUS
  <2>1. exitFile[t] \in ExitIds
    BY DEF ExitReservation, EngineInv, TypeInv, LoopInv
  <2>2. exitFile[t] = "none"
    BY InFlight DEF Unapplied
  <2>. QED
    BY <2>1, <2>2 DEF ExitIds
<1>5. ~(cur = t /\ SendFailsBeforePublish)
  <2> SUFFICES ASSUME cur = t, SendFailsBeforePublish PROVE FALSE
    OBVIOUS
  <2>1. fills[t] = 0 /\ t \notin pending
    BY DEF SendFailsBeforePublish, EngineInv, FillInv
  <2>. QED
    BY <2>1, InFlight DEF Unapplied
<1>6. ~(t \in Lapsed /\ pc = "evaluate")
  <2> SUFFICES ASSUME expiresAt[t] <= now, pc = "evaluate" PROVE FALSE
    BY DEF Lapsed
  <2>1. /\ expiresAt[t] \in Nat /\ now \in Nat /\ iterStart \in Nat /\ TTL \in Nat
        /\ IterationLimit \in Nat /\ AnswerLimit \in Nat
        /\ AnswerLimit + IterationLimit < TTL
        /\ now <= iterStart + IterationLimit
    BY StoreAssumption, EngineAssumption, AnswerLimitBounds
    DEF EngineInv, TypeInv, TypeOK, StoreTypeOK, LoopTypeOK, LossFree, CapacityInv
  <2>2. CASE t \in pending
    <3>1. now <= expiresAt[t] - TTL + AnswerLimit
      BY <2>2 DEF EngineInv, CapacityInv, PendingIsReserved
    <3>. QED
      BY <2>1, <3>1
  <2>3. CASE Unapplied(t)
    <3>1. /\ execFile[t].at >= iterStart
          /\ execFile[t].at <= expiresAt[t] - TTL + AnswerLimit
          /\ execFile[t].status = "EXECUTED"
      BY <2>3 DEF EngineInv, CapacityInv, OpenIsReserved
    <3>2. execFile[t].at \in Nat
      <4>1. execFile[t] \in ExecArtifacts \cup {NoArtifact}
        BY DEF EngineInv, TypeInv, TypeOK, BridgeTypeOK
      <4>. QED
        BY <4>1 DEF ExecArtifacts, NoArtifact
    <3>. QED
      BY <2>1, <3>1, <3>2
  <2>. QED
    BY <2>2, <2>3
<1>. QED
  BY <1>2, <1>3, <1>4, <1>5, <1>6, ActiveNext, NoDeath DEF EngineInv

LEMMA PendingNext ==
    ASSUME LossFree, EngineInv, [Next]_vars, NEW t \in Trades
    PROVE  PendingIsReserved(t)'
<1> SUFFICES ASSUME t \in pending'
             PROVE  /\ t \in Active'
                    /\ now' <= expiresAt'[t] - TTL + AnswerLimit
                    /\ Recorded(t)'
  BY DEF PendingIsReserved, Recorded
<1>1. /\ expiresAt[t] \in Nat /\ now \in Nat /\ iterStart \in Nat
      /\ TTL \in Nat /\ AnswerLimit \in Nat /\ PickupLimit \in Nat /\ IterationLimit \in Nat
      /\ PickupLimit <= AnswerLimit /\ IterationLimit <= AnswerLimit
      /\ AnswerLimit + IterationLimit < TTL
      /\ now <= iterStart + IterationLimit
  BY StoreAssumption, EngineAssumption, AnswerLimitBounds
  DEF EngineInv, TypeInv, TypeOK, StoreTypeOK, LoopTypeOK, LossFree, CapacityInv
<1>2. CASE t \in pending
  <2>1. t \in Active /\ now <= expiresAt[t] - TTL + AnswerLimit /\ Recorded(t)
    BY <1>2 DEF EngineInv, CapacityInv, PendingIsReserved, Recorded
  <2>2. t \in Active' /\ expiresAt'[t] = expiresAt[t] /\ Recorded(t)'
    BY <1>2, <2>1, CapacityKept, RecordedNext
  <2>3. now' <= expiresAt[t] - TTL + AnswerLimit
    <3>1. CASE Tick
      <4>1. now' = now + 1
        BY <3>1 DEF Tick
      <4>2. now > expiresAt[t] \/ now - (expiresAt[t] - TTL) < PickupLimit
        BY <1>2, <3>1 DEF Tick, Expired, FileAge
      <4>. QED
        BY <1>1, <2>1, <4>1, <4>2
    <3>2. CASE UNCHANGED now
      BY <2>1, <3>2
    <3>. QED
      BY <3>1, <3>2, PassTime DEF PersistMetrics
  <2>. QED
    BY <2>2, <2>3
<1>3. CASE t \notin pending
  <2>1. SendPublish /\ cur = t
    BY <1>3, SignalNext DEF EngineInv
  <2>2. t \in Active /\ expiresAt[t] - TTL >= iterStart
    BY <2>1 DEF SendPublish, EngineInv, CapacityInv, RoutedIsReserved, AtHand
  <2>3. /\ UNCHANGED <<now, reservation, expiresAt>>
        /\ pc' = "registry" /\ cur' = t
    BY <2>1 DEF SendPublish, Goto, clockVars, storeVars, ledgerVars
  <2>4. t \in Active'
    BY <2>2, <2>3 DEF Active
  <2>. QED
    BY <1>1, <2>2, <2>3, <2>4 DEF Recorded, AtHand
<1>. QED
  BY <1>2, <1>3

LEMMA OpenNext ==
    ASSUME LossFree, EngineInv, [Next]_vars, NEW t \in Trades
    PROVE  OpenIsReserved(t)'
<1> DEFINE Feedback == {"exec", "exec_reservation", "exec_receipt", "exec_finish"}
<1> SUFFICES ASSUME Unapplied(t)'
             PROVE  /\ t \in Active'
                    /\ execFile'[t].status = "EXECUTED"
                    /\ execFile'[t].at <= expiresAt'[t] - TTL + AnswerLimit
                    /\ Recorded(t)'
                    /\ \/ pc' = "collect_exec"
                       \/ pc' \in Feedback /\ t \in batch'
                       \/ execFile'[t].at >= iterStart'
  BY DEF OpenIsReserved, Recorded
<1>0. position'[t] = "open" /\ ~AcknowledgedFill(t)' /\ ~AtHand(t, {"exec_reservation", "exec_receipt"})'
  BY DEF Unapplied
<1>1. CASE position[t] = "open"
  <2>1. /\ fills[t] # 0 /\ t \notin pending
        /\ collected[t].status # "REJECTED"
    BY <1>1, InFlight
  <2>2. Unapplied(t)
    <3>1. ~AcknowledgedFill(t)
      BY <1>0, AcknowledgedByReceipt
    <3>2. ~AtHand(t, {"exec_reservation", "exec_receipt"})
      <4> SUFFICES ASSUME pc \in {"exec_reservation", "exec_receipt"}, cur = t PROVE FALSE
        BY DEF AtHand
      <4>1. collected[t].status = "EXECUTED"
        <5>1. collected[t] \in ExecArtifacts
          BY DEF EngineInv, TypeInv, LoopInv
        <5>. QED
          BY <2>1, <5>1 DEF ExecArtifacts
      <4>2. CASE ExecutionReceipt
        <5>1. <<t, collected[t]>> \in execReceipts'
          BY <4>2 DEF ExecutionReceipt, RecordExecReceipt
        <5>2. \E r \in execReceipts' : r[1] = t /\ r[2].status = "EXECUTED"
          BY <4>1, <5>1
        <5>. QED
          BY <1>0, <5>2 DEF AcknowledgedFill
      <4>3. CASE ExecutionReservation
        BY <1>0, <4>3 DEF ExecutionReservation, Goto, AtHand
      <4>4. CASE EnvironmentStep \/ Tick \/ UNCHANGED vars
        BY <1>0, <4>4 DEF EnvironmentStep, InsideUnchanged, Tick, vars, engineVars, AtHand
      <4>5. ~DecisionStep /\ ~RecoveryStep
        BY DEF DecisionStep, RecoveryStep, ListOpenTrades, RecoverTrade, RecoverExit, RecoverCount,
          RecoveryDone, UpdateAccountState, SkipDecisionCycle, StartDecisionCycle, Housekeep,
          MarkUncertain, FailClosedBridgeUncertainty, EvaluateSymbol, EvaluationDone, SendLock,
          SendExpired, SendPublish, SendFailsBeforePublish, SendReturns, SendFailsAfterPublish,
          InsertPending, PersistMetrics
      <4>6. FeedbackStep => ExecutionReceipt \/ ExecutionReservation
        BY DEF FeedbackStep, CollectExecutionFeedback, ApplyExecutionFeedback, ExecutionFinish,
          ExecutionFeedbackDone, CollectTradeExits, ApplyTradeExit, ExitReceipt, ExitReservation,
          ExitCount, ExitDelete, ExitFeedbackDone
      <4>. QED
        BY <4>2, <4>3, <4>4, <4>5, <4>6, NoDeath DEF Next, EngineStep
    <3>. QED
      BY <1>1, <3>1, <3>2 DEF Unapplied
  <2>3. /\ t \in Active
        /\ execFile[t].status = "EXECUTED"
        /\ execFile[t].at <= expiresAt[t] - TTL + AnswerLimit
        /\ Recorded(t)
        /\ \/ pc = "collect_exec"
           \/ pc \in Feedback /\ t \in batch
           \/ execFile[t].at >= iterStart
    BY <2>2 DEF EngineInv, CapacityInv, OpenIsReserved, Recorded
  <2>4. t \in Active' /\ expiresAt'[t] = expiresAt[t] /\ Recorded(t)'
    BY <2>2, <2>3, CapacityKept, RecordedNext
  <2>5. ASSUME pc = "exec", t \in batch PROVE ~ExecReceiptExists(t, collected[t])
    <3> SUFFICES ASSUME <<t, collected[t]>> \in execReceipts PROVE FALSE
      BY DEF ExecReceiptExists
    <3>1. collected[t].status = "EXECUTED"
      <4>1. collected[t] \in ExecArtifacts
        BY <2>5 DEF EngineInv, TypeInv, LoopInv
      <4>. QED
        BY <2>1, <4>1 DEF ExecArtifacts
    <3>. QED
      BY <2>2, <3>1 DEF Unapplied, AcknowledgedFill
  <2>6. execFile'[t] = execFile[t]
    <3>1. ~(ExecutionFinish /\ cur = t)
      <4> SUFFICES ASSUME ExecutionFinish, cur = t PROVE FALSE
        OBVIOUS
      <4>1. pc = "exec_finish" /\ collected[t] \in ExecArtifacts
        BY DEF ExecutionFinish, EngineInv, TypeInv, LoopInv
      <4>2. collected[t].status = "EXECUTED"
        BY <2>1, <4>1 DEF ExecArtifacts
      <4>. QED
        BY <2>2, <4>1, <4>2 DEF EngineInv, RowInv, Unapplied
    <3>2. ~(ApplyExecutionFeedback(t) /\ ExecReceiptExists(t, collected[t]))
      BY <2>5 DEF ApplyExecutionFeedback
    <3>3. ~(EARefuses(t) \/ EAFills(t))
      BY <2>1 DEF EARefuses, EAFills, RejectSignal, KilledInRejection, ExecuteSignal,
        KilledInExecution, SendOrder
    <3>. QED
      BY <3>1, <3>2, <3>3, ExecFileNext, NoDeath DEF EngineInv
  <2>7. CASE pc = "collect_exec"
    <3>1. CASE CollectExecutionFeedback
      <4>1. batch' = ExecFiles
        BY <3>1 DEF CollectExecutionFeedback, Fault, LossFree
      <4>2. t \in batch'
        BY <2>3, <4>1 DEF ExecFiles, NoArtifact
      <4>. QED
        BY <2>3, <2>4, <2>6, <3>1, <4>2 DEF CollectExecutionFeedback, Goto
    <3>2. CASE ~CollectExecutionFeedback
      <4>1. EnvironmentStep \/ Tick \/ UNCHANGED vars
        BY <2>7, <3>2, NoDeath DEF Next, EngineStep, FeedbackStep, RecoveryStep, DecisionStep,
          ApplyExecutionFeedback, ExecutionReservation, ExecutionReceipt, ExecutionFinish,
          ExecutionFeedbackDone, CollectTradeExits, ApplyTradeExit, ExitReceipt,
          ExitReservation, ExitCount, ExitDelete, ExitFeedbackDone, ListOpenTrades, RecoverTrade,
          RecoverExit, RecoverCount, RecoveryDone, UpdateAccountState, SkipDecisionCycle,
          StartDecisionCycle, Housekeep, MarkUncertain, FailClosedBridgeUncertainty,
          EvaluateSymbol, EvaluationDone, SendLock, SendExpired, SendPublish,
          SendFailsBeforePublish, SendReturns, SendFailsAfterPublish, InsertPending,
          PersistMetrics
      <4>2. UNCHANGED pc
        BY <4>1 DEF EnvironmentStep, InsideUnchanged, Tick, vars, engineVars
      <4>. QED
        BY <2>3, <2>4, <2>6, <2>7, <4>2
    <3>. QED
      BY <3>1, <3>2
  <2>8. CASE pc \in Feedback /\ t \in batch
    <3>1. pc' \in Feedback /\ t \in batch'
      <4>1. \/ \E u \in Trades : ApplyExecutionFeedback(u)
            \/ ExecutionReservation \/ ExecutionReceipt \/ ExecutionFinish
            \/ ExecutionFeedbackDone \/ EnvironmentStep \/ Tick \/ UNCHANGED vars
        BY <2>8, NoDeath DEF Next, EngineStep, FeedbackStep, RecoveryStep, DecisionStep,
          CollectExecutionFeedback, CollectTradeExits, ApplyTradeExit, ExitReceipt,
          ExitReservation, ExitCount, ExitDelete, ExitFeedbackDone, ListOpenTrades, RecoverTrade,
          RecoverExit, RecoverCount, RecoveryDone, UpdateAccountState, SkipDecisionCycle,
          StartDecisionCycle, Housekeep, MarkUncertain, FailClosedBridgeUncertainty,
          EvaluateSymbol, EvaluationDone, SendLock, SendExpired, SendPublish,
          SendFailsBeforePublish, SendReturns, SendFailsAfterPublish, InsertPending,
          PersistMetrics
      <4>2. CASE ApplyExecutionFeedback(t)
        <5>1. pc = "exec" /\ row[t] # "none"
          BY <2>3, <4>2 DEF ApplyExecutionFeedback, Recorded, AtHand
        <5>2. collected[t].status = "EXECUTED" /\ ~ExecReceiptExists(t, collected[t])
          <6>1. collected[t] \in ExecArtifacts
            BY <2>8, <5>1 DEF EngineInv, TypeInv, LoopInv
          <6>. QED
            BY <2>1, <2>5, <2>8, <5>1, <6>1 DEF ExecArtifacts
        <5>. QED
          BY <1>0, <4>2, <5>1, <5>2 DEF ApplyExecutionFeedback, AtHand, Goto
      <4>3. ASSUME NEW u \in Trades, ApplyExecutionFeedback(u), u # t
            PROVE  pc' \in Feedback /\ t \in batch'
        BY <2>8, <4>3 DEF ApplyExecutionFeedback, Goto
      <4>4. CASE ExecutionReservation \/ ExecutionReceipt \/ ExecutionFinish
        BY <2>8, <4>4 DEF ExecutionReservation, ExecutionReceipt, ExecutionFinish, Goto
      <4>5. ~ExecutionFeedbackDone
        BY <2>8 DEF ExecutionFeedbackDone
      <4>6. CASE EnvironmentStep \/ Tick \/ UNCHANGED vars
        BY <2>8, <4>6 DEF EnvironmentStep, InsideUnchanged, Tick, vars, engineVars
      <4>. QED
        BY <4>1, <4>2, <4>3, <4>4, <4>5, <4>6
    <3>. QED
      BY <2>3, <2>4, <2>6, <3>1
  <2>9. CASE execFile[t].at >= iterStart
    BY <2>3, <2>4, <2>6, <2>9, PassTime
  <2>. QED
    BY <2>3, <2>7, <2>8, <2>9
<1>2. CASE position[t] # "open"
  <2>1. EnvironmentStep /\ ExecuteSignal(t) /\ t \in pending
    BY <1>0, <1>2, FillNext, NoDeath DEF EngineInv, EAFills
  <2>2. t \in pending
    BY <2>1
  <2>3. /\ t \in Active /\ Recorded(t)
        /\ now <= expiresAt[t] - TTL + AnswerLimit /\ iterStart <= now
    BY <2>2 DEF EngineInv, CapacityInv, PendingIsReserved, Recorded
  <2>4. t \in Active' /\ expiresAt'[t] = expiresAt[t] /\ Recorded(t)'
    BY <2>2, <2>3, CapacityKept, RecordedNext
  <2>5. execFile'[t].status = "EXECUTED" /\ execFile'[t].at = now
    BY <2>1 DEF ExecuteSignal, WriteExecutionFeedback, EngineInv, TypeInv, TypeOK, BridgeTypeOK
  <2>6. iterStart' = iterStart
    BY <2>1 DEF EnvironmentStep, InsideUnchanged, engineVars
  <2>. QED
    BY <2>3, <2>4, <2>5, <2>6
<1>. QED
  BY <1>1, <1>2

LEMMA CapacityInvInit == Init => CapacityInv
<1> SUFFICES ASSUME Init PROVE CapacityInv
  OBVIOUS
<1>1. 0 <= 0 /\ 0 <= 0 + IterationLimit
  BY EngineAssumption
<1>. QED
  BY <1>1 DEF Init, StoreInit, BridgeInit, EAInit, EngineInit, NothingCollected, NoArtifacts,
    NoArtifact, CapacityInv, RefusalIsFinal, RoutedIsReserved, PendingIsReserved, OpenIsReserved,
    AtHand, Unapplied

LEMMA EngineInvInit == Init => EngineInv
BY TypeInvInit, FillInvInit, EvidenceInvInit, OpenRecordInvInit, CapacityInvInit DEF EngineInv

LEMMA EngineInvNext == LossFree /\ EngineInv /\ [Next]_vars => EngineInv'
<1> SUFFICES ASSUME LossFree, EngineInv, [Next]_vars PROVE EngineInv'
  OBVIOUS
<1>1. "positions" \notin Faults
  BY DEF LossFree
<1>2. TypeInv' /\ FillInv' /\ EvidenceInv' /\ RowInv' /\ OpenRecordInv'
  BY <1>1, TypeInvNext, FillInvNext, EvidenceInvNext, RowInvNext, OpenRecordInvNext
  DEF EngineInv
<1>3. CapacityInv'
  BY NoDeath, PassTime, RefusalNext, RoutedNext, PendingNext, OpenNext DEF CapacityInv
<1>. QED
  BY <1>2, <1>3 DEF EngineInv

\* An open position is on the ledger, or its execution is not applied yet.
LEMMA OpenOnLedger ==
    ASSUME LossFree, EngineInv, NEW t \in Trades, position[t] = "open", ~Unapplied(t)
    PROVE  t \in Ledger
<1>1. fills[t] # 0 /\ t \notin reread /\ collected[t].status # "REJECTED"
  BY InFlight
<1>2. CASE AcknowledgedFill(t)
  BY <1>1, <1>2 DEF EngineInv, OpenRecordInv, OpenPositions, Ledger
<1>3. CASE AtHand(t, {"exec_reservation", "exec_receipt"})
  <2>1. collected[t] \in ExecArtifacts
    BY <1>3 DEF AtHand, EngineInv, TypeInv, LoopInv
  <2>. QED
    BY <1>1, <1>3, <2>1 DEF AtHand, ExecArtifacts, EngineInv, RowInv, Ledger
<1>. QED
  BY <1>2, <1>3 DEF Unapplied

\* An open position is never invisible to the next reservation: until the ledger
\* has it, its reservation counts.
THEOREM PositionsAccountedFor == LossFree /\ Spec => []PositionAccountedFor
<1> SUFFICES ASSUME LossFree PROVE Spec => []PositionAccountedFor
  OBVIOUS
<1>1. EngineInv /\ [Next]_vars => EngineInv'
  BY EngineInvNext
<1>2. EngineInv => PositionAccountedFor
  BY OpenOnLedger DEF EngineInv, CapacityInv, OpenIsReserved, PositionAccountedFor, OpenPositions
<1>. QED
  BY <1>1, <1>2, EngineInvInit, PTL DEF Spec

\* A signal is filled only while its reservation holds capacity for it.
THEOREM FillsReserved == LossFree /\ Spec => FillsAreReserved
<1> SUFFICES ASSUME LossFree PROVE Spec => FillsAreReserved
  OBVIOUS
<1>1. EngineInv /\ [Next]_vars => EngineInv'
  BY EngineInvNext
<1>2. EngineInv /\ [Next]_vars => [\A t \in Trades : fills'[t] > fills[t] => t \in Active]_vars
  <2> SUFFICES ASSUME EngineInv, [Next]_vars, NEW t \in Trades, fills'[t] > fills[t]
               PROVE  t \in Active
    OBVIOUS
  <2>1. fills \in [Trades -> 0..MaxFills]
    BY DEF EngineInv, TypeInv, TypeOK, EATypeOK
  <2>2. t \in pending
    BY <2>1, FillNext DEF EngineInv, MaxFills
  <2>. QED
    BY <2>2 DEF EngineInv, CapacityInv, PendingIsReserved
<1>. QED
  BY <1>1, <1>2, EngineInvInit, PTL DEF Spec, FillsAreReserved

-----------------------------------------------------------------------------
(* Sums over finite sets: RiskOf is a fold that takes the elements of a set in *)
(* the order CHOOSE gives them.  The facts below follow by taking a smallest   *)
(* set for which they fail.                                                    *)

Pick(s) == CHOOSE x \in s : TRUE

\* g is the table of the sums of f over the subsets of S.
IsSum(g, f, S) ==
    g = [s \in SUBSET S |-> IF s = {} THEN 0
                            ELSE LET x == CHOOSE x \in s : TRUE IN f[x] + g[s \ {x}]]

Sum(f, S) == (CHOOSE g : IsSum(g, f, S))[S]

LEMMA RiskIsSum == ASSUME NEW S PROVE RiskOf(S) = Sum(risk, S)
BY Zenon DEF RiskOf, Sum, IsSum, MapThenSumSet, MapThenFoldSet

\* The subsets of a finite set are ordered well by inclusion.
LEMMA SmallestSet ==
    ASSUME NEW S, IsFiniteSet(S), NEW B, B \subseteq SUBSET S, B # {}
    PROVE  \E s \in B : \A u \in B : u \subseteq s => u = s
<1> B \subseteq FiniteSubsetsOf(S)
  BY FS_Subset DEF FiniteSubsetsOf
<1>1. \E s \in B : \A u \in B : <<u, s>> \notin StrictSubsetOrdering(S)
  BY FS_StrictSubsetOrderingWellFounded, WFMin
<1>. QED
  BY <1>1 DEF StrictSubsetOrdering

\* One step of the fold.
LEMMA IsSumAt ==
    ASSUME NEW g, NEW f, NEW S, IsSum(g, f, S), NEW s \in SUBSET S
    PROVE  /\ s = {} => g[s] = 0
           /\ s # {} => Pick(s) \in s /\ g[s] = f[Pick(s)] + g[s \ {Pick(s)}]
<1>1. s # {} => Pick(s) \in s
  BY DEF Pick
<1>2. g[s] = IF s = {} THEN 0 ELSE f[Pick(s)] + g[s \ {Pick(s)}]
  BY Zenon DEF IsSum, Pick
<1>. QED
  BY <1>1, <1>2

\* Two sums agree where both are defined.
LEMMA SumsAgree ==
    ASSUME NEW f, NEW S, NEW T, NEW g, NEW h, IsSum(g, f, S), IsSum(h, f, T),
           NEW U, IsFiniteSet(U), U \subseteq S, U \subseteq T
    PROVE  g[U] = h[U]
<1> DEFINE Bad == {s \in SUBSET U : g[s] # h[s]}
<1> SUFFICES ASSUME Bad # {} PROVE FALSE
  OBVIOUS
<1>0. Bad \subseteq SUBSET U
  OBVIOUS
<1>1. PICK s \in Bad : \A u \in Bad : u \subseteq s => u = s
  <2> HIDE DEF Bad
  <2>. QED
    BY <1>0, SmallestSet
<1>2. s \subseteq U /\ g[s] # h[s] /\ s \in SUBSET S /\ s \in SUBSET T
  OBVIOUS
<1>3. s # {} /\ Pick(s) \in s
  BY <1>2, IsSumAt
<1>4. s \ {Pick(s)} \notin Bad
  BY <1>1, <1>3
<1>5. g[s \ {Pick(s)}] = h[s \ {Pick(s)}]
  BY <1>2, <1>4
<1>. QED
  BY <1>2, <1>3, <1>5, IsSumAt

\* The recursion has a solution over every finite set.
LEMMA SumExists ==
    ASSUME NEW f, NEW S, IsFiniteSet(S)
    PROVE  \E g : IsSum(g, f, S)
<1> DEFINE Bad == {T \in SUBSET S : ~ \E g : IsSum(g, f, T)}
<1> SUFFICES ASSUME Bad # {} PROVE FALSE
  OBVIOUS
<1>0. Bad \subseteq SUBSET S
  OBVIOUS
<1>1. PICK T \in Bad : \A U \in Bad : U \subseteq T => U = T
  <2> HIDE DEF Bad
  <2>. QED
    BY <1>0, SmallestSet
<1> DEFINE part(U) == CHOOSE g : IsSum(g, f, U)
           rest(s) == s \ {Pick(s)}
           whole == [s \in SUBSET T |-> IF s = {} THEN 0
                                         ELSE f[Pick(s)] + part(rest(s))[rest(s)]]
<1>2. ASSUME NEW s \in SUBSET T, s # {}
      PROVE  /\ Pick(s) \in s /\ rest(s) \in SUBSET T /\ IsFiniteSet(rest(s))
             /\ IsSum(part(rest(s)), f, rest(s))
  <2>1. Pick(s) \in s
    BY <1>2 DEF Pick
  <2>2. rest(s) \in SUBSET S /\ rest(s) \subseteq T /\ rest(s) # T
    BY <2>1
  <2>3. rest(s) \notin Bad
    BY <1>1, <2>2
  <2>4. \E g : IsSum(g, f, rest(s))
    BY <2>2, <2>3
  <2>5. IsFiniteSet(rest(s))
    BY <2>2, FS_Subset
  <2>. QED
    BY <2>1, <2>2, <2>4, <2>5
<1>3. ASSUME NEW s \in SUBSET T, s # {}
      PROVE  whole[rest(s)] = part(rest(s))[rest(s)]
  <2> DEFINE u == rest(s)
  <2>1. u \in SUBSET T /\ IsSum(part(u), f, u) /\ IsFiniteSet(u)
    BY <1>2, <1>3
  <2>2. CASE u = {}
    BY <2>1, <2>2, IsSumAt
  <2>3. CASE u # {}
    <3>1. IsSum(part(rest(u)), f, rest(u)) /\ IsFiniteSet(rest(u)) /\ rest(u) \subseteq u
      BY <1>2, <2>1, <2>3
    <3>2. part(u)[rest(u)] = part(rest(u))[rest(u)]
      BY <2>1, <3>1, SumsAgree
    <3>3. whole[u] = f[Pick(u)] + part(rest(u))[rest(u)]
      BY <2>1, <2>3
    <3>4. part(u)[u] = f[Pick(u)] + part(u)[rest(u)]
      <4> HIDE DEF part, u
      <4>. QED
        BY <2>1, <2>3, IsSumAt
    <3>. QED
      BY <3>2, <3>3, <3>4
  <2>. QED
    BY <2>2, <2>3
<1>4. IsSum(whole, f, T)
  <2>1. whole = [s \in SUBSET T |-> IF s = {} THEN 0 ELSE f[Pick(s)] + whole[s \ {Pick(s)}]]
    <3> HIDE DEF part
    <3>1. ASSUME NEW s \in SUBSET T
          PROVE whole[s] = IF s = {} THEN 0 ELSE f[Pick(s)] + whole[s \ {Pick(s)}]
       BY <1>3
    <3>. QED
       BY <3>1
  <2>. QED
    BY <2>1, Zenon DEF IsSum, Pick
<1>. QED
  BY <1>4

LEMMA SumIsSum ==
    ASSUME NEW f, NEW S, IsFiniteSet(S), NEW g, IsSum(g, f, S), NEW T \in SUBSET S
    PROVE  Sum(f, T) = g[T]
<1>1. IsFiniteSet(T)
  BY FS_Subset
<1>2. IsSum(CHOOSE h : IsSum(h, f, T), f, T)
  BY <1>1, SumExists
<1>. QED
  BY <1>1, <1>2, SumsAgree DEF Sum

LEMMA SumStep ==
    ASSUME NEW f, NEW S, IsFiniteSet(S)
    PROVE  /\ Sum(f, {}) = 0
           /\ S # {} => Pick(S) \in S /\ Sum(f, S) = f[Pick(S)] + Sum(f, S \ {Pick(S)})
<1>1. PICK g : IsSum(g, f, S)
  BY SumExists
<1>2. \A T \in SUBSET S : Sum(f, T) = g[T]
  BY <1>1, SumIsSum
<1>3. g[{}] = 0
  <2>1. \A s \in SUBSET S : s = {} => g[s] = 0
    BY <1>1, IsSumAt
  <2>. QED
    BY <2>1
<1>4. S # {} => Pick(S) \in S /\ g[S] = f[Pick(S)] + g[S \ {Pick(S)}]
  <2>1. S \in SUBSET S
    OBVIOUS
  <2>. QED
    BY <1>1, <2>1, IsSumAt
<1>. QED
  BY <1>2, <1>3, <1>4

LEMMA SumType ==
    ASSUME NEW S, IsFiniteSet(S), NEW f, \A x \in S : f[x] \in Nat
    PROVE  Sum(f, S) \in Nat
<1> DEFINE Bad == {T \in SUBSET S : Sum(f, T) \notin Nat}
<1> SUFFICES ASSUME Bad # {} PROVE FALSE
  OBVIOUS
<1>0. Bad \subseteq SUBSET S
  OBVIOUS
<1>1. PICK T \in Bad : \A U \in Bad : U \subseteq T => U = T
  <2> HIDE DEF Bad
  <2>. QED
    BY <1>0, SmallestSet
<1>2. IsFiniteSet(T)
  BY FS_Subset
<1>3. T # {} /\ Pick(T) \in T /\ Sum(f, T) = f[Pick(T)] + Sum(f, T \ {Pick(T)})
  <2>1. Sum(f, {}) = 0
    BY <1>2, SumStep
  <2>2. T # {}
    BY <2>1
  <2>. QED
    BY <1>2, <2>2, SumStep
<1>4. Sum(f, T \ {Pick(T)}) \in Nat
  BY <1>1, <1>3
<1>. QED
  BY <1>3, <1>4

\* The order does not matter: any element may be taken first.
LEMMA SumRemove ==
    ASSUME NEW S, IsFiniteSet(S), NEW f, \A x \in S : f[x] \in Nat, NEW x \in S
    PROVE  Sum(f, S) = f[x] + Sum(f, S \ {x})
<1> DEFINE Bad == {T \in SUBSET S : \E y \in T : Sum(f, T) # f[y] + Sum(f, T \ {y})}
<1> SUFFICES ASSUME Bad # {} PROVE FALSE
  OBVIOUS
<1>0. Bad \subseteq SUBSET S
  OBVIOUS
<1>1. PICK T \in Bad : \A U \in Bad : U \subseteq T => U = T
  <2> HIDE DEF Bad
  <2>. QED
    BY <1>0, SmallestSet
<1>2. PICK y \in T : Sum(f, T) # f[y] + Sum(f, T \ {y})
  OBVIOUS
<1> DEFINE p == Pick(T)
<1>3. IsFiniteSet(T) /\ IsFiniteSet(T \ {y}) /\ IsFiniteSet(T \ {p})
  BY FS_Subset
<1>4. p \in T /\ Sum(f, T) = f[p] + Sum(f, T \ {p})
  BY <1>2, <1>3, SumStep
<1>5. p # y
  BY <1>2, <1>4
<1>6. T \ {y} \notin Bad /\ T \ {p} \notin Bad
  BY <1>1, <1>2, <1>4
<1>7. /\ Sum(f, T \ {y}) = f[p] + Sum(f, (T \ {y}) \ {p})
      /\ Sum(f, T \ {p}) = f[y] + Sum(f, (T \ {p}) \ {y})
  BY <1>4, <1>5, <1>6
<1>8. (T \ {y}) \ {p} = (T \ {p}) \ {y}
  OBVIOUS
<1>9. Sum(f, (T \ {y}) \ {p}) \in Nat
  <2>1. (T \ {y}) \ {p} \subseteq S
    OBVIOUS
  <2>. QED BY <2>1, FS_Subset, SumType
<1>10. f[p] \in Nat /\ f[y] \in Nat
  BY <1>4
<1>11. \A a, b, c \in Nat : a + (b + c) = b + (a + c)
  OBVIOUS
<1> HIDE DEF p, Bad
<1>. QED
  BY <1>2, <1>4, <1>7, <1>8, <1>9, <1>10, <1>11

LEMMA SumMonotone ==
    ASSUME NEW S, IsFiniteSet(S), NEW f, \A x \in S : f[x] \in Nat, NEW U \in SUBSET S
    PROVE  Sum(f, U) <= Sum(f, S)
<1> DEFINE Bad == {T \in SUBSET S : U \subseteq T /\ ~(Sum(f, U) <= Sum(f, T))}
<1> SUFFICES ASSUME Bad # {} PROVE FALSE
  OBVIOUS
<1>0. Bad \subseteq SUBSET S
  OBVIOUS
<1>1. PICK T \in Bad : \A V \in Bad : V \subseteq T => V = T
  <2> HIDE DEF Bad
  <2>. QED
    BY <1>0, SmallestSet
<1>2. IsFiniteSet(T) /\ IsFiniteSet(U)
  BY FS_Subset
<1>3. Sum(f, U) \in Nat
  BY <1>2, SumType
<1>4. PICK x \in T : x \notin U
  BY <1>3
<1>5. T \ {x} \notin Bad
  BY <1>1, <1>4
<1>6. Sum(f, U) <= Sum(f, T \ {x})
  BY <1>4, <1>5
<1>7. Sum(f, T) = f[x] + Sum(f, T \ {x})
  BY <1>2, SumRemove
<1>8. Sum(f, T \ {x}) \in Nat /\ f[x] \in Nat
  BY <1>2, FS_Subset, SumType
<1>9. Sum(f, U) <= Sum(f, T)
  <2> HIDE DEF Bad
  <2>. QED
    BY <1>3, <1>6, <1>7, <1>8
<1>. QED
  BY <1>9

\* The sum looks at the values over the set alone.
LEMMA SumOfSame ==
    ASSUME NEW S, IsFiniteSet(S), NEW f, NEW g, \A x \in S : f[x] = g[x]
    PROVE  Sum(f, S) = Sum(g, S)
<1> DEFINE Bad == {T \in SUBSET S : Sum(f, T) # Sum(g, T)}
<1> SUFFICES ASSUME Bad # {} PROVE FALSE
  OBVIOUS
<1>0. Bad \subseteq SUBSET S
  OBVIOUS
<1>1. PICK T \in Bad : \A U \in Bad : U \subseteq T => U = T
  <2> HIDE DEF Bad
  <2>. QED
    BY <1>0, SmallestSet
<1>2. IsFiniteSet(T)
  BY FS_Subset
<1>3. T # {}
  <2>1. Sum(f, {}) = 0 /\ Sum(g, {}) = 0
    BY <1>2, SumStep
  <2>. QED
    BY <2>1
<1>4. /\ Pick(T) \in T
      /\ Sum(f, T) = f[Pick(T)] + Sum(f, T \ {Pick(T)})
      /\ Sum(g, T) = g[Pick(T)] + Sum(g, T \ {Pick(T)})
  BY <1>2, <1>3, SumStep
<1>5. T \ {Pick(T)} \notin Bad
  BY <1>1, <1>4
<1>6. Sum(f, T \ {Pick(T)}) = Sum(g, T \ {Pick(T)}) /\ f[Pick(T)] = g[Pick(T)]
  BY <1>4, <1>5
<1>. QED
  BY <1>4, <1>6

LEMMA SumOfUnion ==
    ASSUME NEW S, NEW T, IsFiniteSet(S), IsFiniteSet(T), NEW f,
           \A x \in S \cup T : f[x] \in Nat
    PROVE  Sum(f, S \cup T) <= Sum(f, S) + Sum(f, T)
<1> DEFINE Bad == {U \in SUBSET S : ~(Sum(f, U \cup T) <= Sum(f, U) + Sum(f, T))}
<1> SUFFICES ASSUME Bad # {} PROVE FALSE
  <2>1. S \in SUBSET S
    OBVIOUS
  <2>. QED
    BY <2>1
<1>0. Bad \subseteq SUBSET S
  OBVIOUS
<1>1. PICK U \in Bad : \A V \in Bad : V \subseteq U => V = U
  <2> HIDE DEF Bad
  <2>. QED
    BY <1>0, SmallestSet
<1>2. IsFiniteSet(U) /\ IsFiniteSet(U \cup T)
  BY FS_Subset, FS_Union
<1>3. Sum(f, T) \in Nat
  BY SumType
<1>4. PICK x \in U : TRUE
  <2>1. Sum(f, {}) = 0
    BY <1>2, SumStep
  <2>2. U # {}
    BY <1>3, <2>1
  <2>. QED
    BY <2>2
<1>5. U \ {x} \notin Bad
  BY <1>1
<1>6. Sum(f, (U \ {x}) \cup T) <= Sum(f, U \ {x}) + Sum(f, T)
  BY <1>5
<1>7. Sum(f, U) = f[x] + Sum(f, U \ {x})
  BY <1>2, SumRemove
<1>8. /\ Sum(f, U \ {x}) \in Nat /\ Sum(f, U) \in Nat /\ f[x] \in Nat
      /\ Sum(f, (U \ {x}) \cup T) \in Nat
  <2>1. IsFiniteSet(U \ {x}) /\ IsFiniteSet((U \ {x}) \cup T)
    BY <1>2, FS_Subset, FS_Union
  <2>2. U \ {x} \subseteq S \cup T /\ (U \ {x}) \cup T \subseteq S \cup T
    OBVIOUS
  <2>3. Sum(f, U \ {x}) \in Nat
    BY <2>1, <2>2, SumType
  <2>4. Sum(f, (U \ {x}) \cup T) \in Nat
    BY <2>1, <2>2, SumType
  <2>. QED
    BY <1>2, <2>3, <2>4, SumType
<1>9. Sum(f, U \cup T) <= f[x] + Sum(f, (U \ {x}) \cup T)
  <2>1. CASE x \in T
    <3>1. (U \ {x}) \cup T = U \cup T
      BY <2>1
    <3>. QED
      BY <1>8, <3>1
  <2>2. CASE x \notin T
    <3>1. (U \cup T) \ {x} = (U \ {x}) \cup T
      BY <2>2
    <3>2. Sum(f, U \cup T) = f[x] + Sum(f, (U \cup T) \ {x})
      BY <1>2, SumRemove
    <3> HIDE DEF Bad
    <3>3. Sum(f, U \cup T) = f[x] + Sum(f, (U \ {x}) \cup T)
      BY <3>1, <3>2
    <3>. QED
      BY <1>8, <3>3
  <2>. QED
    BY <2>1, <2>2
<1>10. Sum(f, U \cup T) <= Sum(f, U) + Sum(f, T)
  <2>1. Sum(f, U \cup T) \in Nat
    BY <1>2, SumType
  <2> HIDE DEF Bad
  <2>. QED
    BY <1>3, <1>6, <1>7, <1>8, <1>9, <2>1
<1>. QED
  BY <1>10

-----------------------------------------------------------------------------
(* Exposure: the account count, the ledger and the reservations together   *)
(* bound what is open or may still be filled                                *)

Committed ==
    OpenPositions \cup pending \cup {t \in Trades : AtHand(t, {"lock", "publish"})}

DecidingPCs == {"candle", "housekeep", "evaluate", "lock", "publish", "registry", "insert"}

\* While the cycle decides on a reconciled account, the account's count is the
\* ledger's and its open risk covers the ledger's.
AccountInv ==
    /\ openRisk \in Nat /\ savedRisk \in Nat
    /\ pc \in DecidingPCs /\ reconciled =>
          openCount = Cardinality(Ledger) /\ openRisk >= RiskOf(Ledger)

ExposureInv ==
    /\ Cardinality(Committed) <= MaxPositions
    /\ RiskOf(Committed) <= MaxExposure

LEMMA RiskType ==
    ASSUME TypeInv, NEW S \in SUBSET Trades
    PROVE  IsFiniteSet(S) /\ RiskOf(S) \in Nat
<1>1. IsFiniteSet(S)
  BY StoreAssumption, FS_Subset
<1>2. \A t \in S : risk[t] \in Nat
  BY DEF TypeInv, TypeOK, StoreTypeOK
<1>. QED
  BY <1>1, <1>2, SumType, RiskIsSum

\* The risk of a set changes only with the risk of its members.
LEMMA RiskKept ==
    ASSUME TypeInv, NEW S \in SUBSET Trades, \A t \in S : risk'[t] = risk[t]
    PROVE  Sum(risk', S) = RiskOf(S)
<1>1. IsFiniteSet(S)
  BY RiskType
<1>. QED
  BY <1>1, SumOfSame, RiskIsSum

LEMMA RiskNext ==
    /\ RiskOf(Ledger)' = Sum(risk', Ledger')
    /\ RiskOf(Committed)' = Sum(risk', Committed')
BY Zenon DEF RiskOf, Sum, IsSum, MapThenSumSet, MapThenFoldSet

LEMMA AccountInvNext ==
    ASSUME TypeInv, RowInv, AccountInv, [Next]_vars
    PROVE  AccountInv'
<1>1. RiskOf(Ledger) \in Nat
  BY RiskType DEF Ledger
<1>2. openRisk' \in Nat
  <2>1. CASE UpdateAccountState
    <3>1. FallbackRisk \in Nat /\ MaxOf(openRisk, savedRisk) \in Nat
      BY <1>1 DEF AccountInv, FallbackRisk, MaxOf
    <3>. QED
      BY <2>1, <3>1 DEF UpdateAccountState, UpdateAccountStatus, FailClosedOnSnapshot
  <2>2. CASE ~UpdateAccountState
    <3>1. UNCHANGED openRisk \/ Die
      BY <2>2, AccountFrame DEF Next, EngineStep, FeedbackStep, RecoveryStep, DecisionStep,
        accountVars, ExitCount, RecoverCount, FailClosedBridgeUncertainty, SendExpired,
        SendFailsBeforePublish, SendFailsAfterPublish, Crash, memoryVars
    <3>. QED
      BY <3>1 DEF AccountInv, Die, ForgetMemory
  <2>. QED
    BY <2>1, <2>2
<1>3. savedRisk' \in Nat
  <2>1. UNCHANGED savedRisk \/ savedRisk' = openRisk
    BY MetricsFrame DEF Next, EngineStep, FeedbackStep, RecoveryStep, DecisionStep, metricVars,
      PersistMetrics, ExitCount, RecoverCount, RecordConsecutiveLossUpdate, InsertAccountMetrics
  <2>. QED
    BY <2>1 DEF AccountInv
<1>4. ASSUME pc' \in DecidingPCs, reconciled'
      PROVE  openCount' = Cardinality(Ledger') /\ openRisk' >= Sum(risk', Ledger')
  <2>1. CASE UpdateAccountState
    <3>1. UNCHANGED <<row, risk>> /\ Ledger' = Ledger
      BY <2>1 DEF UpdateAccountState, storeVars, ledgerVars, Ledger
    <3>2. PICK open, restored : UpdateAccountStatus(open, restored)
      BY <1>4, <2>1 DEF UpdateAccountState, FailClosedOnSnapshot
    <3>3. openCount' = Cardinality(Ledger)
      BY <1>4, <3>2 DEF UpdateAccountStatus, Reconciled
    <3>4. openRisk' >= RiskOf(Ledger)
      <4>1. CASE Ledger = {}
        <5>1. RiskOf(Ledger) = 0
          BY <4>1, FS_EmptySet, SumStep, RiskIsSum
        <5>. QED
          BY <1>2, <5>1
      <4>2. CASE Ledger # {}
        BY <1>1, <3>2, <4>2 DEF UpdateAccountStatus, FallbackRisk, MaxOf, AccountInv
      <4>. QED
        BY <4>1, <4>2
    <3>. QED
      BY <3>1, <3>3, <3>4, RiskIsSum
  <2>2. CASE ~UpdateAccountState
    <3>1. /\ pc \in DecidingPCs /\ reconciled /\ UNCHANGED <<openCount, openRisk>>
          /\ Ledger' = Ledger /\ \A t \in Ledger : risk'[t] = risk[t]
      <4>1. CASE \/ StartDecisionCycle \/ Housekeep \/ SendLock \/ SendPublish \/ SendReturns
                 \/ EnvironmentStep \/ Tick \/ TornArtifact \/ UNCHANGED vars
        BY <1>4, <4>1 DEF StartDecisionCycle, Housekeep, SendLock, SendPublish, SendReturns,
          EnvironmentStep, InsideUnchanged, Tick, TornArtifact, vars, engineVars, memoryVars,
          accountVars, storeVars, ledgerVars, Ledger, DecidingPCs
      <4>2. ASSUME NEW u \in Trades, NEW status \in RowStates,
                   row[u] = "none", status \notin {"EXECUTED_OPEN", "EXECUTION_UNCERTAIN"},
                   InsertProposal(u, status)
            PROVE  Ledger' = Ledger
        BY <4>2 DEF InsertProposal, Ledger, TypeInv, TypeOK, StoreTypeOK
      <4>3. CASE InsertPending \/ SendFailsBeforePublish
        <5>1. row[cur] = "none" /\ cur \in Trades
          BY <4>3 DEF InsertPending, SendFailsBeforePublish, RowInv, TypeInv, LoopInv
        <5>2. SendFailsBeforePublish => Preserve10
          BY <1>4 DEF SendFailsBeforePublish, Die, Goto, DecidingPCs
        <5>3. InsertProposal(cur, "PENDING") \/ InsertProposal(cur, "REJECTED")
          BY <4>3, <5>2 DEF InsertPending, SendFailsBeforePublish
        <5>4. Ledger' = Ledger
          BY <4>2, <5>1, <5>3 DEF RowStates
        <5>. QED
          BY <1>4, <4>3, <5>2, <5>4 DEF InsertPending, SendFailsBeforePublish, DecidingPCs,
            accountVars, memoryVars
      <4>4. ~SendFailsAfterPublish
        BY <1>4 DEF SendFailsAfterPublish, Die, Goto, DecidingPCs
      <4>5. ASSUME NEW u \in Trades, EvaluateSymbol(u)
            PROVE  /\ pc \in DecidingPCs /\ reconciled /\ UNCHANGED <<openCount, openRisk>>
                   /\ Ledger' = Ledger /\ \A t \in Ledger : risk'[t] = risk[t]
        <5>1. row[u] = "none" /\ u \notin Ledger
          BY <4>5 DEF EvaluateSymbol, RowInv, Ledger
        <5>2. UNCHANGED row \/ InsertProposal(u, "REJECTED")
          BY <4>5 DEF EvaluateSymbol
        <5>3. Ledger' = Ledger
          BY <4>2, <5>1, <5>2 DEF RowStates, Ledger
        <5>4. \A t \in Trades : t # u => risk'[t] = risk[t]
          BY <4>5 DEF EvaluateSymbol, TryReserve, TypeInv, TypeOK, StoreTypeOK
        <5>. QED
          BY <1>4, <4>5, <5>1, <5>3, <5>4 DEF EvaluateSymbol, DecidingPCs, accountVars, Ledger
      <4>6. ~FeedbackStep /\ ~RecoveryStep
        BY <1>4 DEF FeedbackStep, RecoveryStep, DecidingPCs, Goto,
          CollectExecutionFeedback, ApplyExecutionFeedback, ExecutionReservation,
          ExecutionReceipt, ExecutionFinish, ExecutionFeedbackDone, CollectTradeExits,
          ApplyTradeExit, ExitReceipt, ExitReservation, ExitCount, ExitDelete,
          ExitFeedbackDone, ListOpenTrades, RecoverTrade, RecoverExit, RecoverCount, RecoveryDone
      <4>7. /\ ~SkipDecisionCycle /\ ~(\E t \in Trades : MarkUncertain(t))
            /\ ~FailClosedBridgeUncertainty /\ ~EvaluationDone /\ ~SendExpired
            /\ ~PersistMetrics /\ ~Crash /\ ~Restart
        BY <1>4 DEF SkipDecisionCycle, MarkUncertain, FailClosedBridgeUncertainty,
          EvaluationDone, SendExpired, PersistMetrics, Crash, Restart, Die, Goto, DecidingPCs
      <4>. QED
        BY <2>2, <4>1, <4>3, <4>4, <4>5, <4>6, <4>7 DEF Next, EngineStep, DecisionStep
    <3>2. Sum(risk', Ledger) = RiskOf(Ledger)
      BY <3>1, RiskKept DEF Ledger
    <3>. QED
      BY <3>1, <3>2 DEF AccountInv
  <2>. QED
    BY <2>1, <2>2
<1>. QED
  BY <1>2, <1>3, <1>4, RiskNext DEF AccountInv

\* A commitment begins with a successful evaluation; otherwise it moves from the
\* reservation to the signal and from the signal to the position, or ends.
LEMMA CommittedNext ==
    ASSUME TypeInv, FillInv, [Next]_vars, NEW t \in Committed'
    PROVE  \/ t \in Committed /\ risk'[t] = risk[t]
           \/ EvaluateSymbol(t) /\ pc' = "lock" /\ cur' = t
<1> USE DEF Committed, AtHand
<1>1. t \in Trades
  <2>1. pending' \subseteq Trades
    BY TypeInvNext DEF TypeInv, TypeOK, BridgeTypeOK
  <2>. QED
    BY <2>1 DEF OpenPositions
<1>2. CASE t \in OpenPositions' /\ t \notin OpenPositions
  <2>1. EnvironmentStep /\ t \in pending
    BY <1>1, <1>2, FillNext DEF OpenPositions
  <2>. QED
    BY <2>1 DEF EnvironmentStep, InsideUnchanged, storeVars, ledgerVars
<1>3. CASE t \in pending' /\ t \notin pending
  <2>1. SendPublish /\ cur = t
    BY <1>3, SignalNext
  <2>. QED
    BY <1>1, <2>1 DEF SendPublish, storeVars, ledgerVars
<1>4. CASE AtHand(t, {"lock", "publish"})' /\ ~AtHand(t, {"lock", "publish"})
  <2>1. EvaluateSymbol(t) /\ pc' = "lock"
    <3>1. CASE EnvironmentStep \/ Tick \/ UNCHANGED vars
      BY <1>4, <3>1 DEF EnvironmentStep, InsideUnchanged, Tick, vars, engineVars
    <3>2. CASE \/ Housekeep \/ SendLock \/ SendPublish \/ SendReturns \/ SendFailsBeforePublish
               \/ SendFailsAfterPublish \/ InsertPending \/ \E u \in Trades : EvaluateSymbol(u)
      BY <1>4, <3>2 DEF Housekeep, SendLock, SendPublish, SendReturns, SendFailsBeforePublish,
        SendFailsAfterPublish, InsertPending, EvaluateSymbol, Die, Goto
    <3>. QED
      BY <1>4, <3>1, <3>2, FillFrame DEF Next, EngineStep, DecisionStep, FillPCs
  <2>. QED
    BY <1>4, <2>1
<1>5. CASE t \in Committed /\ risk'[t] # risk[t]
  <2>1. EvaluateSymbol(t)
    BY <1>1, <1>5, ExpiryNext
  <2>2. risk' # risk
    BY <1>5
  <2>3. PICK r \in ProposedRisks :
           LET capacity == HasCapacity(openCount, openRisk, Throttled(r)) IN
           /\ TryReserve(t, Throttled(r), capacity)
           /\ capacity => cur' = t /\ Goto("lock")
    BY <2>1, <2>2 DEF EvaluateSymbol
  <2>4. HasCapacity(openCount, openRisk, Throttled(r))
    BY <2>2, <2>3 DEF TryReserve
  <2>. QED
    BY <2>1, <2>3, <2>4 DEF Goto
<1>. QED
  BY <1>1, <1>2, <1>3, <1>4, <1>5

\* What the evaluation of a trade counts: the ledger, through the account, and the
\* reservations that have not lapsed.
LEMMA CountedWhenEvaluated ==
    ASSUME LossFree, EngineInv, [Next]_vars, NEW t \in Trades, EvaluateSymbol(t),
           pc' = "lock", NEW u \in Committed, u # t
    PROVE  u \in Ledger \cup (Active \ Lapsed)
<1>1. pc = "evaluate"
  BY DEF EvaluateSymbol
<1>2. u \in Trades /\ (u \in pending \/ position[u] = "open")
  BY <1>1 DEF Committed, AtHand, OpenPositions, EngineInv, TypeInv, TypeOK, BridgeTypeOK
<1>3. CASE u \notin Ledger
  <2>1. u \in pending \/ Unapplied(u)
    BY <1>2, <1>3, OpenOnLedger
  <2>2. u \in Active
    BY <1>2, <2>1 DEF EngineInv, CapacityInv, PendingIsReserved, OpenIsReserved
  <2>3. u \in Active'
    BY <1>2, <2>1, <2>2, CapacityKept
  <2>4. u \notin Lapsed
    <3>1. \E r \in ProposedRisks : TryReserve(t, Throttled(r), HasCapacity(openCount, openRisk, Throttled(r)))
      BY <1>1 DEF EvaluateSymbol
    <3>. QED
      BY <1>2, <2>3, <3>1 DEF TryReserve, Active, ActiveReservationStates
  <2>. QED
    BY <2>2, <2>4
<1>. QED
  BY <1>3

LEMMA ExposureInvNext ==
    ASSUME LossFree, EngineInv, AccountInv, ExposureInv, [Next]_vars
    PROVE  ExposureInv'
<1>1. TypeInv /\ FillInv /\ RowInv /\ CapacityInv /\ MaxPositions \in Nat /\ MaxExposure \in Nat
  BY StoreAssumption DEF EngineInv
<1>2. EngineInv'
  BY EngineInvNext
<1>3. Committed \subseteq Trades /\ Committed' \subseteq Trades
  BY <1>1, <1>2 DEF Committed, OpenPositions, EngineInv, TypeInv, TypeOK, BridgeTypeOK
<1>4. IsFiniteSet(Committed) /\ IsFiniteSet(Committed')
  BY <1>3, StoreAssumption, FS_Subset
<1>5. \A t \in Trades : risk[t] \in Nat /\ risk'[t] \in Nat
  BY <1>2 DEF EngineInv, TypeInv, TypeOK, StoreTypeOK
<1>6. SUFFICES Cardinality(Committed') <= MaxPositions /\ Sum(risk', Committed') <= MaxExposure
  BY RiskNext DEF ExposureInv
<1>7. CASE \A t \in Committed' : t \in Committed /\ risk'[t] = risk[t]
  <2>1. Committed' \in SUBSET Committed
    BY <1>7
  <2>2. Cardinality(Committed') <= Cardinality(Committed)
    BY <1>4, <2>1, FS_Subset
  <2>3. Sum(risk', Committed') = Sum(risk, Committed')
    BY <1>4, <1>7, SumOfSame
  <2>4. Sum(risk, Committed') <= Sum(risk, Committed)
    BY <1>3, <1>4, <1>5, <2>1, SumMonotone
  <2>5. /\ Sum(risk, Committed) \in Nat /\ Sum(risk, Committed') \in Nat
        /\ Cardinality(Committed) \in Nat /\ Cardinality(Committed') \in Nat
    BY <1>3, <1>4, <1>5, SumType, FS_CardinalityType
  <2>6. Cardinality(Committed) <= MaxPositions /\ Sum(risk, Committed) <= MaxExposure
    BY RiskIsSum DEF ExposureInv
  <2>. QED
    BY <1>1, <2>2, <2>3, <2>4, <2>5, <2>6
<1>8. CASE \E t \in Committed' : EvaluateSymbol(t) /\ pc' = "lock" /\ cur' = t
  <2>1. PICK t \in Trades : EvaluateSymbol(t) /\ pc' = "lock" /\ cur' = t
    BY <1>3, <1>8
  <2> DEFINE counted == Active \ Lapsed
             known == Ledger \cup counted
  <2>2. PICK r \in ProposedRisks :
           /\ HardRiskApproves(r)
           /\ TryReserve(t, Throttled(r), TRUE)
           /\ HasCapacity(openCount, openRisk, Throttled(r))
    <3>1. pc = "evaluate"
      BY <2>1 DEF EvaluateSymbol
    <3>. QED
      BY <2>1, <3>1 DEF EvaluateSymbol, Goto
  <2>3. row[t] = "none" /\ reservation[t] = "none"
    BY <1>1, <2>1 DEF EvaluateSymbol, RowInv, FillInv, FillPCs
  <2>4. t \notin known /\ known \subseteq Trades
    BY <2>3 DEF Ledger, Active, ActiveReservationStates
  <2>5. risk'[t] = Throttled(r) /\ \A u \in Trades : u # t => risk'[u] = risk[u]
    BY <1>1, <2>2 DEF TryReserve, TypeInv, TypeOK, StoreTypeOK
  <2>6. Committed' \subseteq known \cup {t}
    BY <1>1, <2>1, CommittedNext, CountedWhenEvaluated
  <2>7. /\ IsFiniteSet(Ledger) /\ IsFiniteSet(counted) /\ IsFiniteSet(known)
        /\ IsFiniteSet(known \cup {t})
    <3>1. Ledger \subseteq Trades /\ counted \subseteq Trades /\ known \cup {t} \subseteq Trades
      BY <2>4 DEF Ledger, Active
    <3>. QED
      BY <2>4, <3>1, StoreAssumption, FS_Subset
  <2>8. openCount = Cardinality(Ledger) /\ openRisk >= RiskOf(Ledger) /\ openRisk \in Nat
    BY <2>1, <2>2 DEF AccountInv, DecidingPCs, EvaluateSymbol, HardRiskApproves
  <2>9. /\ openCount + Cardinality(counted) < MaxPositions
        /\ openRisk + Sum(risk, counted) + risk'[t] <= MaxExposure
    BY <2>2, <2>5, RiskIsSum DEF HasCapacity
  <2>10. Cardinality(Committed') <= MaxPositions
    <3>1. Cardinality(Committed') <= Cardinality(known \cup {t})
      BY <2>6, <2>7, FS_Subset
    <3>2. Cardinality(known \cup {t}) = Cardinality(known) + 1
      BY <2>4, <2>7, FS_AddElement
    <3>3. Cardinality(known) = Cardinality(Ledger) + Cardinality(counted)
                                 - Cardinality(Ledger \cap counted)
      BY <2>7, FS_Union
    <3>4. /\ Cardinality(Ledger) \in Nat /\ Cardinality(counted) \in Nat
          /\ Cardinality(Ledger \cap counted) \in Nat /\ Cardinality(Committed') \in Nat
      BY <1>4, <2>7, FS_Intersection, FS_CardinalityType
    <3> HIDE DEF known, counted
    <3>. QED
      BY <1>1, <2>8, <2>9, <3>1, <3>2, <3>3, <3>4
  <2>11. Sum(risk', Committed') <= MaxExposure
    <3>1. \A u \in known \cup {t} : u \in Trades /\ risk'[u] \in Nat
      BY <1>5, <2>4
    <3>2. Sum(risk', Committed') <= Sum(risk', known \cup {t})
      <4> HIDE DEF known
      <4>. QED
        BY <2>6, <2>7, <3>1, SumMonotone
    <3>3. Sum(risk', known \cup {t}) = risk'[t] + Sum(risk', known)
      <4>1. (known \cup {t}) \ {t} = known
        BY <2>4
      <4> HIDE DEF known
      <4>2. Sum(risk', known \cup {t}) = risk'[t] + Sum(risk', (known \cup {t}) \ {t})
        BY <2>7, <3>1, SumRemove
      <4>. QED
        BY <4>1, <4>2
    <3>4. Sum(risk', known) = Sum(risk, known)
      <4>1. \A u \in known : risk'[u] = risk[u]
        BY <2>4, <2>5
      <4> HIDE DEF known
      <4>. QED
        BY <2>7, <4>1, SumOfSame
    <3>5. Sum(risk, known) <= RiskOf(Ledger) + Sum(risk, counted)
      <4>1. Sum(risk, Ledger \cup counted) <= Sum(risk, Ledger) + Sum(risk, counted)
        <5>1. \A u \in Ledger \cup counted : risk[u] \in Nat
          BY <1>5, <2>4
        <5> HIDE DEF counted
        <5>. QED
          BY <2>7, <5>1, SumOfUnion
      <4>. QED
        BY <4>1, RiskIsSum
    <3>6. /\ Sum(risk', Committed') \in Nat /\ Sum(risk', known \cup {t}) \in Nat
          /\ Sum(risk, known) \in Nat /\ Sum(risk, counted) \in Nat /\ risk'[t] \in Nat
          /\ RiskOf(Ledger) \in Nat
      <4>1. Sum(risk', Committed') \in Nat
        BY <1>3, <1>4, <1>5, SumType
      <4>2. Sum(risk', known \cup {t}) \in Nat
        BY <2>7, <3>1, SumType
      <4>3. \A u \in known : risk[u] \in Nat
        BY <1>5, <2>4
      <4>4. Sum(risk, known) \in Nat /\ Sum(risk, counted) \in Nat /\ Sum(risk, Ledger) \in Nat
        BY <2>7, <4>3, SumType
      <4>. QED
        BY <1>5, <4>1, <4>2, <4>4, RiskIsSum
    <3> HIDE DEF known, counted
    <3>. QED
      BY <1>1, <2>8, <2>9, <3>2, <3>3, <3>4, <3>5, <3>6
  <2>. QED
    BY <2>10, <2>11
<1>9. \A t \in Committed' : \/ t \in Committed /\ risk'[t] = risk[t]
                            \/ EvaluateSymbol(t) /\ pc' = "lock" /\ cur' = t
  BY <1>1, CommittedNext
<1>. QED
  BY <1>7, <1>8, <1>9

LEMMA ExposureInvInit == Init => AccountInv /\ ExposureInv
<1> SUFFICES ASSUME Init PROVE AccountInv /\ ExposureInv
  OBVIOUS
<1>1. AccountInv
  BY DEF Init, StoreInit, EngineInit, AccountInv, DecidingPCs
<1>2. Committed = {}
  BY DEF Init, BridgeInit, EAInit, EngineInit, Committed, OpenPositions, AtHand
<1>3. Cardinality({}) = 0 /\ Sum(risk, {}) = 0
  BY FS_EmptySet, SumStep
<1>4. ExposureInv
  BY <1>2, <1>3, RiskIsSum, StoreAssumption DEF ExposureInv
<1>. QED
  BY <1>1, <1>4

\* What the broker holds together with what the EA may still fill stays within the
\* policy's positions and exposure, for every number of trades, every policy and
\* every interleaving of the loop, the EA, the broker and the clock.
THEOREM CommitmentsWithinLimit == LossFree /\ Spec => []CommittedWithinLimit
<1> SUFFICES ASSUME LossFree PROVE Spec => []CommittedWithinLimit
  OBVIOUS
<1> DEFINE I == EngineInv /\ AccountInv /\ ExposureInv
<1>1. Init => I
  BY EngineInvInit, ExposureInvInit
<1>2. I /\ [Next]_vars => I'
  BY EngineInvNext, AccountInvNext, ExposureInvNext DEF EngineInv
<1>3. I => CommittedWithinLimit
  <2> SUFFICES ASSUME I PROVE CommittedWithinLimit
    OBVIOUS
  <2> DEFINE live == {t \in pending : ~IsProcessed(t) /\ ~Expired(t)}
             held == OpenPositions \cup live
  <2>1. TypeInv
    BY DEF EngineInv
  <2>2. Committed \subseteq Trades /\ held \subseteq Committed
    BY <2>1 DEF Committed, OpenPositions, TypeInv, TypeOK, BridgeTypeOK
  <2>3. IsFiniteSet(Committed) /\ IsFiniteSet(held)
    BY <2>2, StoreAssumption, FS_Subset
  <2>4. Cardinality(held) <= Cardinality(Committed)
    <3> HIDE DEF held
    <3>. QED
      BY <2>2, <2>3, FS_Subset
  <2>5. RiskOf(held) <= RiskOf(Committed)
    <3> HIDE DEF held
    <3>1. \A t \in Committed : risk[t] \in Nat
      BY <2>1, <2>2 DEF TypeInv, TypeOK, StoreTypeOK
    <3>. QED
      BY <2>2, <2>3, <3>1, SumMonotone, RiskIsSum
  <2>6. /\ Cardinality(held) \in Nat /\ Cardinality(Committed) \in Nat
        /\ RiskOf(held) \in Nat /\ RiskOf(Committed) \in Nat
        /\ MaxPositions \in Nat /\ MaxExposure \in Nat
    <3> HIDE DEF held
    <3>1. held \in SUBSET Trades /\ Committed \in SUBSET Trades
      BY <2>2
    <3>. QED
      BY <2>1, <2>3, <3>1, RiskType, FS_CardinalityType, StoreAssumption
  <2>7. Cardinality(held) <= MaxPositions /\ RiskOf(held) <= MaxExposure
    <3> HIDE DEF held
    <3>. QED
      BY <2>4, <2>5, <2>6 DEF ExposureInv
  <2>. QED
    BY <2>7, Zenon DEF CommittedWithinLimit
<1>. QED
  BY <1>1, <1>2, <1>3, PTL DEF Spec
=============================================================================
