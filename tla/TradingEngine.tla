----------------------------- MODULE TradingEngine -----------------------------
(***************************************************************************)
(* The second half of the engine's loop (main.py, Engine.run): refresh the *)
(* account state (core/state_sync.py), the decision cycle with its hard    *)
(* risk gate (core/risk/hard_risk_engine.py), the reservation and          *)
(* publication of a signal (application/routing_service.py), the metrics   *)
(* row that ends a pass, and the crash and restart of the process.  Spec   *)
(* composes the engine with the EA, the broker and the clock.              *)
(***************************************************************************)
EXTENDS FeedbackConsumer

-----------------------------------------------------------------------------
(* _update_account_state *)

SnapshotUsable ==
    /\ now - snapshot.at <= SnapshotAge
    /\ snapshot.at >= lastClose

SymbolsOf(S) == {SymbolOf[t] : t \in S}

MaxOf(a, b) == IF a >= b THEN a ELSE b

\* No snapshot of this system carries an open risk: the largest of what memory,
\* the last metrics row and the ledger say stands in for it.
FallbackRisk == MaxOf(MaxOf(openRisk, savedRisk), RiskOf(Ledger))

Reconciled(open, restored) ==
    IF open = {} THEN Ledger = {}
    ELSE /\ restored
         /\ Cardinality(Ledger) = Cardinality(open)
         /\ SymbolsOf(Ledger) = SymbolsOf(open)

\* Mutant: memory wins over the metrics row.
UpdateAccountStatus_MemoryLosses(open, restored) ==
    /\ reconciled' = Reconciled(open, restored)
    /\ openCount' = Cardinality(open)
    /\ openRisk' = IF open = {} /\ Ledger = {} THEN 0 ELSE FallbackRisk
    /\ seeded' = TRUE
    /\ UNCHANGED losses

UpdateAccountStatus(open, restored) ==
    /\ reconciled' = Reconciled(open, restored)
    /\ openCount' = Cardinality(open)
    /\ openRisk' = IF open = {} /\ Ledger = {} THEN 0 ELSE FallbackRisk
    /\ losses' = savedLosses
    /\ seeded' = TRUE

\* The broker answers nothing: the restart seed is all that is applied.
FailClosedOnSnapshot ==
    /\ reconciled' = FALSE
    /\ openRisk' = MaxOf(openRisk, savedRisk)
    /\ UNCHANGED <<openCount, losses, seeded>>

\* A usable file of the EA, or else the terminal itself, which knows nothing of
\* management slots: with an open position it never counts as restored.
UpdateAccountState ==
    /\ pc = "refresh"
    /\ \/ /\ SnapshotUsable
          /\ UpdateAccountStatus(snapshot.open, snapshot.restored)
          /\ UNCHANGED faults
       \/ /\ ~SnapshotUsable
          /\ UpdateAccountStatus(OpenPositions, OpenPositions = {})
          /\ UNCHANGED faults
       \/ /\ ~SnapshotUsable
          /\ Fault("snapshot")
          /\ FailClosedOnSnapshot
    /\ Goto("candle")
    /\ UNCHANGED <<clockVars, storeVars, bridgeVars, eaVars, cur, batch, collected,
                   lastClose, summary, exitCounts, recoveryCounts>>

-----------------------------------------------------------------------------
(* The decision cycle: the candle, calendar and session gates, then router *)
(* housekeeping, which ends the cycle if it finds anything.                *)

SkipDecisionCycle ==
    /\ pc = "candle"
    /\ Goto("persist")
    /\ UNCHANGED <<clockVars, storeVars, outsideVars, cur, batch, collected, accountVars,
                   lossVars>>

StartDecisionCycle ==
    /\ pc = "candle"
    /\ reconciled
    /\ Goto("housekeep")
    /\ UNCHANGED <<clockVars, storeVars, outsideVars, cur, batch, collected, accountVars,
                   lossVars>>

\* Trades the agents have not proposed yet; a cycle looks at each symbol once.
Unproposed == {t \in Trades : row[t] = "none" /\ reservation[t] = "none"}

Proposals ==
    {S \in SUBSET Unproposed : \A t, u \in S : SymbolOf[t] = SymbolOf[u] => t = u}

Housekeep ==
    /\ pc = "housekeep"
    /\ CleanupStale
    /\ IF StalePending \cup OrphanLocks = {}
       THEN batch' \in Proposals /\ Goto("evaluate")
       ELSE batch' = StalePending \cup OrphanLocks /\ Goto("mark_uncertain")
    /\ UNCHANGED <<clockVars, storeVars, execFile, exitFile, snapshot, eaVars, faults, cur,
                   collected, accountVars, lossVars>>

MarkUncertain(t) ==
    /\ pc = "mark_uncertain"
    /\ t \in batch
    /\ MarkExecutionUncertain(t)
    /\ batch' = batch \ {t}
    /\ UNCHANGED <<clockVars, reservation, risk, expiresAt, ticketed, receiptVars,
                   metricVars, outsideVars, pc, cur, collected, accountVars, lossVars>>

FailClosedBridgeUncertainty ==
    /\ pc = "mark_uncertain"
    /\ batch = {}
    /\ reconciled' = FALSE
    /\ Goto("persist")
    /\ UNCHANGED <<clockVars, storeVars, outsideVars, cur, batch, collected, openCount,
                   openRisk, lossVars>>

-----------------------------------------------------------------------------
(* _evaluate_symbol: the hard risk gate and the reservation. *)

ThrottlePercent(streak) == CASE streak = 1 -> 75 [] streak = 2 -> 50 [] OTHER -> 100

Throttled(r) == (r * ThrottlePercent(losses)) \div 100

HardRiskApproves(r) ==
    /\ reconciled
    /\ losses < LossHalt
    /\ openCount < MaxPositions
    /\ openRisk + Throttled(r) <= MaxExposure

\* An agent, a filter, the gate or the reservation says no: the proposal is
\* kept as REJECTED.
EvaluateSymbol(t) ==
    /\ pc = "evaluate"
    /\ t \in batch
    /\ batch' = batch \ {t}
    /\ \/ /\ InsertProposal(t, "REJECTED")
          /\ UNCHANGED <<reservation, risk, expiresAt, cur, pc>>
       \/ \E r \in ProposedRisks :
             LET capacity == HasCapacity(openCount, openRisk, Throttled(r)) IN
             /\ HardRiskApproves(r)
             /\ TryReserve(t, Throttled(r), capacity)
             /\ IF capacity
                THEN cur' = t /\ Goto("lock") /\ UNCHANGED row
                ELSE InsertProposal(t, "REJECTED") /\ UNCHANGED <<cur, pc>>
    /\ UNCHANGED <<clockVars, ticketed, receiptVars, metricVars, outsideVars, collected,
                   accountVars, lossVars>>

EvaluationDone ==
    /\ pc = "evaluate"
    /\ batch = {}
    /\ Goto("persist")
    /\ UNCHANGED <<clockVars, storeVars, outsideVars, cur, batch, collected, accountVars,
                   lossVars>>

-----------------------------------------------------------------------------
(* RoutingService.reserve_and_route after the reservation, and what        *)
(* _evaluate_symbol does with a router failure.                            *)

\* validate_execution_envelope, then the lock.
SendLock ==
    /\ pc = "lock"
    /\ ~Expired(cur)
    /\ CreateLock(cur)
    /\ Goto("publish")
    /\ UNCHANGED <<clockVars, storeVars, pending, execFile, exitFile, snapshot, eaVars,
                   faults, cur, batch, collected, accountVars, lossVars>>

\* An expired envelope is a ValueError nobody catches: the reservation is
\* released on its way out and the process ends.
SendExpired ==
    /\ pc = "lock"
    /\ Expired(cur)
    /\ Transition(cur, "RELEASED")
    /\ Die
    /\ UNCHANGED <<clockVars, row, risk, expiresAt, ticketed, receiptVars, metricVars,
                   outsideVars, exitCounts, recoveryCounts>>

SendPublish ==
    /\ pc = "publish"
    /\ PublishPending(cur)
    /\ Goto("registry")
    /\ UNCHANGED <<clockVars, storeVars, locks, execFile, exitFile, snapshot, eaVars,
                   faults, cur, batch, collected, accountVars, lossVars>>

\* The signal never became visible: the lock and the reservation are released.
SendFailsBeforePublish ==
    /\ pc = "publish"
    /\ Fault("router_before_publish")
    /\ ReleaseLock(cur)
    /\ Transition(cur, "RELEASED")
    /\ IF Preserve10
       THEN /\ InsertProposal(cur, "REJECTED")
            /\ cur' = NoTrade
            /\ Goto("evaluate")
            /\ UNCHANGED <<batch, collected, memoryVars>>
       ELSE Die /\ UNCHANGED row
    /\ UNCHANGED <<clockVars, risk, expiresAt, ticketed, receiptVars, metricVars, pending,
                   execFile, exitFile, snapshot, eaVars, exitCounts, recoveryCounts>>

SendReturns ==
    /\ pc = "registry"
    /\ Transition(cur, "ROUTED")
    /\ Goto("insert")
    /\ UNCHANGED <<clockVars, row, risk, expiresAt, ticketed, receiptVars, metricVars,
                   outsideVars, cur, batch, collected, accountVars, lossVars>>

\* The registry cannot be written although the signal is visible.
SendFailsAfterPublish ==
    /\ pc = "registry"
    /\ Fault("router_after_publish")
    /\ Transition(cur, "EXECUTION_UNCERTAIN")
    /\ IF Preserve10
       THEN /\ InsertProposal(cur, "EXECUTION_UNCERTAIN")
            /\ reconciled' = FALSE
            /\ cur' = NoTrade
            /\ Goto("evaluate")
            /\ UNCHANGED <<batch, collected, openCount, openRisk, losses, seeded, lastClose, summary>>
       ELSE Die /\ UNCHANGED row
    /\ UNCHANGED <<clockVars, risk, expiresAt, ticketed, receiptVars, metricVars,
                   bridgeVars, eaVars, exitCounts, recoveryCounts>>

InsertPending ==
    /\ pc = "insert"
    /\ InsertProposal(cur, "PENDING")
    /\ cur' = NoTrade
    /\ Goto("evaluate")
    /\ UNCHANGED <<clockVars, reservation, risk, expiresAt, ticketed, receiptVars,
                   metricVars, outsideVars, batch, collected, accountVars, lossVars>>

-----------------------------------------------------------------------------
(* The end of a pass; crash and restart; the clock. *)

PersistMetrics ==
    /\ pc = "persist"
    /\ InsertAccountMetrics(openRisk, losses)
    /\ Goto("collect_exec")
    /\ iterStart' = now
    /\ UNCHANGED <<now, crashes, ledgerVars, outsideVars, cur, batch, collected,
                   accountVars, lossVars>>

Crash ==
    /\ pc # "down"
    /\ crashes < MaxCrashes
    /\ crashes' = crashes + 1
    /\ Die
    /\ UNCHANGED <<now, iterStart, storeVars, outsideVars, exitCounts, recoveryCounts>>

\* main(): the migrations run before anything else, on every start.
Restart ==
    /\ pc = "down"
    /\ MarkStaleTrades
    /\ Goto("collect_exec")
    /\ iterStart' = now
    /\ UNCHANGED <<now, crashes, reservation, risk, expiresAt, ticketed, receiptVars,
                   metricVars, outsideVars, cur, batch, collected, accountVars, lossVars>>

Tick ==
    /\ now < MaxTime
    /\ pc # "down" => now < iterStart + IterationLimit
    /\ \A t \in pending : Expired(t) \/ FileAge(t) < PickupLimit
    /\ now' = now + 1
    /\ UNCHANGED <<storeVars, outsideVars, engineVars>>

FeedbackStep ==
    \/ CollectExecutionFeedback
    \/ \E t \in Trades : ApplyExecutionFeedback(t)
    \/ ExecutionReservation
    \/ ExecutionReceipt
    \/ ExecutionFinish
    \/ ExecutionFeedbackDone
    \/ CollectTradeExits
    \/ \E t \in Trades : ApplyTradeExit(t)
    \/ ExitReceipt
    \/ ExitReservation
    \/ ExitCount
    \/ ExitDelete
    \/ ExitFeedbackDone

RecoveryStep ==
    \/ ListOpenTrades
    \/ \E t \in Trades : RecoverTrade(t)
    \/ RecoverExit
    \/ RecoverCount
    \/ RecoveryDone

DecisionStep ==
    \/ UpdateAccountState
    \/ SkipDecisionCycle
    \/ StartDecisionCycle
    \/ Housekeep
    \/ \E t \in Trades : MarkUncertain(t)
    \/ FailClosedBridgeUncertainty
    \/ \E t \in Trades : EvaluateSymbol(t)
    \/ EvaluationDone
    \/ SendLock
    \/ SendExpired
    \/ SendPublish
    \/ SendFailsBeforePublish
    \/ SendReturns
    \/ SendFailsAfterPublish
    \/ InsertPending
    \/ PersistMetrics

EngineStep == FeedbackStep \/ RecoveryStep \/ DecisionStep

\* The EA and the broker touch neither the store nor the engine.
InsideUnchanged == UNCHANGED <<now, storeVars, engineVars>>

EnvironmentStep == EANext /\ InsideUnchanged

Next ==
    \/ EngineStep
    \/ TornArtifact
    \/ Crash
    \/ Restart
    \/ EnvironmentStep
    \/ Tick

Spec == Init /\ [][Next]_vars

\* The loop keeps running, a supervisor restarts the process, the EA's timer
\* sweeps closed positions.  Faults, crashes, closes and the clock are under no obligation.
Fairness ==
    /\ WF_vars(EngineStep)
    /\ WF_vars(Restart)
    /\ \A t \in Trades : WF_vars(SweepClosedManagedPosition(t) /\ InsideUnchanged)

FairSpec == Spec /\ Fairness
=============================================================================
