---------------------------- MODULE FeedbackConsumer ----------------------------
(***************************************************************************)
(* The first half of the engine's loop (main.py, Engine.run): the state of *)
(* the Engine object, _consume_feedback, which applies the artifacts of    *)
(* the EA to the store, and _recover_missing_trade_closures_from_broker.   *)
(* TradingEngine adds the second half.                                     *)
(*                                                                         *)
(* pc is where the loop is.  A step makes at most one change to the trade, *)
(* its reservation, its receipt or the loss streak, so that Crash between  *)
(* two steps is a crash between two of them, and the EA and the broker     *)
(* move between any two steps.  A lock, which only the housekeeping of     *)
(* stale files reads, is released together with the effect next to it.     *)
(***************************************************************************)
EXTENDS ExecutionEA

CONSTANTS
    Symbols,
    SymbolOf,        \* the symbol each trade is a candidate on
    ProposedRisks,   \* what the portfolio manager may ask for
    Preserve10,      \* MODE_ID = "preserve_10"
    MaxTime,         \* bound: last tick of the clock
    IterationLimit,  \* assumption: ticks one pass of the loop may take
    PickupLimit,     \* assumption: ticks within which the EA answers a signal
    MaxCrashes       \* bound: crashes of the engine per behaviour

ASSUME EngineAssumption ==
    /\ SymbolOf \in [Trades -> Symbols]
    /\ ProposedRisks \subseteq Nat \ {0}
    /\ Preserve10 \in BOOLEAN
    /\ MaxTime \in Nat
    /\ IterationLimit \in Nat
    /\ PickupLimit \in Nat
    /\ MaxCrashes \in Nat

VARIABLES
    pc,              \* the step of the loop, "down" when the process is gone
    cur,             \* the trade at hand
    batch,           \* what the present loop has left to handle
    collected,       \* the payload read from each execution artifact
    reconciled,      \* state_reconciled /\ ~is_trading_halted
    openCount,       \* account_status.open_positions_count
    openRisk,        \* account_status.open_risk_percent
    losses,          \* account_status.consecutive_losses
    seeded,          \* _consecutive_losses_seeded
    lastClose,       \* _latest_broker_close_time_utc
    summary,         \* the broker summary of the trade being recovered
    iterStart,       \* when this pass began
    crashes,         \* crashes so far
    exitCounts,      \* times a trade's exit artifact entered the loss streak
    recoveryCounts   \* times its recovery from history did

accountVars == <<reconciled, openCount, openRisk>>
lossVars    == <<losses, seeded, lastClose, summary, exitCounts, recoveryCounts>>
memoryVars  == <<accountVars, losses, seeded, lastClose, summary>>
engineVars  == <<pc, cur, batch, collected, memoryVars, iterStart, crashes,
                 exitCounts, recoveryCounts>>
outsideVars == <<bridgeVars, eaVars, faults>>
clockVars   == <<now, iterStart, crashes>>
vars == <<now, storeVars, outsideVars, engineVars>>

NoTrade == "none"

NothingCollected == NoArtifacts

NoSummary == [result |-> "flat", at |-> 0]

MaxCounts == 3   \* bound: the history counters stop here

PCs == {"collect_exec", "exec", "exec_reservation", "exec_receipt", "exec_finish",
        "collect_exit", "exit", "exit_receipt", "exit_reservation", "exit_count", "exit_delete",
        "list_open", "recover", "recover_exit", "recover_count",
        "refresh", "candle", "housekeep", "mark_uncertain",
        "evaluate", "lock", "publish", "registry", "insert", "persist", "down"}

ForgetMemory ==
    /\ reconciled' = TRUE
    /\ openCount' = 0
    /\ openRisk' = 0
    /\ losses' = 0
    /\ seeded' = FALSE
    /\ lastClose' = 0
    /\ summary' = NoSummary
    /\ cur' = NoTrade
    /\ batch' = {}
    /\ collected' = NothingCollected

EngineInit ==
    /\ pc = "collect_exec"
    /\ cur = NoTrade
    /\ batch = {}
    /\ collected = NothingCollected
    /\ reconciled = TRUE
    /\ openCount = 0
    /\ openRisk = 0
    /\ losses = 0
    /\ seeded = FALSE
    /\ lastClose = 0
    /\ summary = NoSummary
    /\ iterStart = 0
    /\ crashes = 0
    /\ exitCounts = [t \in Trades |-> 0]
    /\ recoveryCounts = [t \in Trades |-> 0]

Init == StoreInit /\ BridgeInit /\ EAInit /\ EngineInit

Goto(step) == pc' = step

\* The process goes down: an uncaught exception, or a kill.
Die == Goto("down") /\ ForgetMemory

-----------------------------------------------------------------------------
(* _consume_feedback, execution artifacts.  All are read before the first  *)
(* is applied; one that is locked is left for the next pass.               *)

CollectExecutionFeedback ==
    /\ pc = "collect_exec"
    /\ \/ batch' = ExecFiles /\ UNCHANGED faults
       \/ \E t \in ExecFiles : Fault("locked_artifact") /\ batch' = ExecFiles \ {t}
    /\ collected' = [t \in Trades |-> IF t \in batch' THEN execFile[t] ELSE NoArtifact]
    /\ Goto("exec")
    /\ UNCHANGED <<clockVars, storeVars, bridgeVars, eaVars, cur, accountVars, lossVars>>

\* The engine reads an artifact the EA is still writing: malformed JSON goes to
\* quarantine, and what it said is lost.
TornArtifact ==
    /\ Fault("torn_artifact")
    /\ \/ /\ pc = "collect_exec"
          /\ \E t \in ExecFiles : DeleteExecArtifact(t)
          /\ UNCHANGED exitFile
       \/ /\ pc = "collect_exit"
          /\ \E t \in ExitFiles : DeleteExitArtifact(t)
          /\ UNCHANGED execFile
    /\ UNCHANGED <<now, storeVars, signalVars, snapshot, eaVars, engineVars>>

\* path.unlink; a locked artifact stays and is met again on the next pass.
Unlink(deleted, kept) ==
    \/ deleted /\ UNCHANGED faults
    \/ Fault("locked_artifact") /\ kept

ApplyExecutionFeedback(t) ==
    /\ pc = "exec"
    /\ t \in batch
    /\ batch' = batch \ {t}
    /\ \/ /\ ExecReceiptExists(t, collected[t])
          /\ Unlink(DeleteExecArtifact(t), UNCHANGED execFile)
          /\ ReleaseLock(t)
          /\ UNCHANGED <<row, ticketed, cur, pc>>
       \/ /\ ~ExecReceiptExists(t, collected[t])
          /\ row[t] = "none"          \* matched no row: deferred
          /\ UNCHANGED <<row, ticketed, cur, pc, execFile, locks, faults>>
       \/ /\ ~ExecReceiptExists(t, collected[t])
          /\ row[t] # "none"
          /\ ApplyExecutionResult(t, collected[t].status)
          /\ cur' = t
          /\ Goto("exec_reservation")
          /\ UNCHANGED <<execFile, locks, faults>>
    /\ UNCHANGED <<clockVars, reservation, risk, expiresAt, receiptVars, metricVars,
                   pending, exitFile, snapshot, eaVars, collected, accountVars, lossVars>>

ExecutionReservation ==
    /\ pc = "exec_reservation"
    /\ Transition(cur, collected[cur].status)
    /\ Goto("exec_receipt")
    /\ UNCHANGED <<clockVars, row, risk, expiresAt, ticketed, receiptVars, metricVars,
                   outsideVars, cur, batch, collected, accountVars, lossVars>>

ExecutionReceipt ==
    /\ pc = "exec_receipt"
    /\ RecordExecReceipt(cur, collected[cur])
    /\ Goto("exec_finish")
    /\ UNCHANGED <<clockVars, row, reservation, risk, expiresAt, ticketed,
                   exitReceipts, metricVars, outsideVars, cur, batch, collected, accountVars, lossVars>>

ExecutionFinish ==
    /\ pc = "exec_finish"
    /\ ReleaseLock(cur)
    /\ Unlink(DeleteExecArtifact(cur), UNCHANGED execFile)
    /\ cur' = NoTrade
    /\ Goto("exec")
    /\ UNCHANGED <<clockVars, storeVars, pending, exitFile, snapshot, eaVars, batch,
                   collected, accountVars, lossVars>>

ExecutionFeedbackDone ==
    /\ pc = "exec"
    /\ batch = {}
    /\ collected' = NothingCollected
    /\ Goto("collect_exit")
    /\ UNCHANGED <<clockVars, storeVars, outsideVars, cur, batch, accountVars, lossVars>>

-----------------------------------------------------------------------------
(* _consume_feedback, exit artifacts. *)

CollectTradeExits ==
    /\ pc = "collect_exit"
    /\ \/ batch' = ExitFiles /\ UNCHANGED faults
       \/ \E t \in ExitFiles : Fault("locked_artifact") /\ batch' = ExitFiles \ {t}
    /\ Goto("exit")
    /\ UNCHANGED <<clockVars, storeVars, bridgeVars, eaVars, cur, collected, accountVars,
                   lossVars>>

ApplyTradeExit(t) ==
    /\ pc = "exit"
    /\ t \in batch
    /\ batch' = batch \ {t}
    /\ \/ /\ ExitReceiptExists(t, exitFile[t])
          /\ Unlink(DeleteExitArtifact(t), UNCHANGED exitFile)
          /\ UNCHANGED <<row, cur, pc>>
       \/ /\ ~ExitReceiptExists(t, exitFile[t])
          /\ ~ExitMatches(t, exitFile[t])     \* an unmatched final exit: deferred
          /\ UNCHANGED <<row, cur, pc, exitFile, faults>>
       \/ /\ ~ExitReceiptExists(t, exitFile[t])
          /\ ExitMatches(t, exitFile[t])
          /\ ApplyExitResult(t)
          /\ cur' = t
          /\ Goto("exit_receipt")
          /\ UNCHANGED <<exitFile, faults>>
    /\ UNCHANGED <<clockVars, reservation, risk, expiresAt, ticketed, receiptVars,
                   metricVars, signalVars, execFile, snapshot, eaVars, collected,
                   accountVars, lossVars>>

ExitReceipt ==
    /\ pc = "exit_receipt"
    /\ RecordExitReceipt(cur, exitFile[cur])
    /\ Goto("exit_reservation")
    /\ UNCHANGED <<clockVars, execReceipts, row, reservation, risk, expiresAt, ticketed,
                   metricVars, outsideVars, cur, batch, collected, accountVars, lossVars>>

\* The transition goes by the trade_id of the artifact, which a comment is not.
ExitReservation ==
    /\ pc = "exit_reservation"
    /\ IF exitFile[cur] = "trade_id" THEN Transition(cur, "CLOSED") ELSE UNCHANGED reservation
    /\ Goto("exit_count")
    /\ UNCHANGED <<clockVars, row, risk, expiresAt, ticketed, receiptVars, metricVars,
                   outsideVars, cur, batch, collected, accountVars, lossVars>>

\* _record_consecutive_loss_update: the first update of a process starts from
\* the persisted streak; a flat result changes nothing and persists nothing.
SeededLosses == IF seeded THEN losses ELSE savedLosses

RecordConsecutiveLossUpdate(o) ==
    /\ seeded' = TRUE
    /\ losses' = CASE o = "loss" -> IF SeededLosses < LossHalt THEN SeededLosses + 1
                                    ELSE LossHalt
                   [] o = "win"  -> 0
                   [] OTHER      -> SeededLosses
    /\ IF o = "flat" THEN UNCHANGED metricVars ELSE InsertAccountMetrics(openRisk, losses')

RecordBrokerCloseTime(time) == lastClose' = IF time > lastClose THEN time ELSE lastClose

Count(counts, t) == [counts EXCEPT ![t] = IF @ < MaxCounts THEN @ + 1 ELSE @]

ExitCount ==
    /\ pc = "exit_count"
    /\ RecordConsecutiveLossUpdate(outcome[cur])
    /\ RecordBrokerCloseTime(closedAt[cur])
    /\ exitCounts' = Count(exitCounts, cur)
    /\ Goto("exit_delete")
    /\ UNCHANGED <<clockVars, ledgerVars, outsideVars, cur, batch, collected, accountVars,
                   summary, recoveryCounts>>

ExitDelete ==
    /\ pc = "exit_delete"
    /\ Unlink(DeleteExitArtifact(cur), UNCHANGED exitFile)
    /\ cur' = NoTrade
    /\ Goto("exit")
    /\ UNCHANGED <<clockVars, storeVars, signalVars, execFile, snapshot, eaVars, batch,
                   collected, accountVars, lossVars>>

ExitFeedbackDone ==
    /\ pc = "exit"
    /\ batch = {}
    /\ Goto("list_open")
    /\ UNCHANGED <<clockVars, storeVars, outsideVars, cur, batch, collected, accountVars,
                   lossVars>>

-----------------------------------------------------------------------------
(* _recover_missing_trade_closures_from_broker *)

\* A row with a ticket is skipped while the broker lists its position as open; an
\* EXECUTION_UNCERTAIN row has no ticket to look up.  A listing that fails ends
\* the recovery or, without a connection or an answer of the terminal, passes
\* for an empty one: then every row goes on to the history.
ListOpenTrades ==
    /\ pc = "list_open"
    /\ \/ /\ batch' = {t \in Ledger : row[t] = "EXECUTED_OPEN" => position[t] # "open"}
          /\ UNCHANGED faults
       \/ /\ batch' \in {{}, Ledger}
          /\ Fault("positions")
    /\ Goto("recover")
    /\ UNCHANGED <<clockVars, storeVars, bridgeVars, eaVars, cur, collected, accountVars,
                   lossVars>>

\* Mutant: the exit deal is never found.
HistoryShowsClosure_Never(t) == FALSE

\* Any exit deal passes for the closure, that of a partial close too.
HistoryShowsClosure(t) == position[t] = "closed" \/ t \in halved

\* The summary is that of the exit deals up to now.
RecoverTrade(t) ==
    /\ pc = "recover"
    /\ t \in batch
    /\ batch' = batch \ {t}
    /\ \/ /\ HistoryShowsClosure(t)
          /\ ApplyExecutionResult(t, "EXECUTED")
          /\ summary' = [result |-> outcome[t], at |-> closedAt[t]]
          /\ cur' = t
          /\ Goto("recover_exit")
          /\ UNCHANGED faults
       \/ /\ \/ ~HistoryShowsClosure(t) /\ UNCHANGED faults
             \/ Fault("history")
          /\ UNCHANGED <<row, ticketed, summary, cur, pc>>
    /\ UNCHANGED <<clockVars, reservation, risk, expiresAt, receiptVars, metricVars,
                   bridgeVars, eaVars, collected, accountVars, losses, seeded, lastClose,
                   exitCounts, recoveryCounts>>

\* Mutant: the recovered trade is closed and its result forgotten.
RecoverExit_Uncounted ==
    /\ pc = "recover_exit"
    /\ ApplyExitResult(cur)
    /\ cur' = NoTrade
    /\ Goto("recover")
    /\ UNCHANGED <<clockVars, reservation, risk, expiresAt, ticketed, receiptVars,
                   metricVars, outsideVars, batch, collected, accountVars, lossVars>>

RecoverExit ==
    /\ pc = "recover_exit"
    /\ ApplyExitResult(cur)
    /\ Goto("recover_count")
    /\ UNCHANGED <<clockVars, reservation, risk, expiresAt, ticketed, receiptVars,
                   metricVars, outsideVars, cur, batch, collected, accountVars, lossVars>>

RecoverCount ==
    /\ pc = "recover_count"
    /\ RecordConsecutiveLossUpdate(summary.result)
    /\ RecordBrokerCloseTime(summary.at)
    /\ recoveryCounts' = Count(recoveryCounts, cur)
    /\ ReleaseLock(cur)
    /\ summary' = NoSummary
    /\ cur' = NoTrade
    /\ Goto("recover")
    /\ UNCHANGED <<clockVars, ledgerVars, pending, execFile, exitFile, snapshot, eaVars,
                   faults, batch, collected, accountVars, exitCounts>>

RecoveryDone ==
    /\ pc = "recover"
    /\ batch = {}
    /\ Goto("refresh")
    /\ UNCHANGED <<clockVars, storeVars, outsideVars, cur, batch, collected, accountVars,
                   lossVars>>
=============================================================================
