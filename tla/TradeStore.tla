------------------------------ MODULE TradeStore ------------------------------
(***************************************************************************)
(* The SQLite store of the engine (database/db.py): the trade ledger, the  *)
(* capacity reservations, the feedback receipts and the last row of        *)
(* account_metrics.  Every operator with a primed variable is one          *)
(* transaction (get_conn commits on a normal exit), so the engine can stop *)
(* between two of them and never inside one.                               *)
(*                                                                         *)
(* Risk is counted in thousandths of the balance (BASE_RISK_PCT 0.032 is   *)
(* 32).  A loss streak is kept up to LossHalt: every larger value is       *)
(* refused by the same gate.                                               *)
(***************************************************************************)
EXTENDS Integers, FiniteSets, FiniteSetsExt

CONSTANTS
    Trades,        \* the trade ids the agents may propose
    MaxPositions,  \* MAX_SIMULTANEOUS_TRADES
    MaxExposure,   \* MAX_COMBINED_EXPOSURE
    TTL,           \* RoutingService.ttl_seconds, in ticks of the clock
    LossHalt       \* LOSS_HALT_THRESHOLD

ASSUME StoreAssumption ==
    /\ IsFiniteSet(Trades)
    /\ MaxPositions \in Nat \ {0}
    /\ MaxExposure \in Nat
    /\ TTL \in Nat \ {0}
    /\ LossHalt \in Nat \ {0}

VARIABLES
    now,          \* the host's UTC clock, shared by the engine and the EA
    row,          \* trades.status of each trade, "none" when it has no row
    reservation,  \* trade_reservations.state, "none" when it has no row
    risk,         \* risk_percent of the trade's reservation and ledger row
    expiresAt,    \* expires_at of the reservation and of the signal's envelope
    ticketed,     \* trades whose row has the position_ticket of its fill
    execReceipts, \* feedback_receipts of execution artifacts
    exitReceipts, \* feedback_receipts of exit artifacts
    savedRisk,    \* open_risk_percent of the last account_metrics row
    savedLosses   \* consecutive_losses of the last account_metrics row

receiptVars == <<execReceipts, exitReceipts>>
ledgerVars == <<row, reservation, risk, expiresAt, ticketed, receiptVars>>
metricVars == <<savedRisk, savedLosses>>
storeVars  == <<ledgerVars, metricVars>>

RowStates == {"none", "PENDING", "EXECUTION_UNCERTAIN", "EXECUTED_OPEN",
              "REJECTED", "CLOSED", "FEEDBACK_LOST"}
ReservationStates == {"none", "RESERVED", "ROUTED", "EXECUTION_UNCERTAIN", "EXECUTED",
                      "REJECTED", "RELEASED", "EXPIRED", "CLOSED"}

\* Mutant: an approved and published signal holds no capacity.
ActiveReservationStates_NotRouted == {"RESERVED", "EXECUTION_UNCERTAIN"}

\* _ACTIVE_RESERVATION_STATES: the reservations that hold capacity.
ActiveReservationStates == {"RESERVED", "ROUTED", "EXECUTION_UNCERTAIN"}


\* What tells two artifacts of the EA apart.  An execution artifact is dated when
\* it is written and carries the ticket of the order, here its number among
\* the trade's orders; an exit artifact is dated by its deal, so that only the
\* trade_id it is written with can differ.
ExecArtifacts == [status : {"EXECUTED", "REJECTED"}, ticket : Nat, at : Nat]
ExitIds == {"trade_id", "comment"}

StoreInit ==
    /\ now = 0
    /\ row = [t \in Trades |-> "none"]
    /\ reservation = [t \in Trades |-> "none"]
    /\ risk = [t \in Trades |-> 0]
    /\ expiresAt = [t \in Trades |-> 0]
    /\ ticketed = {}
    /\ execReceipts = {}
    /\ exitReceipts = {}
    /\ savedRisk = 0
    /\ savedLosses = 0

RiskOf(S) == MapThenSumSet(LAMBDA t : risk[t], S)

Active == {t \in Trades : reservation[t] \in ActiveReservationStates}

-----------------------------------------------------------------------------
(* trade_reservations *)

\* Mutant: the age is taken from the creation of the reservation.
Lapsed_OnCreation == {t \in Active : expiresAt[t] - TTL <= now}

\* The clean-up every reservation attempt starts with; it is committed even
\* when the attempt is then refused.
Lapsed == {t \in Active : expiresAt[t] <= now}

\* Mutant: one position too many.
HasCapacity_OffByOne(brokerCount, brokerRisk, r) ==
    /\ brokerCount + Cardinality(Active \ Lapsed) <= MaxPositions
    /\ brokerRisk + RiskOf(Active \ Lapsed) + r <= MaxExposure

HasCapacity(brokerCount, brokerRisk, r) ==
    LET counted == Active \ Lapsed IN
    /\ brokerCount + Cardinality(counted) < MaxPositions
    /\ brokerRisk + RiskOf(counted) + r <= MaxExposure

TryReserve(t, r, approved) ==
    /\ reservation' = [u \in Trades |->
                         IF u \in Lapsed THEN "EXPIRED"
                         ELSE IF u = t /\ approved THEN "RESERVED"
                         ELSE reservation[u]]
    /\ risk' = IF approved THEN [risk EXCEPT ![t] = r] ELSE risk
    /\ expiresAt' = IF approved THEN [expiresAt EXCEPT ![t] = now + TTL] ELSE expiresAt

\* transition_trade_reservation and its twin by trade id update whatever row is
\* there, whatever state it is in.
Transition(t, state) ==
    reservation' = IF reservation[t] = "none" THEN reservation
                   ELSE [reservation EXCEPT ![t] = state]

-----------------------------------------------------------------------------
(* trades *)

\* Rows list_open_trades returns: what the engine believes is open.
Ledger == {t \in Trades : row[t] \in {"EXECUTED_OPEN", "EXECUTION_UNCERTAIN"}}

InsertProposal(t, status) == row' = [row EXCEPT ![t] = status]

\* Mutant: the broker's word is stored as it is.
ApplyExecutionResult_Verbatim(t, status) ==
    /\ row' = [row EXCEPT ![t] = status]
    /\ ticketed' = IF status = "EXECUTED" THEN ticketed \cup {t} ELSE ticketed

\* An UPDATE by trade id with no condition on the present status.
ApplyExecutionResult(t, status) ==
    /\ row' = [row EXCEPT ![t] = IF status = "EXECUTED" THEN "EXECUTED_OPEN" ELSE "REJECTED"]
    /\ ticketed' = IF status = "EXECUTED" THEN ticketed \cup {t} ELSE ticketed

\* update_trade_exit_result looks for the position's ticket, then for the trade_id.
ExitMatches(t, id) == row[t] # "none" /\ (id = "trade_id" \/ t \in ticketed)

ApplyExitResult(t) == row' = [row EXCEPT ![t] = "CLOSED"]

MarkExecutionUncertain(t) ==
    row' = IF row[t] \in {"PENDING", "EXECUTION_UNCERTAIN"}
           THEN [row EXCEPT ![t] = "EXECUTION_UNCERTAIN"] ELSE row

\* Mutant: an executed row without feedback is stale too.
MarkStaleTrades_Executed ==
    row' = [t \in Trades |-> IF row[t] \in {"PENDING", "EXECUTED_OPEN"} THEN "FEEDBACK_LOST"
                             ELSE row[t]]

\* The start-up migration.  A PENDING row still has lot_size 0 and no close
\* time, so all of them match; an executed row has its lot size.
MarkStaleTrades ==
    row' = [t \in Trades |-> IF row[t] = "PENDING" THEN "FEEDBACK_LOST" ELSE row[t]]

-----------------------------------------------------------------------------
(* feedback_receipts and account_metrics *)

ExecReceiptExists(t, artifact) == <<t, artifact>> \in execReceipts

\* Mutant: no exit artifact is ever known.
ExitReceiptExists_Never(t, id) == FALSE

ExitReceiptExists(t, id) == <<t, id>> \in exitReceipts

RecordExecReceipt(t, artifact) == execReceipts' = execReceipts \cup {<<t, artifact>>}

RecordExitReceipt(t, id) == exitReceipts' = exitReceipts \cup {<<t, id>>}

InsertAccountMetrics(openRisk, losses) ==
    /\ savedRisk' = openRisk
    /\ savedLosses' = losses
=============================================================================
