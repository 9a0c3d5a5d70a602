--------------------------- MODULE EngineProperties ---------------------------
(***************************************************************************)
(* What the trading engine promises, stated over TradingEngine.            *)
(***************************************************************************)
EXTENDS TradingEngine

\* The types of the store, the bridge directory, the EA with the broker, the
\* loop of the engine, and the account state it keeps in memory.
StoreTypeOK ==
    /\ now \in Nat
    /\ row \in [Trades -> RowStates]
    /\ reservation \in [Trades -> ReservationStates]
    /\ risk \in [Trades -> Nat]
    /\ expiresAt \in [Trades -> Nat]
    /\ ticketed \subseteq Trades
    /\ execReceipts \subseteq Trades \X ExecArtifacts
    /\ exitReceipts \subseteq Trades \X ExitIds
    /\ savedLosses \in 0..LossHalt

BridgeTypeOK ==
    /\ pending \subseteq Trades
    /\ locks \subseteq Trades
    /\ execFile \in [Trades -> ExecArtifacts \cup {NoArtifact}]
    /\ exitFile \in [Trades -> ExitIds \cup {"none"}]
    /\ snapshot \in [open : SUBSET Trades, restored : BOOLEAN, at : Nat]

EATypeOK ==
    /\ position \in [Trades -> {"none", "open", "closed"}]
    /\ outcome \in [Trades -> {"win", "loss", "flat"}]
    /\ closedAt \in [Trades -> Nat]
    /\ fills \in [Trades -> 0..MaxFills]
    /\ halved \subseteq Trades
    /\ managed \subseteq Trades
    /\ processed \subseteq Trades
    /\ closeEvents \subseteq Trades
    /\ restarts \in Nat
    /\ reread \subseteq Trades
    /\ faults \in 0..MaxFaults

LoopTypeOK ==
    /\ pc \in PCs
    /\ cur \in Trades \cup {NoTrade}
    /\ batch \subseteq Trades
    /\ collected \in [Trades -> ExecArtifacts \cup {NoArtifact}]
    /\ iterStart \in Nat
    /\ crashes \in 0..MaxCrashes

AccountTypeOK ==
    /\ reconciled \in BOOLEAN
    /\ openCount \in Nat
    /\ losses \in 0..LossHalt
    /\ seeded \in BOOLEAN
    /\ lastClose \in Nat
    /\ summary \in [result : {"win", "loss", "flat"}, at : Nat]
    /\ exitCounts \in [Trades -> 0..MaxCounts]
    /\ recoveryCounts \in [Trades -> 0..MaxCounts]

\* Every variable has its type: what the engine stores, reads back and computes
\* (db.py, main.py) stays in the domains the schema and the gate expect.
TypeOK == StoreTypeOK /\ BridgeTypeOK /\ EATypeOK /\ LoopTypeOK /\ AccountTypeOK

-----------------------------------------------------------------------------
(* Exposure *)

\* What the broker holds together with what the EA may still fill never exceeds
\* the policy: "six simultaneous valid candidates reserve/route no more than two
\* positions" (try_create_trade_reservation, routing_service.py).
CommittedWithinLimit ==
    LET live == {t \in pending : ~IsProcessed(t) /\ ~Expired(t)} IN
    /\ Cardinality(OpenPositions \cup live) <= MaxPositions
    /\ RiskOf(OpenPositions \cup live) <= MaxExposure

\* An open position is never invisible to the next reservation: it is on the
\* ledger, or its reservation still counts ("active reservations cover the gap
\* between approval and broker acknowledgement", db.py).
PositionAccountedFor ==
    \A t \in OpenPositions : t \in Ledger \/ t \in Active

\* A signal reaches the broker only while its reservation holds capacity for
\* it: the EA's expiry and the store's expiry never cross.
FillsAreReserved ==
    [][\A t \in Trades : fills'[t] > fills[t] => t \in Active]_vars

-----------------------------------------------------------------------------
(* Lifecycle *)

\* An exit enters the loss streak at most once under each identity its artifacts
\* carry (the trade_id, the comment of the exit deal), however often the engine
\* stops half-way, the artifact is locked, or the EA writes it again.
ExitReceiptsOf(t) == {id \in ExitIds : <<t, id>> \in exitReceipts}

ExitCountedOnce == \A t \in Trades : exitCounts[t] <= Cardinality(ExitReceiptsOf(t))

\* A closed trade enters the loss streak at most once over both ways the engine
\* learns of it: the exit artifact and the recovery from history.
OutcomeCountedOnce == \A t \in Trades : exitCounts[t] + recoveryCounts[t] <= 1

\* Once a pass has consumed the feedback, every trade the ledger holds closed has
\* entered the loss streak, by its exit artifact or from history. After a crash
\* this does not hold: the row and the receipt of an exit are committed before
\* its count.
ClosedTradeCounted ==
    pc = "refresh" /\ crashes = 0 =>
        \A t \in Trades : row[t] = "CLOSED" => exitCounts[t] + recoveryCounts[t] >= 1

\* A signal is filled once, and at most once more for each restart of the EA: only
\* a restart makes the EA forget an order whose signal file it could not, or did
\* not come to, delete.
FillsWithinRestarts == \A t \in Trades : fills[t] <= 1 + restarts

AcknowledgedFill(t) == \E r \in execReceipts : r[1] = t /\ r[2].status = "EXECUTED"

\* A position whose execution was acknowledged and receipted stays on the ledger
\* until it is closed at the broker: no late artifact, restart migration or
\* housekeeping takes it off.  There are two exceptions.  The EA handled the
\* signal again, and may have refused it; or the engine, whose listing of the
\* open positions failed, took a partial close for the closure.
AcknowledgedPositionOnLedger ==
    \A t \in OpenPositions \ reread :
        AcknowledgedFill(t) => t \in Ledger \/ (t \in halved /\ row[t] = "CLOSED")

\* The persisted loss streak shrinks only when a win is recorded.
RecordsWin ==
    \/ ExitCount /\ outcome[cur] = "win"
    \/ RecoverCount /\ summary.result = "win"

StreakEndsWithWin == [][savedLosses' < savedLosses => RecordsWin]_vars

\* A trade on record whose position is closed at the broker is eventually
\* recorded as closed for good, by its exit artifact or from history, and
\* nothing that arrives later reopens it for ever.
ClosureReachesLedger ==
    \A t \in Trades :
        (row[t] # "none" /\ position[t] = "closed") ~> [](row[t] = "CLOSED")
=============================================================================
