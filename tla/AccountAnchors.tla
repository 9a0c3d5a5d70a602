---------------------------- MODULE AccountAnchors ----------------------------
(***************************************************************************)
(* The equity stops: peak equity, the daily and weekly anchors and the     *)
(* losses measured from them, kept in AccountStatus, checkpointed to       *)
(* account_metrics and seeded from there after a restart                   *)
(* (core/state_sync.py, core/risk/reset_scheduler.py, main.py), and the    *)
(* gate that reads them (core/risk/hard_risk_engine.py).                   *)
(*                                                                         *)
(* Losses are in thousandths of the equity they are measured from, rounded *)
(* down, which no comparison with an integer limit can tell.               *)
(***************************************************************************)
EXTENDS Integers

CONSTANTS
    Equities,       \* the values equity takes
    DaysPerWeek,    \* length of a week; its first day is the scheduler's Monday
    PeriodLimit,    \* DAILY_STOP_LOSS_PCT and WEEKLY_STOP_LOSS_PCT
    DrawdownLimit,  \* HARD_DRAWDOWN_PCT
    MaxDay,         \* bound: last day
    MaxCrashes,     \* bound: crashes of the engine
    MaxExits        \* bound: exits whose result is recorded

Periods == {"daily", "weekly"}

ASSUME AnchorsAssumption ==
    /\ Equities \subseteq Nat \ {0}
    /\ DaysPerWeek \in Nat \ {0}
    /\ PeriodLimit \in [Periods -> Nat \ {0}]
    /\ DrawdownLimit \in Nat \ {0}
    /\ MaxDay \in Nat
    /\ MaxCrashes \in Nat
    /\ MaxExits \in Nat

VARIABLES
    equity,      \* the broker account
    day,         \* the UTC calendar
    pc,          \* where the loop is
    seen,        \* account_status.equity
    halted,      \* is_trading_halted
    peak,        \* peak_equity
    drawdown,    \* drawdown_percent
    anchorKey,   \* daily_anchor_date and weekly_anchor_key
    anchor,      \* daily_anchor_equity and weekly_anchor_equity
    loss,        \* daily_loss_percent and weekly_loss_percent
    lastReset,   \* ResetState of the scheduler
    saved,       \* the last row of account_metrics
    passes,      \* 1 once this process has finished a pass
    crashes, exits,
    earlyExit,   \* a restarted process recorded an exit before its first refresh
    truePeak,    \* the highest equity a finished pass has seen
    trueKey,     \* the period trueAnchor belongs to
    trueAnchor   \* the equity the first finished pass of that period saw

memory == <<seen, halted, peak, drawdown, anchorKey, anchor, loss, lastReset>>
truth  == <<truePeak, trueKey, trueAnchor>>
counters == <<crashes, exits, earlyExit>>
vars   == <<equity, day, pc, memory, saved, passes, counters, truth>>

NoKey == -1
NoKeys == [p \in Periods |-> NoKey]
Zero   == [p \in Periods |-> 0]

Key(p) == IF p = "daily" THEN day ELSE day \div DaysPerWeek

FirstOfWeek == day % DaysPerWeek = 0

\* Mutant: a gain counts as a negative loss.
LossFrom_Signed(base, e) == IF base = 0 THEN 0 ELSE ((base - e) * 1000) \div base

LossFrom(base, e) == IF base <= e THEN 0 ELSE ((base - e) * 1000) \div base

Init ==
    /\ equity \in Equities
    /\ day = 0
    /\ pc = "consume"
    /\ seen = 0 /\ halted = FALSE /\ peak = 0 /\ drawdown = 0
    /\ anchorKey = NoKeys /\ anchor = Zero /\ loss = Zero /\ lastReset = NoKeys
    /\ saved = [peak |-> 0, anchorKey |-> NoKeys, anchor |-> Zero]
    /\ passes = 0
    /\ crashes = 0 /\ exits = 0 /\ earlyExit = FALSE
    /\ truePeak = 0 /\ trueKey = NoKeys /\ trueAnchor = Zero

-----------------------------------------------------------------------------
(* The account and the calendar move on their own. *)

MoveEquity ==
    /\ equity' \in Equities
    /\ UNCHANGED <<day, pc, memory, saved, passes, counters, truth>>

NextDay ==
    /\ day < MaxDay
    /\ day' = day + 1
    /\ UNCHANGED <<equity, pc, memory, saved, passes, counters, truth>>

-----------------------------------------------------------------------------
(* The loop *)

MetricsRow == [peak |-> peak, anchorKey |-> anchorKey, anchor |-> anchor]

\* _record_consecutive_loss_update: an exit consumed before the refresh writes
\* a metrics row from whatever account_status holds.
RecordExit ==
    /\ pc = "consume"
    /\ exits < MaxExits
    /\ exits' = exits + 1
    /\ earlyExit' = (earlyExit \/ (crashes > 0 /\ passes = 0))
    /\ saved' = MetricsRow
    /\ UNCHANGED <<equity, day, pc, memory, passes, crashes, truth>>

ConsumeDone ==
    /\ pc = "consume"
    /\ pc' = "refresh"
    /\ UNCHANGED <<equity, day, memory, saved, passes, counters, truth>>

\* _seed_restart_state
\* Mutant: the peak of the metrics row is not restored.
SeededPeak_Memory == peak

SeededPeak == IF saved.peak > peak THEN saved.peak ELSE peak
SeededKey(p) == IF anchorKey[p] = NoKey THEN saved.anchorKey[p] ELSE anchorKey[p]

\* Mutant: the anchor of the metrics row is not restored.
SeededAnchor_Memory(p) == anchor[p]

SeededAnchor(p) == IF anchor[p] = 0 THEN saved.anchor[p] ELSE anchor[p]

KeepsAnchor(p) == SeededKey(p) = Key(p) /\ SeededAnchor(p) > 0

NewPeak == IF equity > SeededPeak THEN equity ELSE SeededPeak

NewAnchor(p) == IF KeepsAnchor(p) THEN SeededAnchor(p) ELSE equity

\* should_reset_daily and should_reset_weekly, called after every refresh.
ResetDue(p) ==
    /\ lastReset[p] # Key(p)
    /\ p = "weekly" => FirstOfWeek

ResetLosses(measured) ==
    /\ loss' = [p \in Periods |-> IF ResetDue(p) THEN 0 ELSE measured[p]]
    /\ lastReset' = [p \in Periods |-> IF ResetDue(p) THEN Key(p) ELSE lastReset[p]]

Refresh ==
    /\ pc = "refresh"
    /\ seen' = equity
    /\ halted' = FALSE
    /\ peak' = NewPeak
    /\ drawdown' = LossFrom(NewPeak, equity)
    /\ anchorKey' = [p \in Periods |-> Key(p)]
    /\ anchor' = [p \in Periods |-> NewAnchor(p)]
    /\ ResetLosses([p \in Periods |-> LossFrom(NewAnchor(p), equity)])
    /\ pc' = "decide"
    /\ UNCHANGED <<equity, day, saved, passes, counters, truth>>

\* No snapshot: the seed is applied, nothing is measured, trading is halted.
RefreshFails ==
    /\ pc = "refresh"
    /\ halted' = TRUE
    /\ peak' = SeededPeak
    /\ anchorKey' = [p \in Periods |-> SeededKey(p)]
    /\ anchor' = [p \in Periods |-> SeededAnchor(p)]
    /\ ResetLosses(loss)
    /\ pc' = "decide"
    /\ UNCHANGED <<equity, day, seen, drawdown, saved, passes, counters, truth>>

\* HardRiskEngine.validate, the stops on equity.
GateOpen ==
    /\ ~halted
    /\ \A p \in Periods : loss[p] < PeriodLimit[p]
    /\ drawdown < DrawdownLimit

Approve ==
    /\ pc = "decide"
    /\ GateOpen
    /\ pc' = "routed"
    /\ UNCHANGED <<equity, day, memory, saved, passes, counters, truth>>

TrueAnchor(p) == IF trueKey[p] = anchorKey[p] THEN trueAnchor[p] ELSE seen

Observe ==
    /\ truePeak' = IF seen > truePeak THEN seen ELSE truePeak
    /\ trueKey' = anchorKey
    /\ trueAnchor' = [p \in Periods |-> TrueAnchor(p)]

PersistMetrics ==
    /\ pc \in {"decide", "routed"}
    /\ saved' = MetricsRow
    /\ IF halted THEN UNCHANGED truth ELSE Observe
    /\ passes' = 1
    /\ pc' = "consume"
    /\ UNCHANGED <<equity, day, memory, counters>>

\* The process dies anywhere and starts again with a fresh AccountStatus and a
\* fresh ResetScheduler.
CrashAndRestart ==
    /\ crashes < MaxCrashes
    /\ crashes' = crashes + 1
    /\ pc' = "consume"
    /\ passes' = 0
    /\ seen' = 0 /\ halted' = FALSE /\ peak' = 0 /\ drawdown' = 0
    /\ anchorKey' = NoKeys /\ anchor' = Zero /\ loss' = Zero /\ lastReset' = NoKeys
    /\ UNCHANGED <<equity, day, saved, exits, earlyExit, truth>>

Next ==
    \/ MoveEquity
    \/ NextDay
    \/ RecordExit
    \/ ConsumeDone
    \/ Refresh
    \/ RefreshFails
    \/ Approve
    \/ PersistMetrics
    \/ CrashAndRestart

Spec == Init /\ [][Next]_vars

-----------------------------------------------------------------------------
(* Properties *)

\* The types of the account state.
TypeOK ==
    /\ equity \in Equities
    /\ day \in 0..MaxDay
    /\ pc \in {"consume", "refresh", "decide", "routed"} /\ earlyExit \in BOOLEAN
    /\ seen \in Equities \cup {0} /\ peak \in Equities \cup {0} /\ drawdown \in 0..1000
    /\ halted \in BOOLEAN
    /\ anchorKey \in [Periods -> -1..MaxDay] /\ lastReset \in [Periods -> -1..MaxDay]
    /\ anchor \in [Periods -> Equities \cup {0}] /\ loss \in [Periods -> 0..1000]

DrawdownBelowLimit == LossFrom(truePeak, seen) < DrawdownLimit

\* A signal is routed only while the equity the engine saw is less than the
\* hard drawdown below the highest equity a finished pass of this process or an
\* earlier one saw, over any restarts of the engine, unless a restarted process
\* has recorded an exit before its first refresh.
DrawdownStopHolds == pc = "routed" /\ ~earlyExit => DrawdownBelowLimit

\* The same without the exception: "Must halt trading on
\* drawdown/loss-streak triggers" (SRS_v1.md:120).
DrawdownStopAlwaysHolds == pc = "routed" => DrawdownBelowLimit

PeriodStopHolds(p) == LossFrom(TrueAnchor(p), seen) < PeriodLimit[p]

\* A signal is routed only while the loss since the first finished pass of the
\* day and of the week is below the stop, also when that pass was an earlier
\* process's; the first pass after a restart, whose losses the fresh reset
\* scheduler clears, is excepted, and so is an early exit.
PeriodStopsHold ==
    pc = "routed" /\ ~earlyExit /\ (crashes = 0 \/ passes = 1) =>
        \A p \in Periods : PeriodStopHolds(p)
=============================================================================
