------------------------------ MODULE ExecutionEA ------------------------------
(***************************************************************************)
(* The expert advisor (mt5_ea/FX_Execution.mq5) and the broker account it  *)
(* trades on.  MetaTrader runs the EA's handlers one at a time, so each    *)
(* handler is one action; the engine runs beside it.  A handler the        *)
(* terminal is killed in stops between two of its calls (KilledIn...).     *)
(*                                                                         *)
(* A fault is one event out of the set Faults, of which a behaviour has at *)
(* most MaxFaults.                                                         *)
(***************************************************************************)
EXTENDS SignalBridge

CONSTANTS
    Outcomes,   \* the results a closed position may have
    BrokerComments,  \* the broker writes a comment of its own ("[sl 1.08]") on exit deals
    Faults,     \* the kinds of fault a behaviour may have
    MaxFaults,  \* bound: faults per behaviour
    MaxCloses,  \* bound: trades whose position closes
    MaxHalvings \* bound: trades whose position is closed in part

FaultKinds == {"ea_restart", "ea_kill", "file_delete", "symbol_select", "torn_artifact",
               "locked_artifact", "router_before_publish", "router_after_publish", "history",
               "positions", "snapshot"}

ASSUME FaultAssumption ==
    /\ Outcomes \subseteq {"win", "loss", "flat"}
    /\ Outcomes # {}
    /\ BrokerComments \in BOOLEAN
    /\ Faults \subseteq FaultKinds
    /\ MaxFaults \in Nat
    /\ MaxCloses \in Nat
    /\ MaxHalvings \in Nat

VARIABLES
    position,     \* the broker position opened for each trade
    outcome,      \* the result of the trade's position as far as it is closed
    closedAt,     \* the time of the last exit deal of the trade's position
    fills,        \* how many orders the EA has sent for each trade
    halved,       \* trades whose position has been closed in part
    managed,      \* trades with a management slot and state file
    processed,    \* g_processed_ids
    closeEvents,  \* exit deals OnTradeTransaction has not handled yet
    restarts,     \* history: restarts of the EA
    reread,       \* history: trades whose signal the EA handled again after filling it
    faults        \* faults so far

brokerVars == <<position, outcome, closedAt, fills, halved>>
historyVars == <<restarts, reread>>
eaVars == <<brokerVars, managed, processed, closeEvents, historyVars>>

MaxFills == 3   \* bound: fills are counted up to this

EAInit ==
    /\ position = [t \in Trades |-> "none"]
    /\ outcome = [t \in Trades |-> "flat"]
    /\ closedAt = [t \in Trades |-> 0]
    /\ fills = [t \in Trades |-> 0]
    /\ halved = {}
    /\ managed = {}
    /\ processed = {}
    /\ closeEvents = {}
    /\ restarts = 0
    /\ reread = {}
    /\ faults = 0

Fault(kind) == kind \in Faults /\ faults < MaxFaults /\ faults' = faults + 1

OpenPositions == {t \in Trades : position[t] = "open"}

\* FileDelete of the signal; the EA ignores a failure.
DeleteSignal(t) ==
    \/ pending' = pending \ {t} /\ UNCHANGED faults
    \/ Fault("file_delete") /\ UNCHANGED pending

WriteExecutionFeedback(t, status, ticket) ==
    execFile' = [execFile EXCEPT ![t] = [status |-> status, ticket |-> ticket, at |-> now]]

-----------------------------------------------------------------------------
(* ProcessPendingSignal: one pending signal per timer event. *)

\* Mutant: a processed signal is not recognised.
IsProcessed_Never(t) == FALSE

IsProcessed(t) == t \in processed

Expired(t) == now > expiresAt[t]

SkipProcessedSignal(t) ==
    /\ t \in pending
    /\ IsProcessed(t)
    /\ DeleteSignal(t)
    /\ UNCHANGED <<locks, execFile, exitFile, snapshot, eaVars>>

\* An expired envelope, or a symbol the terminal cannot select, is deleted
\* without any feedback.
DropSignal(t) ==
    /\ t \in pending
    /\ ~IsProcessed(t)
    /\ \/ Expired(t) /\ DeleteSignal(t)
       \/ ~Expired(t) /\ Fault("symbol_select") /\ pending' = pending \ {t}
    /\ UNCHANGED <<locks, execFile, exitFile, snapshot, eaVars>>

NoteReread(t) == reread' = IF fills[t] > 0 THEN reread \cup {t} ELSE reread

\* Policy hash, spread, position limit, lot size or order_send: the trade is not
\* marked processed.  The policy hash comes before the expiry, so that an
\* expired signal may be refused as well.
RejectSignal(t) ==
    /\ t \in pending
    /\ ~IsProcessed(t)
    /\ WriteExecutionFeedback(t, "REJECTED", 0)
    /\ DeleteSignal(t)
    /\ NoteReread(t)
    /\ UNCHANGED <<locks, exitFile, snapshot, brokerVars, managed, processed, closeEvents,
                   restarts>>

BelowPositionLimit == Cardinality(OpenPositions) < MaxPositions

\* The order of a signal is sent.  Bound: the positions of a trade that is filled
\* again are followed as one, and a trade whose position has closed is not
\* filled again.
SendOrder(t) ==
    /\ t \in pending
    /\ ~IsProcessed(t)
    /\ ~Expired(t)
    /\ BelowPositionLimit
    /\ fills[t] < MaxFills
    /\ position[t] # "closed"
    /\ position' = [position EXCEPT ![t] = "open"]
    /\ fills' = [fills EXCEPT ![t] = @ + 1]
    /\ NoteReread(t)
    /\ UNCHANGED <<outcome, closedAt, halved>>

ExecuteSignal(t) ==
    /\ SendOrder(t)
    /\ managed' = managed \cup {t}
    /\ processed' = processed \cup {t}
    /\ WriteExecutionFeedback(t, "EXECUTED", fills[t] + 1)
    /\ DeleteSignal(t)
    /\ UNCHANGED <<locks, exitFile, snapshot, closeEvents, restarts>>

ProcessPendingSignal ==
    \E t \in Trades :
        SkipProcessedSignal(t) \/ DropSignal(t) \/ RejectSignal(t) \/ ExecuteSignal(t)

-----------------------------------------------------------------------------
(* Positions *)

\* ManageOpenPositions closes half of a position that is far enough in profit.  The
\* deal is an exit deal, but OnTradeTransaction ignores it: the position is open.
PartialClose(t) ==
    /\ position[t] = "open"
    /\ t \notin halved
    /\ Cardinality(halved) < MaxHalvings
    /\ halved' = halved \cup {t}
    /\ outcome' = [outcome EXCEPT ![t] = "win"]
    /\ closedAt' = [closedAt EXCEPT ![t] = now]
    /\ UNCHANGED <<bridgeVars, position, fills, managed, processed, closeEvents, historyVars,
                   faults>>

\* Stop, target or a manual close: the broker's move.  Bound: a trade that was
\* filled again keeps its positions.
ClosePosition(t) ==
    /\ position[t] = "open"
    /\ fills[t] = 1
    /\ Cardinality({u \in Trades : position[u] = "closed"}) < MaxCloses
    /\ position' = [position EXCEPT ![t] = "closed"]
    /\ \E o \in Outcomes : outcome' = [outcome EXCEPT ![t] = o]
    /\ closedAt' = [closedAt EXCEPT ![t] = now]
    /\ closeEvents' = closeEvents \cup {t}
    /\ UNCHANGED <<bridgeVars, fills, halved, managed, processed, historyVars, faults>>

\* The trade_id of an exit artifact: the management slot's, or the comment of the
\* exit deal once the slot is gone; a blank comment leads to the entry deal's,
\* which is the trade_id.
ExitId(t) == IF t \in managed \/ ~BrokerComments THEN "trade_id" ELSE "comment"

\* FinalizeClosedPosition: write the exit artifact if there is none, forget the
\* position.
FinalizeClosedPosition(t) ==
    /\ position[t] = "closed"
    /\ exitFile' = IF exitFile[t] = "none" THEN [exitFile EXCEPT ![t] = ExitId(t)] ELSE exitFile
    /\ managed' = managed \ {t}
    /\ UNCHANGED <<signalVars, execFile, snapshot, brokerVars, processed, historyVars, faults>>

\* The exit deal's own event: it finalizes whether or not the sweep already has.
OnTradeTransaction(t) ==
    /\ t \in closeEvents
    /\ closeEvents' = closeEvents \ {t}
    /\ FinalizeClosedPosition(t)

SweepClosedManagedPosition(t) ==
    /\ t \in managed
    /\ FinalizeClosedPosition(t)
    /\ UNCHANGED closeEvents

-----------------------------------------------------------------------------
(* Snapshot, restart and kill *)

SnapshotOf(open, slots) == [open |-> open, restored |-> open \subseteq slots, at |-> now]

WriteAccountSnapshot ==
    /\ snapshot' = SnapshotOf(OpenPositions, managed)
    /\ UNCHANGED <<signalVars, execFile, exitFile, eaVars, faults>>

\* OnInit: the processed ids are gone, and RestoreManagementState deletes the
\* state files of positions closed meanwhile.
OnInit(open, saved) ==
    /\ processed' = {}
    /\ closeEvents' = {}
    /\ managed' = saved \cap open
    /\ snapshot' = SnapshotOf(open, saved)
    /\ restarts' = restarts + 1

\* The terminal is restarted between two handlers.
EARestart ==
    /\ Fault("ea_restart")
    /\ OnInit(OpenPositions, managed)
    /\ UNCHANGED <<signalVars, execFile, exitFile, brokerVars, reread>>

\* The terminal is killed in ProcessPendingSignal and started again: after the
\* order, after the state file, or after the artifact, but before FileDelete.
KilledInExecution(t) ==
    /\ Fault("ea_kill")
    /\ SendOrder(t)
    /\ \/ OnInit(OpenPositions \cup {t}, managed) /\ UNCHANGED execFile
       \/ OnInit(OpenPositions \cup {t}, managed \cup {t}) /\ UNCHANGED execFile
       \/ /\ OnInit(OpenPositions \cup {t}, managed \cup {t})
          /\ WriteExecutionFeedback(t, "EXECUTED", fills[t] + 1)
    /\ UNCHANGED <<signalVars, exitFile>>

\* Likewise between the artifact of a refusal and FileDelete.
KilledInRejection(t) ==
    /\ Fault("ea_kill")
    /\ t \in pending
    /\ ~IsProcessed(t)
    /\ WriteExecutionFeedback(t, "REJECTED", 0)
    /\ NoteReread(t)
    /\ OnInit(OpenPositions, managed)
    /\ UNCHANGED <<signalVars, exitFile, brokerVars>>

EAStep ==
    \/ ProcessPendingSignal
    \/ \E t \in Trades : PartialClose(t) \/ OnTradeTransaction(t) \/ SweepClosedManagedPosition(t)
    \/ WriteAccountSnapshot

EANext ==
    \/ EAStep
    \/ \E t \in Trades : ClosePosition(t) \/ KilledInExecution(t) \/ KilledInRejection(t)
    \/ EARestart
=============================================================================
