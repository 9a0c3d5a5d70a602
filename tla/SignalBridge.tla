----------------------------- MODULE SignalBridge -----------------------------
(***************************************************************************)
(* The bridge directory shared by the engine and the EA: the pending       *)
(* signals and locks SignalRouter writes (bridge/signal_router.py) and the *)
(* execution, exit and snapshot artifacts ExecutionFeedbackReader collects *)
(* (bridge/execution_feedback.py).  A file is its content: the engine      *)
(* renames signals into place, so the EA never sees half of one; the EA    *)
(* writes its artifacts in place, so the engine may (TornArtifact).        *)
(***************************************************************************)
EXTENDS TradeStore

CONSTANTS
    CleanupAge,   \* max_age_seconds of cleanup_stale
    SnapshotAge   \* MAX_ACCOUNT_SNAPSHOT_AGE_SECONDS

ASSUME BridgeAssumption == CleanupAge \in Nat /\ SnapshotAge \in Nat

VARIABLES
    pending,   \* pending_signals/<trade>.json
    locks,     \* active_locks/<trade>.lock
    execFile,  \* feedback/execution_<trade>.json
    exitFile,  \* exits/exit_<ticket>.json, by the trade of the ticket: the
               \* trade_id it carries, or "none"
    snapshot   \* feedback/account_snapshot.json

signalVars == <<pending, locks>>
bridgeVars == <<signalVars, execFile, exitFile, snapshot>>

NoArtifact == [status |-> "none", ticket |-> 0, at |-> 0]

NoArtifacts == [t \in Trades |-> NoArtifact]

BridgeInit ==
    /\ pending = {}
    /\ locks = {}
    /\ execFile = NoArtifacts
    /\ exitFile = [t \in Trades |-> "none"]
    /\ snapshot = [open |-> {}, restored |-> TRUE, at |-> 0]

\* The signal and its lock are written right after the reservation, whose
\* expiry is TTL later: their age needs no clock of its own.
FileAge(t) == now - (expiresAt[t] - TTL)

CreateLock(t) == t \notin locks /\ locks' = locks \cup {t}

ReleaseLock(t) == locks' = locks \ {t}

PublishPending(t) == pending' = pending \cup {t}

-----------------------------------------------------------------------------
(* cleanup_stale: first the stale signals with their locks, then the locks *)
(* that are left without a signal.                                         *)

StalePending == {t \in pending : FileAge(t) > CleanupAge}

OrphanLocks == {t \in locks \ pending : FileAge(t) > CleanupAge}

CleanupStale ==
    /\ pending' = pending \ StalePending
    /\ locks' = locks \ (StalePending \cup OrphanLocks)

-----------------------------------------------------------------------------
(* artifacts of the EA *)

ExecFiles == {t \in Trades : execFile[t] # NoArtifact}

ExitFiles == {t \in Trades : exitFile[t] # "none"}

DeleteExecArtifact(t) == execFile' = [execFile EXCEPT ![t] = NoArtifact]

DeleteExitArtifact(t) == exitFile' = [exitFile EXCEPT ![t] = "none"]
=============================================================================
