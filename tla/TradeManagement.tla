---------------------------- MODULE TradeManagement ----------------------------
(***************************************************************************)
(* What the expert advisor does with a position from the order to the exit *)
(* artifact (mt5_ea/FX_Execution.mq5), call by call: the broker may close  *)
(* a position between any two calls, and the terminal may be killed there. *)
(* ExecutionEA takes the same handlers as one action each.                 *)
(*                                                                         *)
(* Prices are distances from the entry of the position, in points and in   *)
(* the direction of its trade; volumes are counted in lot steps; R         *)
(* multiples in hundredths.  The engine sends market orders only.          *)
(***************************************************************************)
EXTENDS Integers, Sequences, FiniteSets

CONSTANTS
    Trades,         \* the signals of the engine
    ModeOf,         \* be_trigger_r, partial_close_r and trailing of a signal
    MaxTickets,     \* bound: positions the broker opens
    MaxPos,         \* MAX_POS, the slots of the EA
    RingSize,       \* length of g_processed_ids
    MaxPositions,   \* max_positions of the envelope
    StopDistances,  \* distance of the stop at the fill
    Volumes,        \* volume of the fill
    MinLot,
    Profits,        \* what a tick may show
    TrailDistances, \* ATR * trailing multiplier
    BreakEvenBuffer,
    MinDistance,    \* SYMBOL_TRADE_STOPS_LEVEL
    MaxFaults,      \* bound: failed deletions and late histories
    MaxSlips,       \* bound: kills inside a handler and failed writes
    MaxRestarts     \* bound: restarts between two handlers

ASSUME ManagementAssumption ==
    /\ ModeOf \in [Trades -> [be : Nat, partial : Nat, trailing : BOOLEAN]]
    /\ {MaxTickets, MaxPos, RingSize, MaxPositions, MinLot, MaxFaults, MaxSlips, MaxRestarts}
          \subseteq Nat
    /\ StopDistances \cup Volumes \subseteq Nat \ {0}
    /\ Profits \subseteq Int
    /\ TrailDistances \subseteq Nat \ {0}
    /\ BreakEvenBuffer \in Nat /\ MinDistance \in Nat
    /\ RingSize > 0 /\ MinLot > 0

VARIABLES
    \* broker and bridge directory
    positions,   \* [trade, state, stop, volume, distance, filled] of each ticket
    events,      \* closed tickets whose exit deal OnTradeTransaction has not seen;
                 \* the deal of a partial close it ignores
    pending,     \* pending_signals
    files,       \* management_state_<ticket>.json
    exitFiles,   \* exit_<ticket>.json
    \* memory of the EA
    slots,       \* management slot of each ticket
    processed,   \* g_processed_ids, the latest last
    pc,
    at,          \* the ticket the handler is at
    todo,        \* tickets the running loop has yet to visit
    seen,        \* what the loop read of the position: profit, stop, volume
    \* history
    fills,       \* orders sent for each trade
    halvings,    \* partial closes of each ticket
    reported,    \* tickets whose exit was written
    faults, slips, restarts

brokerVars == <<positions, events>>
loopVars == <<pc, at, todo, seen>>
countVars == <<faults, slips, restarts>>
vars == <<brokerVars, pending, files, exitFiles, slots, processed, loopVars, fills, halvings,
          reported, countVars>>

Tickets == 1..MaxTickets

NoPosition == [state |-> "none", trade |-> "none", stop |-> 0, volume |-> 0,
               distance |-> 0, filled |-> 0]
NoState == [distance |-> 0, halved |-> FALSE]
Unread == [profit |-> 0, stop |-> 0, volume |-> 0]

Init ==
    /\ positions = [k \in Tickets |-> NoPosition]
    /\ pending = Trades
    /\ files = [k \in Tickets |-> NoState] /\ slots = files
    /\ events = {} /\ exitFiles = {} /\ reported = {}
    /\ processed = <<>>
    /\ pc = "idle" /\ at = 0 /\ todo = {} /\ seen = Unread
    /\ fills = [t \in Trades |-> 0]
    /\ halvings = [k \in Tickets |-> 0]
    /\ faults = 0 /\ slips = 0 /\ restarts = 0

OpenIn(ps) == {k \in Tickets : ps[k].state = "open"}
OpenTickets == OpenIn(positions)
Managed(k) == slots[k] # NoState
ManagedTickets == {k \in Tickets : Managed(k)}
Saved(k) == files[k] # NoState

Goto(label) == pc' = label
NothingInHand == at' = 0 /\ seen' = Unread
Fault == faults < MaxFaults /\ faults' = faults + 1 /\ UNCHANGED <<slips, restarts>>
Slip == slips < MaxSlips /\ slips' = slips + 1 /\ UNCHANGED <<faults, restarts>>

-----------------------------------------------------------------------------
(* ProcessPendingSignal, the first thing a timer event does.                *)
(* Mutant: a processed signal is not recognised.                            *)
IsProcessed_Never(t) == FALSE

IsProcessed(t) == \E i \in DOMAIN processed : processed[i] = t

DeleteSignal(t) ==
    \/ pending' = pending \ {t} /\ UNCHANGED countVars
    \/ Fault /\ UNCHANGED pending

(* Processed before, expired, or refused: the file goes, no order is sent.  *)
DiscardSignal(t) ==
    /\ pc = "idle" /\ t \in pending
    /\ DeleteSignal(t)
    /\ Goto("manage") /\ todo' = OpenTickets
    /\ UNCHANGED <<brokerVars, files, exitFiles, slots, processed, at, seen, fills, halvings,
                   reported>>

NoSignal ==
    /\ pc = "idle"
    /\ Goto("manage") /\ todo' = OpenTickets
    /\ UNCHANGED <<brokerVars, pending, files, exitFiles, slots, processed, at, seen, fills,
                   halvings, reported, countVars>>

Unused == {k \in Tickets : positions[k] = NoPosition}
NextTicket == CHOOSE k \in Unused : TRUE

SendOrder(t) ==
    /\ pc = "idle" /\ t \in pending /\ ~IsProcessed(t)
    /\ Cardinality(OpenTickets) < MaxPositions
    /\ Unused # {}
    /\ \E d \in StopDistances, v \in Volumes :
          positions' = [positions EXCEPT ![NextTicket] =
              [state |-> "open", trade |-> t, stop |-> -d, volume |-> v,
               distance |-> d, filled |-> v]]
    /\ fills' = [fills EXCEPT ![t] = @ + 1]
    /\ at' = NextTicket
    /\ Goto("slot")
    /\ UNCHANGED <<events, pending, files, exitFiles, slots, processed, todo, seen, halvings,
                   reported, countVars>>

(* AllocSlot: no free slot, no management.                                  *)
AllocSlot ==
    /\ pc = "slot"
    /\ IF Cardinality(ManagedTickets) < MaxPos
       THEN /\ slots' = [slots EXCEPT ![at] =
                            [distance |-> positions[at].distance, halved |-> FALSE]]
            /\ Goto("save")
       ELSE Goto("mark") /\ UNCHANGED slots
    /\ UNCHANGED <<brokerVars, pending, files, exitFiles, processed, at, todo, seen, fills,
                   halvings, reported, countVars>>

(* WriteManagementStateForSlot, whose result nobody looks at.               *)
WriteState(k, state) ==
    \/ files' = [files EXCEPT ![k] = state] /\ UNCHANGED countVars
    \/ Slip /\ UNCHANGED files

(* Mutant: the state of a new position is not saved.                        *)
SaveSlot_Later ==
    /\ pc = "save"
    /\ Goto("mark")
    /\ UNCHANGED <<brokerVars, pending, files, exitFiles, slots, processed, at, todo, seen,
                   fills, halvings, reported, countVars>>

SaveSlot ==
    /\ pc = "save"
    /\ WriteState(at, slots[at])
    /\ Goto("mark")
    /\ UNCHANGED <<brokerVars, pending, exitFiles, slots, processed, at, todo, seen, fills,
                   halvings, reported>>

LastOf(s, n) == IF Len(s) <= n THEN s ELSE SubSeq(s, Len(s) - n + 1, Len(s))

(* MarkProcessed, then the execution feedback.                              *)
MarkProcessed ==
    /\ pc = "mark"
    /\ processed' = LastOf(Append(processed, positions[at].trade), RingSize)
    /\ Goto("delete")
    /\ UNCHANGED <<brokerVars, pending, files, exitFiles, slots, at, todo, seen, fills,
                   halvings, reported, countVars>>

DeleteFilled ==
    /\ pc = "delete"
    /\ DeleteSignal(positions[at].trade)
    /\ Goto("manage") /\ todo' = OpenTickets /\ NothingInHand
    /\ UNCHANGED <<brokerVars, files, exitFiles, slots, processed, fills, halvings, reported>>

-----------------------------------------------------------------------------
(* ManageOpenPositions, position by position.  A position without a slot is *)
(* managed by the inputs of the EA, and its R is measured by its stop.      *)
Defaults == [be |-> 100, partial |-> 150, trailing |-> FALSE]

Mode == IF Managed(at) THEN ModeOf[positions[at].trade] ELSE Defaults
Distance == IF Managed(at) THEN slots[at].distance
            ELSE IF seen.stop < 0 THEN -seen.stop ELSE seen.stop
Reaches(r) == seen.profit * 100 >= r * Distance

ManageDone ==
    /\ pc = "manage" /\ todo \cap OpenTickets = {}
    /\ todo' = {k \in Tickets \ OpenTickets : Managed(k) \/ Saved(k)}
    /\ Goto("sweep")
    /\ UNCHANGED <<brokerVars, pending, files, exitFiles, slots, processed, at, seen, fills,
                   halvings, reported, countVars>>

(* What is read here is used for the rest of the visit.                     *)
LookAt(k) ==
    /\ pc = "manage" /\ k \in todo \cap OpenTickets
    /\ todo' = todo \ {k}
    /\ IF ~Managed(k) /\ positions[k].stop = 0
       THEN UNCHANGED <<pc, at, seen>>
       ELSE /\ at' = k
            /\ \E p \in Profits :
                  /\ p > positions[k].stop
                  /\ seen' = [profit |-> p, stop |-> positions[k].stop,
                              volume |-> positions[k].volume]
            /\ Goto("break_even")
    /\ UNCHANGED <<brokerVars, pending, files, exitFiles, slots, processed, fills, halvings,
                   reported, countVars>>

(* PositionModify: the broker refuses it when the position is gone, and may *)
(* refuse it because the price has moved.                                   *)
Modify(stop) ==
    /\ at \in OpenTickets
    /\ positions' = [positions EXCEPT ![at].stop = stop]

MoveStop(due, stop) ==
    \/ /\ due /\ stop > seen.stop /\ seen.profit - stop >= MinDistance
       /\ Modify(stop)
    \/ UNCHANGED positions

BreakEven ==
    /\ pc = "break_even"
    /\ MoveStop(Mode.be > 0 /\ Reaches(Mode.be), BreakEvenBuffer)
    /\ Goto("partial")
    /\ UNCHANGED <<events, pending, files, exitFiles, slots, processed, at, todo, seen, fills,
                   halvings, reported, countVars>>

Half == seen.volume \div 2
PartialDue ==
    /\ Mode.partial > 0 /\ Reaches(Mode.partial)
    /\ ~slots[at].halved
    /\ Half >= MinLot /\ seen.volume > MinLot

ClosePartial ==
    /\ pc = "partial"
    /\ PartialDue /\ at \in OpenTickets
    /\ positions' = [positions EXCEPT ![at].volume = @ - Half]
    /\ halvings' = [halvings EXCEPT ![at] = @ + 1]
    /\ Goto(IF Managed(at) THEN "record" ELSE "trail")
    /\ UNCHANGED <<events, pending, files, exitFiles, slots, processed, at, todo, seen, fills,
                   reported, countVars>>

(* Not due, or refused by the broker.                                       *)
KeepVolume ==
    /\ pc = "partial"
    /\ Goto("trail")
    /\ UNCHANGED <<brokerVars, pending, files, exitFiles, slots, processed, at, todo, seen,
                   fills, halvings, reported, countVars>>

(* Mutant: the slot knows of the partial close, its file does not.          *)
RecordPartial_MemoryOnly ==
    /\ pc = "record"
    /\ slots' = [slots EXCEPT ![at].halved = TRUE]
    /\ Goto("trail")
    /\ UNCHANGED <<brokerVars, pending, files, exitFiles, processed, at, todo, seen, fills,
                   halvings, reported, countVars>>

RecordPartial ==
    /\ pc = "record"
    /\ slots' = [slots EXCEPT ![at].halved = TRUE]
    /\ WriteState(at, slots'[at])
    /\ Goto("trail")
    /\ UNCHANGED <<brokerVars, pending, exitFiles, processed, at, todo, seen, fills, halvings,
                   reported>>

(* Mutant: the trailing stop is set whatever the stop is.                   *)
Trail_AnyStop ==
    /\ pc = "trail"
    /\ \/ /\ Mode.trailing /\ Reaches(Mode.be)
          /\ \E d \in TrailDistances : d >= MinDistance /\ Modify(seen.profit - d)
       \/ UNCHANGED positions
    /\ Goto("manage") /\ NothingInHand
    /\ UNCHANGED <<events, pending, files, exitFiles, slots, processed, todo, fills,
                   halvings, reported, countVars>>

(* The stop is compared with what was read before the break-even move.      *)
Trail ==
    /\ pc = "trail"
    /\ \E d \in TrailDistances : MoveStop(Mode.trailing /\ Reaches(Mode.be), seen.profit - d)
    /\ Goto("manage") /\ NothingInHand
    /\ UNCHANGED <<events, pending, files, exitFiles, slots, processed, todo, fills,
                   halvings, reported, countVars>>

-----------------------------------------------------------------------------
(* FinalizeClosedPosition: with the history of the broker at hand, the exit *)
(* is written unless it is there, the state file deleted and the slot freed,*)
(* whether the exit could be written or not.                                *)
Finalize(k) ==
    \/ /\ exitFiles' = exitFiles \cup {k} /\ reported' = reported \cup {k}
       /\ slots' = [slots EXCEPT ![k] = NoState]
       /\ \/ files' = [files EXCEPT ![k] = NoState] /\ UNCHANGED countVars
          \/ Fault /\ UNCHANGED files
    \/ /\ Slip /\ UNCHANGED <<exitFiles, reported>>
       /\ slots' = [slots EXCEPT ![k] = NoState]
       /\ files' = [files EXCEPT ![k] = NoState]
    \/ Fault /\ UNCHANGED <<exitFiles, reported, slots, files>>

OnTradeTransaction(k) ==
    /\ pc = "idle" /\ k \in events
    /\ events' = events \ {k}
    /\ Finalize(k)
    /\ UNCHANGED <<positions, pending, processed, loopVars, fills, halvings>>

(* Mutant: nothing is swept, the event alone reports an exit.               *)
Sweep_Nothing(k) ==
    /\ pc = "sweep" /\ k \in todo
    /\ todo' = todo \ {k}
    /\ UNCHANGED <<brokerVars, pending, files, exitFiles, slots, processed, pc, at, seen, fills,
                   halvings, reported, countVars>>

Sweep(k) ==
    /\ pc = "sweep" /\ k \in todo
    /\ todo' = todo \ {k}
    /\ Finalize(k)
    /\ UNCHANGED <<brokerVars, pending, processed, pc, at, seen, fills, halvings>>

SweepDone ==
    /\ pc = "sweep" /\ todo = {}
    /\ Goto("idle")
    /\ UNCHANGED <<brokerVars, pending, files, exitFiles, slots, processed, at, todo, seen, fills,
                   halvings, reported, countVars>>

-----------------------------------------------------------------------------
(* OnInit: the processed ids and events are gone.  RestoreManagementState   *)
(* gives slots to open positions that have a file and deletes the files of  *)
(* all others.                                                              *)
OnInit ==
    /\ processed' = <<>> /\ events' = {}
    /\ Goto("idle") /\ todo' = {} /\ NothingInHand
    /\ files' = [k \in Tickets |-> IF k \in OpenTickets THEN files[k] ELSE NoState]
    /\ LET restorable == {k \in OpenTickets : Saved(k)} IN
       \E S \in SUBSET restorable :
          /\ Cardinality(S) <= MaxPos
          /\ S = restorable \/ Cardinality(S) = MaxPos
          /\ slots' = [k \in Tickets |-> IF k \in S THEN files[k] ELSE NoState]
    /\ UNCHANGED <<positions, pending, exitFiles, fills, halvings, reported>>

(* Reloaded between two handlers, or ended in the middle of one.            *)
Restart ==
    /\ pc = "idle" /\ restarts < MaxRestarts
    /\ restarts' = restarts + 1 /\ UNCHANGED <<faults, slips>>
    /\ OnInit

Killed == pc # "idle" /\ Slip /\ OnInit

(* Stop, target or hand: the broker closes a position at any moment.        *)
ClosePosition(k) ==
    /\ k \in OpenTickets
    /\ positions' = [positions EXCEPT ![k] =
          [state |-> "closed", trade |-> @.trade, stop |-> 0, volume |-> 0,
           distance |-> @.distance, filled |-> @.filled]]
    /\ events' = events \cup {k}
    /\ UNCHANGED <<pending, files, exitFiles, slots, processed, loopVars, fills, halvings,
                   reported, countVars>>

(* The engine consumes an exit artifact.                                    *)
EngineReads(k) ==
    /\ k \in exitFiles
    /\ exitFiles' = exitFiles \ {k}
    /\ UNCHANGED <<brokerVars, pending, files, slots, processed, loopVars, fills, halvings,
                   reported, countVars>>

OnTimer ==
    \/ NoSignal
    \/ \E t \in Trades : DiscardSignal(t) \/ SendOrder(t)
    \/ AllocSlot \/ SaveSlot \/ MarkProcessed \/ DeleteFilled
    \/ \E k \in Tickets : LookAt(k)
    \/ BreakEven \/ ClosePartial \/ KeepVolume \/ RecordPartial \/ Trail \/ ManageDone
    \/ \E k \in Tickets : Sweep(k)
    \/ SweepDone

Next ==
    \/ OnTimer
    \/ \E k \in Tickets : OnTradeTransaction(k) \/ ClosePosition(k) \/ EngineReads(k)
    \/ Restart \/ Killed

Spec == Init /\ [][Next]_vars

(* The terminal keeps calling OnTimer.                                      *)
FairSpec == Spec /\ WF_vars(OnTimer)

-----------------------------------------------------------------------------
(* Every variable has its type; the ring is never longer than its array.    *)
TypeOK ==
    /\ \A k \in Tickets :
          /\ positions[k].state \in {"none", "open", "closed"}
          /\ positions[k] # NoPosition => positions[k].trade \in Trades
          /\ positions[k].volume \in Nat /\ positions[k].stop \in Int
          /\ slots[k].distance \in StopDistances \cup {0}
          /\ files[k].distance \in StopDistances \cup {0}
    /\ events \cup exitFiles \cup reported \cup todo \subseteq Tickets
    /\ pending \subseteq Trades
    /\ Len(processed) <= RingSize
    /\ at \in Tickets \cup {0} /\ (pc \notin {"idle", "manage", "sweep"} => at # 0)
    /\ Cardinality(ManagedTickets) <= MaxPos

(* Management never raises the risk the engine reserved: the stop of an     *)
(* open position is no further than at the fill and its volume no larger,   *)
(* although each move is judged by a stop, a price and a volume read before *)
(* other moves (FX_Execution.mq5:201-346).                                  *)
RiskNeverGrows ==
    \A k \in OpenTickets :
        /\ positions[k].stop >= -positions[k].distance
        /\ 0 < positions[k].volume /\ positions[k].volume <= positions[k].filled

(* A signal is filled again only after a terminal restart, however often    *)
(* its file could not be deleted: the ring still knows it                   *)
(* (FX_Execution.mq5:27-37, 1262-1265).                                     *)
FillsWithinRestarts == \A t \in Trades : fills[t] <= 1 + restarts + slips

(* Between two handlers an open position is without management only if a    *)
(* kill in the middle of a handler or a failed write took it.               *)
UnmanagedWithinSlips ==
    pc = "idle" => Cardinality({k \in OpenTickets : ~Managed(k)}) <= slips

(* A managed position is halved once; a further time costs a kill between   *)
(* the partial close and its record, or a failed write.  A plain restart    *)
(* costs nothing: "no second partial close occurs"                          *)
(* (docs/plans/2026-03-11-live-trade-management-option-c-plan.md:107).      *)
HalvedWithinSlips ==
    \A k \in ManagedTickets : halvings[k] <= 1 + slips

(* The exit of a managed position is reported, even if the history of the   *)
(* broker was not there when the exit deal came, unless the EA is restarted *)
(* first or the exit cannot be written (FX_Execution.mq5:806-860).          *)
ExitIsReported ==
    \A k \in Tickets :
        (positions[k].state = "closed" /\ Managed(k))
            ~> (k \in reported \/ (~Managed(k) /\ restarts + slips > 0))

(* "Only move SL in the favorable direction" (FX_Execution.mq5:322).        *)
StopNeverLoosened ==
    [][\A k \in OpenTickets :
          positions'[k].state = "open" => positions'[k].stop >= positions[k].stop]_vars
=============================================================================
