------------------------ MODULE TradeManagement_proofs ------------------------
(* What holds of the management of positions for all signals, modes, stops, *)
(* volumes, prices and numbers of faults.                                   *)
EXTENDS TradeManagement, FiniteSetTheorems, TLAPS

LoopSteps == {"break_even", "partial", "record", "trail"}

PositionType ==
    [state : {"none", "open", "closed"}, trade : Trades \cup {"none"}, stop : Int,
     volume : Nat, distance : Nat, filled : Nat]

PositionsTyped ==
    /\ positions \in [Tickets -> PositionType]
    /\ seen \in [profit : Int, stop : Int, volume : Nat]
    /\ at \in Tickets \cup {0}

(* What a visit compares with was read of the position it is at.            *)
ReadingHolds ==
    at \in OpenTickets =>
        /\ pc \in LoopSteps => seen.stop >= -positions[at].distance
        /\ pc \in {"break_even", "partial"} => seen.volume = positions[at].volume

RiskInv == PositionsTyped /\ RiskNeverGrows /\ ReadingHolds

(* A half is less than the whole. *)
LEMMA HalfIsLess ==
    ASSUME NEW v \in Nat, v > 0
    PROVE  v \div 2 \in Nat /\ v \div 2 < v
  OBVIOUS

(* The ticket an order is given is an unused one. *)
LEMMA NextTicketUnused ==
    ASSUME Unused # {} PROVE NextTicket \in Tickets /\ NextTicket \in Unused
  BY DEF NextTicket, Unused

LEMMA RiskInvInit == Init => RiskInv
  BY DEF Init, RiskInv, PositionsTyped, PositionType, RiskNeverGrows, ReadingHolds,
         OpenTickets, OpenIn, NoPosition, Unread, LoopSteps

(* Steps that leave the positions and what was read of them alone.          *)
LEMMA RiskInvFrame ==
    ASSUME RiskInv, positions' = positions,
           \/ UNCHANGED <<at, seen>> /\ (pc' \in LoopSteps =>
                  /\ pc \in LoopSteps
                  /\ pc' \in {"break_even", "partial"} => pc \in {"break_even", "partial"})
           \/ at' = 0 /\ seen' = Unread
    PROVE  RiskInv'
  BY DEF RiskInv, PositionsTyped, RiskNeverGrows, ReadingHolds, OpenTickets, OpenIn,
         LoopSteps, Tickets, Unread

LEMMA SendOrderRisk ==
    ASSUME RiskInv, NEW t \in Trades, SendOrder(t) PROVE RiskInv'
<1> USE ManagementAssumption
<1>1. NextTicket \in Tickets
  BY NextTicketUnused DEF SendOrder
<1>2. PICK d \in StopDistances, v \in Volumes :
          positions' = [positions EXCEPT ![NextTicket] =
              [state |-> "open", trade |-> t, stop |-> -d, volume |-> v,
               distance |-> d, filled |-> v]]
  BY DEF SendOrder
<1>3. d \in Nat /\ v \in Nat /\ v > 0 /\ -d \in Int
  BY DEF ManagementAssumption
<1>4. positions' \in [Tickets -> PositionType]
  BY <1>1, <1>2, <1>3 DEF RiskInv, PositionsTyped, PositionType
<1>5. PositionsTyped'
  BY <1>1, <1>4 DEF RiskInv, PositionsTyped, SendOrder
<1>6. RiskNeverGrows'
  BY <1>1, <1>2, <1>3 DEF RiskInv, PositionsTyped, RiskNeverGrows, OpenTickets, OpenIn
<1>7. ReadingHolds'
  BY DEF ReadingHolds, SendOrder, Goto, LoopSteps
<1> QED BY <1>5, <1>6, <1>7 DEF RiskInv

LEMMA LookAtRisk ==
    ASSUME RiskInv, NEW k \in Tickets, LookAt(k) PROVE RiskInv'
<1>1. CASE UNCHANGED <<pc, at, seen>>
  BY <1>1, RiskInvFrame DEF LookAt, brokerVars
<1>2. CASE /\ at' = k
           /\ \E p \in Profits : seen' = [profit |-> p, stop |-> positions[k].stop,
                                          volume |-> positions[k].volume]
  BY <1>2, ManagementAssumption
     DEF LookAt, RiskInv, PositionsTyped, PositionType, RiskNeverGrows, ReadingHolds,
         OpenTickets, OpenIn, brokerVars, ManagementAssumption
<1> QED BY <1>1, <1>2 DEF LookAt

(* A stop is moved only beyond the stop that was read.                      *)
LEMMA MoveStopRisk ==
    ASSUME RiskInv, pc \in LoopSteps, NEW due, NEW stop \in Int, MoveStop(due, stop)
    PROVE  /\ positions' \in [Tickets -> PositionType]
           /\ RiskNeverGrows'
           /\ OpenTickets' = OpenTickets
           /\ \A k \in Tickets : /\ positions'[k].distance = positions[k].distance
                                 /\ positions'[k].volume = positions[k].volume
<1>1. CASE UNCHANGED positions
  BY <1>1 DEF RiskInv, PositionsTyped, RiskNeverGrows, OpenTickets, OpenIn
<1>2. CASE stop > seen.stop /\ Modify(stop)
  <2>1. /\ at \in Tickets /\ at \in OpenTickets
        /\ positions' = [positions EXCEPT ![at].stop = stop]
    BY <1>2 DEF Modify, OpenTickets, OpenIn
  <2>2. positions' \in [Tickets -> PositionType]
    BY <2>1 DEF RiskInv, PositionsTyped, PositionType
  <2>3. \A k \in Tickets : /\ positions'[k].distance = positions[k].distance
                           /\ positions'[k].volume = positions[k].volume
                           /\ positions'[k].filled = positions[k].filled
                           /\ positions'[k].state = positions[k].state
                           /\ k # at => positions'[k].stop = positions[k].stop
    BY <2>1 DEF RiskInv, PositionsTyped, PositionType
  <2>4. positions'[at].stop = stop
    BY <2>1 DEF RiskInv, PositionsTyped, PositionType
  <2>5. stop >= -positions[at].distance
    BY <1>2, <2>1 DEF RiskInv, PositionsTyped, PositionType, ReadingHolds
  <2>6. OpenTickets' = OpenTickets
    BY <2>3 DEF OpenTickets, OpenIn
  <2>7. OpenTickets \subseteq Tickets
    BY DEF OpenTickets, OpenIn
  <2>8. RiskNeverGrows'
    <3> SUFFICES ASSUME NEW k \in OpenTickets
                 PROVE  /\ positions'[k].stop >= -positions'[k].distance
                        /\ 0 < positions'[k].volume
                        /\ positions'[k].volume <= positions'[k].filled
      BY <2>6 DEF RiskNeverGrows
    <3>1. k \in Tickets
      BY <2>7
    <3> QED BY <3>1, <2>3, <2>4, <2>5 DEF RiskInv, RiskNeverGrows
  <2> QED BY <2>2, <2>3, <2>6, <2>8
<1> QED BY <1>1, <1>2 DEF MoveStop

LEMMA BreakEvenRisk == ASSUME RiskInv, BreakEven PROVE RiskInv'
<1>1. BreakEvenBuffer \in Int
  BY ManagementAssumption DEF ManagementAssumption
<1>2. MoveStop(Mode.be > 0 /\ Reaches(Mode.be), BreakEvenBuffer)
  BY DEF BreakEven
<1>3. pc \in LoopSteps /\ pc = "break_even" /\ UNCHANGED <<at, seen>> /\ pc' = "partial"
  BY DEF BreakEven, LoopSteps, Goto
<1>4. /\ positions' \in [Tickets -> PositionType] /\ RiskNeverGrows'
      /\ OpenTickets' = OpenTickets
      /\ \A k \in Tickets : /\ positions'[k].distance = positions[k].distance
                            /\ positions'[k].volume = positions[k].volume
  BY <1>1, <1>2, <1>3, MoveStopRisk
<1>5. OpenTickets \subseteq Tickets
  BY DEF OpenTickets, OpenIn
<1>6. ReadingHolds'
  BY <1>3, <1>4, <1>5 DEF RiskInv, ReadingHolds, LoopSteps
<1> QED
  BY <1>3, <1>4, <1>6 DEF RiskInv, PositionsTyped

LEMMA TrailRisk == ASSUME RiskInv, Trail PROVE RiskInv'
<1>1. PICK d \in TrailDistances :
          MoveStop(Mode.trailing /\ Reaches(Mode.be), seen.profit - d)
  BY DEF Trail
<1>2. seen.profit - d \in Int
  BY ManagementAssumption DEF ManagementAssumption, RiskInv, PositionsTyped
<1>3. pc \in LoopSteps /\ at' = 0 /\ seen' = Unread /\ pc' = "manage"
  BY DEF Trail, LoopSteps, NothingInHand, Goto
<1> QED
  BY <1>1, <1>2, <1>3, MoveStopRisk DEF RiskInv, PositionsTyped, ReadingHolds, Unread, LoopSteps

LEMMA ClosePartialRisk == ASSUME RiskInv, ClosePartial PROVE RiskInv'
<1>1. /\ at \in Tickets /\ at \in OpenTickets /\ pc = "partial"
      /\ positions' = [positions EXCEPT ![at].volume = @ - Half]
      /\ UNCHANGED <<at, seen>> /\ pc' \in {"record", "trail"}
  BY DEF ClosePartial, OpenTickets, OpenIn, Goto
<1>2. /\ seen.volume = positions[at].volume /\ positions[at].volume \in Nat
      /\ 0 < positions[at].volume /\ positions[at].volume <= positions[at].filled
      /\ positions[at].filled \in Nat
  BY <1>1 DEF RiskInv, RiskNeverGrows, ReadingHolds, PositionsTyped, PositionType
<1>3. Half \in Nat /\ Half < positions[at].volume
  BY <1>2, HalfIsLess DEF Half
<1>4. positions' \in [Tickets -> PositionType]
  BY <1>1, <1>2, <1>3 DEF RiskInv, PositionsTyped, PositionType
<1>5. \A k \in Tickets : /\ positions'[k].distance = positions[k].distance
                         /\ positions'[k].filled = positions[k].filled
                         /\ positions'[k].state = positions[k].state
                         /\ positions'[k].stop = positions[k].stop
                         /\ k # at => positions'[k].volume = positions[k].volume
  BY <1>1 DEF RiskInv, PositionsTyped, PositionType
<1>6. positions'[at].volume = positions[at].volume - Half
  BY <1>1 DEF RiskInv, PositionsTyped, PositionType
<1>7. OpenTickets' = OpenTickets
  BY <1>5 DEF OpenTickets, OpenIn
<1>8. RiskNeverGrows'
  BY <1>2, <1>3, <1>5, <1>6, <1>7 DEF RiskInv, RiskNeverGrows, OpenTickets, OpenIn
<1>9. PositionsTyped'
  BY <1>1, <1>4 DEF RiskInv, PositionsTyped
<1>10. ReadingHolds'
  BY <1>1, <1>5, <1>7 DEF RiskInv, ReadingHolds, LoopSteps
<1> QED BY <1>8, <1>9, <1>10 DEF RiskInv

LEMMA ClosePositionRisk ==
    ASSUME RiskInv, NEW k \in Tickets, ClosePosition(k) PROVE RiskInv'
<1> DEFINE closed == [state |-> "closed", trade |-> positions[k].trade, stop |-> 0,
                      volume |-> 0, distance |-> positions[k].distance,
                      filled |-> positions[k].filled]
<1>1. /\ k \in OpenTickets /\ UNCHANGED <<pc, at, seen>>
      /\ positions' = [positions EXCEPT ![k] = closed]
  BY DEF ClosePosition, loopVars
<1>2. closed \in PositionType /\ closed.state = "closed"
  BY DEF RiskInv, PositionsTyped, PositionType
<1> HIDE DEF closed
<1>3. positions' \in [Tickets -> PositionType]
  BY <1>1, <1>2 DEF RiskInv, PositionsTyped
<1>4. OpenTickets' = OpenTickets \ {k}
  <2>1. \A j \in Tickets : positions'[j].state = (IF j = k THEN "closed" ELSE positions[j].state)
    BY <1>1, <1>2 DEF RiskInv, PositionsTyped
  <2> QED BY <2>1 DEF OpenTickets, OpenIn
<1>5. \A j \in OpenTickets' : positions'[j] = positions[j]
  BY <1>1, <1>4 DEF RiskInv, PositionsTyped, OpenTickets, OpenIn
<1> QED BY <1>1, <1>3, <1>4, <1>5
        DEF RiskInv, PositionsTyped, RiskNeverGrows, ReadingHolds

LEMMA RiskInvNext == ASSUME RiskInv, [Next]_vars PROVE RiskInv'
<1> USE DEF brokerVars, loopVars, Goto, NothingInHand, LoopSteps
<1>1. CASE UNCHANGED vars
  BY <1>1, RiskInvFrame DEF vars
<1>2. CASE NoSignal
  BY <1>2, RiskInvFrame DEF NoSignal
<1>3. ASSUME NEW t \in Trades, DiscardSignal(t) PROVE RiskInv'
  BY <1>3, RiskInvFrame DEF DiscardSignal
<1>4. ASSUME NEW t \in Trades, SendOrder(t) PROVE RiskInv'
  BY <1>4, SendOrderRisk
<1>5. CASE AllocSlot
  BY <1>5, RiskInvFrame DEF AllocSlot
<1>6. CASE SaveSlot
  BY <1>6, RiskInvFrame DEF SaveSlot
<1>7. CASE MarkProcessed
  BY <1>7, RiskInvFrame DEF MarkProcessed
<1>8. CASE DeleteFilled
  BY <1>8, RiskInvFrame DEF DeleteFilled
<1>9. ASSUME NEW k \in Tickets, LookAt(k) PROVE RiskInv'
  BY <1>9, LookAtRisk
<1>10. CASE BreakEven
  BY <1>10, BreakEvenRisk
<1>11. CASE ClosePartial
  BY <1>11, ClosePartialRisk
<1>12. CASE KeepVolume
  BY <1>12, RiskInvFrame DEF KeepVolume
<1>13. CASE RecordPartial
  BY <1>13, RiskInvFrame DEF RecordPartial
<1>14. CASE Trail
  BY <1>14, TrailRisk
<1>15. CASE ManageDone
  BY <1>15, RiskInvFrame DEF ManageDone
<1>16. ASSUME NEW k \in Tickets, Sweep(k) PROVE RiskInv'
  BY <1>16, RiskInvFrame DEF Sweep
<1>17. CASE SweepDone
  BY <1>17, RiskInvFrame DEF SweepDone
<1>18. ASSUME NEW k \in Tickets, OnTradeTransaction(k) PROVE RiskInv'
  BY <1>18, RiskInvFrame DEF OnTradeTransaction
<1>19. ASSUME NEW k \in Tickets, ClosePosition(k) PROVE RiskInv'
  BY <1>19, ClosePositionRisk
<1>20. ASSUME NEW k \in Tickets, EngineReads(k) PROVE RiskInv'
  BY <1>20, RiskInvFrame DEF EngineReads
<1>21. CASE Restart
  BY <1>21, RiskInvFrame DEF Restart, OnInit
<1>22. CASE Killed
  BY <1>22, RiskInvFrame DEF Killed, OnInit
<1> QED
  BY <1>1, <1>2, <1>3, <1>4, <1>5, <1>6, <1>7, <1>8, <1>9, <1>10, <1>11, <1>12, <1>13, <1>14,
     <1>15, <1>16, <1>17, <1>18, <1>19, <1>20, <1>21, <1>22 DEF Next, OnTimer

(* Management never raises the risk of an open position, for all modes,     *)
(* prices, stops and volumes, any number of kills and any moment the broker *)
(* closes it: each move is judged by a reading no further than the fill's   *)
(* stop (FX_Execution.mq5:190-349).                                         *)
THEOREM RiskNeverGrowsHolds == Spec => []RiskNeverGrows
<1>1. RiskInv /\ [Next]_vars => RiskInv'
  BY RiskInvNext
<1>2. RiskInv => RiskNeverGrows
  BY DEF RiskInv
<1> QED BY <1>1, <1>2, RiskInvInit, PTL DEF Spec
-----------------------------------------------------------------------------
(* One more partial close is known to the slot and its file, or was paid    *)
(* for by a slip, or waits to be recorded.                                  *)
Hand == {"slot", "save", "mark", "delete"}
Closed == {k \in Tickets : positions[k].state = "closed"}
StateType == [distance : Nat, halved : BOOLEAN]
Known(state) == IF state.halved THEN 1 ELSE 0
Recording(k) == IF pc = "record" /\ at = k THEN 1 ELSE 0

SlotsTyped ==
    /\ slots \in [Tickets -> StateType] /\ files \in [Tickets -> StateType]
    /\ halvings \in [Tickets -> Nat] /\ slips \in Nat

SlotsKnow ==
    \A k \in Tickets : Managed(k) => halvings[k] <= slips + Known(slots[k]) + Recording(k)
FilesKnow ==
    \A k \in Tickets : Saved(k) => halvings[k] <= slips + Known(files[k]) + Recording(k)
InHand ==
    /\ pc \in Hand => at \in Tickets /\ positions[at].state # "none"
    /\ pc = "slot" => halvings[at] = 0 /\ ~Saved(at)
    /\ pc = "record" => at \in Tickets /\ Managed(at) /\ ~slots[at].halved
UnusedBlank ==
    \A k \in Tickets : positions[k].state = "none" =>
        ~Saved(k) /\ ~Managed(k) /\ halvings[k] = 0
SavedIsManaged == \A k \in OpenTickets : Saved(k) => Managed(k)
ClosedSwept == events \subseteq Closed /\ (pc = "sweep" => todo \subseteq Closed)

HalvingInv ==
    SlotsTyped /\ SlotsKnow /\ FilesKnow /\ InHand /\ UnusedBlank /\ SavedIsManaged /\ ClosedSwept

LEMMA HalvingInvInit == Init => HalvingInv
<1> SUFFICES ASSUME Init PROVE HalvingInv
  OBVIOUS
<1>1. /\ slots = [k \in Tickets |-> NoState] /\ files = [k \in Tickets |-> NoState]
      /\ halvings = [k \in Tickets |-> 0] /\ slips = 0 /\ pc = "idle" /\ events = {}
      /\ positions = [k \in Tickets |-> NoPosition]
  BY DEF Init
<1>2. NoState \in StateType
  BY DEF NoState, StateType
<1>3. SlotsTyped
  BY <1>1, <1>2 DEF SlotsTyped
<1>4. \A k \in Tickets : ~Managed(k) /\ ~Saved(k) /\ halvings[k] = 0
  BY <1>1 DEF Managed, Saved
<1>5. InHand /\ ClosedSwept
  BY <1>1 DEF InHand, Hand, ClosedSwept
<1> QED
  BY <1>3, <1>4, <1>5
     DEF HalvingInv, SlotsKnow, FilesKnow, UnusedBlank, SavedIsManaged, OpenTickets, OpenIn

(* The state of each position stays what it is.                             *)
StatesKept == \A k \in Tickets : positions'[k].state = positions[k].state

LEMMA KeptSets == ASSUME StatesKept PROVE OpenTickets' = OpenTickets /\ Closed' = Closed
  BY DEF StatesKept, OpenTickets, OpenIn, Closed

LEMMA MoveStopKeepsStates ==
    ASSUME RiskInv, NEW due, NEW stop, MoveStop(due, stop)
    PROVE  StatesKept /\ \A k \in Tickets : positions'[k].trade = positions[k].trade
<1>1. CASE UNCHANGED positions
  BY <1>1 DEF StatesKept
<1>2. CASE Modify(stop)
  BY <1>2 DEF Modify, StatesKept, RiskInv, PositionsTyped, PositionType
<1> QED BY <1>1, <1>2 DEF MoveStop

(* No more positions are open than the envelope allows.                     *)
OpenInv == Cardinality(OpenTickets) <= MaxPositions

LEMMA TicketsFinite ==
    /\ MaxTickets \in Nat /\ MaxPositions \in Nat /\ MaxPos \in Nat /\ MaxFaults \in Nat
    /\ IsFiniteSet(Tickets) /\ OpenTickets \subseteq Tickets
    /\ \A S \in SUBSET Tickets : IsFiniteSet(S) /\ Cardinality(S) \in Nat
<1>1. /\ MaxTickets \in Nat /\ MaxPositions \in Nat /\ MaxPos \in Nat /\ MaxFaults \in Nat
  BY ManagementAssumption DEF ManagementAssumption
<1>2. IsFiniteSet(Tickets)
  BY <1>1, FS_Interval DEF Tickets
<1> QED BY <1>1, <1>2, FS_Subset, FS_CardinalityType DEF OpenTickets, OpenIn

LEMMA SmallerSet ==
    ASSUME NEW S \in SUBSET Tickets, NEW R \in SUBSET S
    PROVE  Cardinality(R) <= Cardinality(S)
BY TicketsFinite, FS_Subset

LEMMA OneMore ==
    ASSUME NEW S \in SUBSET Tickets, NEW k \in Tickets, NEW R \in SUBSET (S \cup {k})
    PROVE  Cardinality(R) <= Cardinality(S) + 1
<1>1. S \cup {k} \in SUBSET Tickets
  OBVIOUS
<1>2. Cardinality(R) <= Cardinality(S \cup {k}) /\ Cardinality(R) \in Nat
  BY <1>1, SmallerSet, TicketsFinite
<1>3. IsFiniteSet(S) /\ Cardinality(S) \in Nat
  BY TicketsFinite
<1>4. Cardinality(S \cup {k}) = (IF k \in S THEN Cardinality(S) ELSE Cardinality(S) + 1)
  BY <1>3, FS_AddElement
<1> QED BY <1>2, <1>3, <1>4

(* Only an order opens a position.                                          *)
LEMMA OnlyOrdersOpen ==
    ASSUME RiskInv, [Next]_vars, ~\E t \in Trades : SendOrder(t)
    PROVE  OpenTickets' \subseteq OpenTickets
<1>1. CASE UNCHANGED positions
  BY <1>1 DEF OpenTickets, OpenIn
<1>2. CASE BreakEven \/ Trail
  <2>1. \E due, stop : MoveStop(due, stop)
    BY <1>2 DEF BreakEven, Trail
  <2> QED BY <2>1, MoveStopKeepsStates, KeptSets
<1>3. CASE ClosePartial
  <2>1. StatesKept
    BY <1>3 DEF ClosePartial, StatesKept, RiskInv, PositionsTyped
  <2> QED BY <2>1, KeptSets
<1>4. ASSUME NEW k \in Tickets, ClosePosition(k) PROVE OpenTickets' \subseteq OpenTickets
  <2>1. \A j \in Tickets : positions'[j].state = IF j = k THEN "closed" ELSE positions[j].state
    BY <1>4 DEF ClosePosition, RiskInv, PositionsTyped
  <2> QED BY <2>1 DEF OpenTickets, OpenIn
<1> QED
  BY <1>1, <1>2, <1>3, <1>4
     DEF Next, OnTimer, vars, brokerVars, NoSignal, DiscardSignal, AllocSlot, SaveSlot,
         MarkProcessed, DeleteFilled, LookAt, KeepVolume, RecordPartial, ManageDone, Sweep,
         SweepDone, OnTradeTransaction, EngineReads, Restart, Killed, OnInit

LEMMA OpenInvInit == Init => OpenInv
<1> SUFFICES ASSUME Init PROVE OpenInv
  OBVIOUS
<1>1. OpenTickets = {}
  BY DEF Init, OpenTickets, OpenIn, NoPosition
<1> QED BY <1>1, FS_EmptySet, TicketsFinite DEF OpenInv

LEMMA OpenInvNext == ASSUME RiskInv, OpenInv, [Next]_vars PROVE OpenInv'
<1>1. CASE \E t \in Trades : SendOrder(t)
  <2>1. PICK t \in Trades : SendOrder(t)
    BY <1>1
  <2>2. NextTicket \in Tickets /\ Cardinality(OpenTickets) < MaxPositions
    BY <2>1, NextTicketUnused DEF SendOrder
  <2>3. \A k \in Tickets : k # NextTicket => positions'[k] = positions[k]
    BY <2>1 DEF SendOrder, RiskInv, PositionsTyped
  <2>4. OpenTickets' \subseteq OpenTickets \cup {NextTicket}
    BY <2>3 DEF OpenTickets, OpenIn
  <2>5. Cardinality(OpenTickets') <= Cardinality(OpenTickets) + 1
    BY <2>2, <2>4, OneMore, TicketsFinite
  <2>6. OpenTickets' \subseteq Tickets
    BY <2>2, <2>4, TicketsFinite
  <2> QED BY <2>2, <2>5, <2>6, TicketsFinite DEF OpenInv
<1>2. CASE ~\E t \in Trades : SendOrder(t)
  <2>1. OpenTickets' \subseteq OpenTickets
    BY <1>2, OnlyOrdersOpen
  <2>2. Cardinality(OpenTickets') <= Cardinality(OpenTickets)
    BY <2>1, SmallerSet, TicketsFinite
  <2>3. OpenTickets' \subseteq Tickets
    BY <2>1, TicketsFinite
  <2> QED BY <2>2, <2>3, TicketsFinite DEF OpenInv
<1> QED BY <1>1, <1>2

(* Steps that leave slots, files and halvings alone, and record nothing.    *)
LEMMA HalvingFrame ==
    ASSUME HalvingInv, StatesKept,
           UNCHANGED <<slots, files, halvings>>,
           slips' \in Nat, slips' >= slips,
           events' \subseteq events,
           pc # "record", pc' \notin {"record", "slot"},
           pc' \in Hand => pc \in Hand /\ at' = at,
           pc' = "sweep" => todo' \subseteq Closed
    PROVE  HalvingInv'
<1>1. /\ SlotsTyped' /\ OpenTickets' = OpenTickets /\ Closed' = Closed
      /\ \A k \in Tickets : /\ Recording(k) = 0 /\ Recording(k)' = 0
                            /\ Managed(k)' = Managed(k) /\ Saved(k)' = Saved(k)
  BY KeptSets DEF HalvingInv, SlotsTyped, Recording, Managed, Saved
<1>2. \A k \in Tickets : Known(slots[k]) \in Nat /\ Known(files[k]) \in Nat
  BY DEF Known
<1>3. SlotsKnow' /\ FilesKnow'
  BY <1>1, <1>2 DEF HalvingInv, SlotsKnow, FilesKnow, SlotsTyped, Known
<1>4. InHand' /\ UnusedBlank'
  BY <1>1 DEF HalvingInv, InHand, UnusedBlank, StatesKept
<1>5. SavedIsManaged' /\ ClosedSwept'
  <2>1. OpenTickets \subseteq Tickets
    BY DEF OpenTickets, OpenIn
  <2> QED BY <1>1, <2>1 DEF HalvingInv, SavedIsManaged, ClosedSwept
<1> QED BY <1>1, <1>3, <1>4, <1>5 DEF HalvingInv

LEMMA SendOrderHalving ==
    ASSUME RiskInv, HalvingInv, NEW t \in Trades, SendOrder(t) PROVE HalvingInv'
<1>1. NextTicket \in Tickets /\ positions[NextTicket].state = "none"
  BY NextTicketUnused DEF SendOrder, Unused, NoPosition
<1>2. /\ at' = NextTicket /\ pc = "idle" /\ pc' = "slot"
      /\ UNCHANGED <<events, slots, files, halvings, slips>>
  BY DEF SendOrder, Goto, countVars
<1>3. \A k \in Tickets : positions'[k].state = IF k = NextTicket THEN "open"
                                                ELSE positions[k].state
  BY <1>1 DEF SendOrder, RiskInv, PositionsTyped
<1>4. halvings[NextTicket] = 0 /\ ~Saved(NextTicket)
  BY <1>1 DEF HalvingInv, UnusedBlank
<1>5. \A k \in Tickets : /\ Recording(k) = 0 /\ Recording(k)' = 0
                         /\ Managed(k)' = Managed(k) /\ Saved(k)' = Saved(k)
  BY <1>2 DEF Recording, Managed, Saved
<1>6. SlotsTyped' /\ SlotsKnow' /\ FilesKnow'
  BY <1>2, <1>5 DEF HalvingInv, SlotsTyped, SlotsKnow, FilesKnow
<1>7. InHand' /\ UnusedBlank'
  BY <1>1, <1>2, <1>3, <1>4, <1>5 DEF HalvingInv, InHand, UnusedBlank, Hand
<1>8. SavedIsManaged'
  BY <1>1, <1>3, <1>4, <1>5 DEF HalvingInv, SavedIsManaged, OpenTickets, OpenIn
<1>9. ClosedSwept'
  BY <1>1, <1>2, <1>3 DEF HalvingInv, ClosedSwept, Closed
<1> QED BY <1>6, <1>7, <1>8, <1>9 DEF HalvingInv

LEMMA AllocSlotHalving == ASSUME RiskInv, HalvingInv, AllocSlot PROVE HalvingInv'
<1>1. /\ pc = "slot" /\ at \in Tickets /\ positions[at].state # "none" /\ halvings[at] = 0
      /\ UNCHANGED <<positions, events, files, halvings, slips, at>>
      /\ pc' \in {"save", "mark"}
  BY DEF AllocSlot, HalvingInv, InHand, Hand, Goto, brokerVars, countVars
<1>2. CASE UNCHANGED slots
  BY <1>1, <1>2, HalvingFrame DEF StatesKept, Hand, HalvingInv, SlotsTyped
<1>3. CASE slots' = [slots EXCEPT ![at] =
                         [distance |-> positions[at].distance, halved |-> FALSE]]
  <2>1. [distance |-> positions[at].distance, halved |-> FALSE] \in StateType
    BY <1>1 DEF RiskInv, PositionsTyped, PositionType, StateType
  <2>2. SlotsTyped'
    BY <1>1, <1>3, <2>1 DEF HalvingInv, SlotsTyped
  <2>3. \A k \in Tickets : /\ k # at => slots'[k] = slots[k]
                           /\ Recording(k) = 0 /\ Recording(k)' = 0
                           /\ Saved(k)' = Saved(k)
    BY <1>1, <1>3 DEF HalvingInv, SlotsTyped, Recording, Saved
  <2>4. Known(slots'[at]) \in Nat
    BY DEF Known
  <2>5. SlotsKnow'
    BY <1>1, <2>2, <2>3, <2>4 DEF HalvingInv, SlotsTyped, SlotsKnow, Managed
  <2>6. FilesKnow' /\ InHand'
    BY <1>1, <2>3 DEF HalvingInv, FilesKnow, InHand, Hand
  <2>7. UnusedBlank'
    BY <1>1, <2>3 DEF HalvingInv, UnusedBlank, Managed
  <2>8. SavedIsManaged'
    BY <1>1, <2>3 DEF HalvingInv, InHand, SavedIsManaged, OpenTickets, OpenIn, Managed
  <2>9. ClosedSwept'
    BY <1>1 DEF HalvingInv, ClosedSwept, Closed
  <2> QED BY <2>2, <2>5, <2>6, <2>7, <2>8, <2>9 DEF HalvingInv
<1> QED BY <1>2, <1>3 DEF AllocSlot
LEMMA SaveSlotHalving == ASSUME HalvingInv, SaveSlot PROVE HalvingInv'
<1>1. /\ pc = "save" /\ pc' = "mark" /\ at \in Tickets /\ positions[at].state # "none"
      /\ UNCHANGED <<positions, events, slots, halvings, at>>
  BY DEF SaveSlot, HalvingInv, InHand, Hand, Goto, brokerVars
<1>2. CASE UNCHANGED files
  <2>1. slips' \in Nat /\ slips' >= slips
    BY DEF SaveSlot, WriteState, Slip, countVars, HalvingInv, SlotsTyped
  <2> QED BY <1>1, <1>2, <2>1, HalvingFrame DEF StatesKept, Hand
<1>3. CASE files' = [files EXCEPT ![at] = slots[at]] /\ UNCHANGED countVars
  <2>1. SlotsTyped' /\ slips' = slips
    BY <1>1, <1>3 DEF HalvingInv, SlotsTyped, countVars
  <2>2. \A k \in Tickets : /\ k # at => files'[k] = files[k]
                           /\ Recording(k) = 0 /\ Recording(k)' = 0
                           /\ Managed(k)' = Managed(k)
    BY <1>1, <1>3 DEF HalvingInv, SlotsTyped, Recording, Managed
  <2>3. files'[at] = slots[at]
    BY <1>1, <1>3 DEF HalvingInv, SlotsTyped
  <2>4. SlotsKnow' /\ FilesKnow'
    BY <1>1, <2>1, <2>2, <2>3 DEF HalvingInv, SlotsKnow, FilesKnow, Saved, Managed
  <2>5. InHand' /\ UnusedBlank'
    BY <1>1, <2>2 DEF HalvingInv, InHand, Hand, UnusedBlank, Saved
  <2>6. SavedIsManaged'
    BY <1>1, <2>2, <2>3 DEF HalvingInv, SavedIsManaged, OpenTickets, OpenIn, Saved, Managed
  <2>7. ClosedSwept'
    BY <1>1 DEF HalvingInv, ClosedSwept, Closed
  <2> QED BY <2>1, <2>4, <2>5, <2>6, <2>7 DEF HalvingInv
<1> QED BY <1>2, <1>3 DEF SaveSlot, WriteState

(* A managed position that is halved has yet to be recorded; the halving of *)
(* one without management is known to nobody.                               *)
LEMMA ClosePartialHalving ==
    ASSUME RiskInv, HalvingInv, ClosePartial PROVE HalvingInv'
<1>1. /\ pc = "partial" /\ at \in OpenTickets /\ at \in Tickets /\ ~slots[at].halved
      /\ halvings' = [halvings EXCEPT ![at] = @ + 1]
      /\ pc' = IF Managed(at) THEN "record" ELSE "trail"
      /\ UNCHANGED <<events, files, slots, slips, at>>
  BY DEF ClosePartial, PartialDue, Goto, OpenTickets, OpenIn, countVars
<1>2. StatesKept
  BY <1>1 DEF ClosePartial, StatesKept, RiskInv, PositionsTyped
<1>3. OpenTickets' = OpenTickets /\ Closed' = Closed
  BY <1>2, KeptSets
<1>4. \A k \in Tickets : /\ Managed(k)' = Managed(k) /\ Saved(k)' = Saved(k)
                         /\ Recording(k) = 0
                         /\ Recording(k)' = IF k = at /\ Managed(at) THEN 1 ELSE 0
                         /\ halvings'[k] = halvings[k] + (IF k = at THEN 1 ELSE 0)
  BY <1>1 DEF HalvingInv, SlotsTyped, Managed, Saved, Recording
<1>5. Managed(at) \/ ~Saved(at)
  BY <1>1 DEF HalvingInv, SavedIsManaged
<1>6. \A k \in Tickets : Known(slots[k]) \in Nat /\ Known(files[k]) \in Nat
  BY DEF Known
<1>7. SlotsTyped'
  BY <1>1 DEF HalvingInv, SlotsTyped
<1>8. SlotsKnow'
  BY <1>1, <1>4, <1>6, <1>7 DEF HalvingInv, SlotsKnow, SlotsTyped
<1>9. FilesKnow'
  BY <1>1, <1>4, <1>5, <1>6, <1>7 DEF HalvingInv, FilesKnow, SlotsTyped
<1>10. InHand'
  BY <1>1, <1>4 DEF InHand, Hand
<1>11. UnusedBlank'
  BY <1>1, <1>2, <1>4 DEF HalvingInv, UnusedBlank, StatesKept, OpenTickets, OpenIn, SlotsTyped
<1>12. SavedIsManaged' /\ ClosedSwept'
  <2>1. OpenTickets \subseteq Tickets
    BY DEF OpenTickets, OpenIn
  <2> QED BY <1>1, <1>3, <1>4, <2>1 DEF HalvingInv, SavedIsManaged, ClosedSwept
<1> QED BY <1>7, <1>8, <1>9, <1>10, <1>11, <1>12 DEF HalvingInv

LEMMA RecordPartialHalving == ASSUME HalvingInv, RecordPartial PROVE HalvingInv'
<1>1. /\ pc = "record" /\ pc' = "trail" /\ at \in Tickets /\ Managed(at) /\ ~slots[at].halved
      /\ slots' = [slots EXCEPT ![at].halved = TRUE]
      /\ UNCHANGED <<positions, events, halvings, at>>
  BY DEF RecordPartial, HalvingInv, InHand, Goto, brokerVars
<1>2. /\ slots' \in [Tickets -> StateType] /\ slots'[at].halved
      /\ \A k \in Tickets : k # at => slots'[k] = slots[k]
  BY <1>1 DEF HalvingInv, SlotsTyped, StateType
<1>3. \/ files' = [files EXCEPT ![at] = slots'[at]] /\ slips' = slips
      \/ files' = files /\ slips' = slips + 1
  BY DEF RecordPartial, WriteState, Slip, countVars
<1>4. /\ SlotsTyped'
      /\ \A k \in Tickets : k # at => files'[k] = files[k]
  <2>1. slots'[at] \in StateType /\ files \in [Tickets -> StateType]
    BY <1>1, <1>2 DEF HalvingInv, SlotsTyped
  <2>2. /\ files' \in [Tickets -> StateType]
        /\ \A k \in Tickets : k # at => files'[k] = files[k]
    BY <1>1, <1>3, <2>1
  <2> QED BY <1>1, <1>2, <1>3, <2>2 DEF HalvingInv, SlotsTyped
<1>5. \A k \in Tickets : /\ Recording(k) = IF k = at THEN 1 ELSE 0
                         /\ Recording(k)' = 0
                         /\ Managed(k)' = Managed(k)
                         /\ k # at => Saved(k)' = Saved(k)
                         /\ Known(slots[k]) \in Nat /\ Known(files[k]) \in Nat
  <2>1. Managed(at)'
    BY <1>1, <1>2 DEF Managed, NoState
  <2>2. \A k \in Tickets : Known(slots[k]) \in Nat /\ Known(files[k]) \in Nat
    BY DEF Known
  <2> QED BY <1>1, <1>2, <1>4, <2>1, <2>2 DEF Recording, Managed, Saved
<1>6. halvings[at] <= slips + 1 /\ slips \in Nat /\ slips' \in Nat /\ halvings[at] \in Nat
  BY <1>1, <1>4, <1>5 DEF HalvingInv, SlotsKnow, SlotsTyped, Known
<1>7. SlotsKnow'
  BY <1>1, <1>2, <1>3, <1>4, <1>5, <1>6 DEF HalvingInv, SlotsKnow, SlotsTyped, Known
<1>8. FilesKnow'
  <2> SUFFICES ASSUME NEW k \in Tickets, Saved(k)'
               PROVE  halvings'[k] <= slips' + Known(files'[k]) + 0
    BY <1>5 DEF FilesKnow
  <2>1. CASE k # at
    BY <1>1, <1>3, <1>4, <1>5, <1>6, <2>1 DEF HalvingInv, FilesKnow, SlotsTyped
  <2>2. CASE k = at /\ files' = [files EXCEPT ![at] = slots'[at]] /\ slips' = slips
    BY <1>1, <1>2, <1>6, <2>2 DEF HalvingInv, SlotsTyped, Known
  <2>3. CASE k = at /\ files' = files /\ slips' = slips + 1
    BY <1>1, <1>6, <2>3 DEF Known
  <2> QED BY <1>3, <2>1, <2>2, <2>3
<1>9. InHand' /\ UnusedBlank'
  BY <1>1, <1>5 DEF HalvingInv, InHand, Hand, UnusedBlank
<1>10. SavedIsManaged' /\ ClosedSwept'
  BY <1>1, <1>5 DEF HalvingInv, SavedIsManaged, ClosedSwept, OpenTickets, OpenIn, Closed
<1> QED BY <1>4, <1>7, <1>8, <1>9, <1>10 DEF HalvingInv
(* Finalize forgets a closed position, or leaves it for the next sweep.     *)
LEMMA FinalizeHalving ==
    ASSUME HalvingInv, NEW k \in Tickets, k \in Closed, Finalize(k),
           UNCHANGED <<positions, halvings, pc, at>>, pc \in {"idle", "sweep"},
           events' \subseteq events, todo' \subseteq todo
    PROVE  HalvingInv'
<1>1. /\ slots' = slots \/ slots' = [slots EXCEPT ![k] = NoState]
      /\ files' = files \/ files' = [files EXCEPT ![k] = NoState]
      /\ slips' \in Nat /\ slips' >= slips
  BY DEF Finalize, Fault, Slip, countVars, HalvingInv, SlotsTyped
<1>2. NoState \in StateType
  BY DEF NoState, StateType
<1>3. SlotsTyped'
  BY <1>1, <1>2 DEF HalvingInv, SlotsTyped
<1>4. \A j \in Tickets : /\ Managed(j)' => Managed(j) /\ slots'[j] = slots[j]
                         /\ Saved(j)' => Saved(j) /\ files'[j] = files[j]
                         /\ j # k => Managed(j)' = Managed(j)
                         /\ Recording(j) = 0 /\ Recording(j)' = 0
  BY <1>1, <1>2 DEF HalvingInv, SlotsTyped, Managed, Saved, Recording
<1>5. \A j \in Tickets : Known(slots[j]) \in Nat /\ Known(files[j]) \in Nat
  BY DEF Known
<1>6. SlotsKnow' /\ FilesKnow'
  BY <1>1, <1>3, <1>4, <1>5 DEF HalvingInv, SlotsTyped, SlotsKnow, FilesKnow
<1>7. InHand' /\ UnusedBlank'
  BY <1>4 DEF HalvingInv, InHand, Hand, UnusedBlank
<1>8. k \notin OpenTickets /\ OpenTickets \subseteq Tickets
  BY DEF Closed, OpenTickets, OpenIn
<1>9. SavedIsManaged' /\ ClosedSwept'
  BY <1>4, <1>8 DEF HalvingInv, SavedIsManaged, ClosedSwept, OpenTickets, OpenIn, Closed
<1> QED BY <1>3, <1>6, <1>7, <1>9 DEF HalvingInv

LEMMA ClosePositionHalving ==
    ASSUME RiskInv, HalvingInv, NEW k \in Tickets, ClosePosition(k) PROVE HalvingInv'
<1>1. /\ k \in OpenTickets /\ events' = events \cup {k}
      /\ UNCHANGED <<files, slots, halvings, slips, pc, at, todo>>
  BY DEF ClosePosition, loopVars, countVars
<1>2. \A j \in Tickets : positions'[j].state = IF j = k THEN "closed" ELSE positions[j].state
  BY DEF ClosePosition, RiskInv, PositionsTyped
<1>3. /\ OpenTickets' \subseteq OpenTickets /\ OpenTickets \subseteq Tickets
      /\ Closed' = Closed \cup {k}
  BY <1>2 DEF OpenTickets, OpenIn, Closed
<1>4. \A j \in Tickets : /\ Managed(j)' = Managed(j) /\ Saved(j)' = Saved(j)
                         /\ Recording(j)' = Recording(j)
  BY <1>1 DEF Managed, Saved, Recording
<1>5. SlotsTyped' /\ SlotsKnow' /\ FilesKnow'
  BY <1>1, <1>4 DEF HalvingInv, SlotsTyped, SlotsKnow, FilesKnow
<1>6. positions[k].state # "none"
  BY <1>1 DEF OpenTickets, OpenIn
<1>7. InHand' /\ UnusedBlank'
  BY <1>1, <1>2, <1>4, <1>6 DEF HalvingInv, InHand, Hand, UnusedBlank, Managed, Saved
<1>8. SavedIsManaged' /\ ClosedSwept'
  BY <1>1, <1>3, <1>4 DEF HalvingInv, SavedIsManaged, ClosedSwept
<1> QED BY <1>5, <1>7, <1>8 DEF HalvingInv

(* With a slot for each open position, a restart restores all it finds      *)
(* saved.                                                                   *)
LEMMA AllRestored ==
    ASSUME MaxPositions <= MaxPos, OpenInv, OnInit
    PROVE  slots' = files'
<1> DEFINE restorable == {k \in OpenTickets : Saved(k)}
<1>1. PICK S \in SUBSET restorable :
         /\ S = restorable \/ Cardinality(S) = MaxPos
         /\ slots' = [k \in Tickets |-> IF k \in S THEN files[k] ELSE NoState]
  BY DEF OnInit
<1>2. restorable \in SUBSET OpenTickets /\ OpenTickets \in SUBSET Tickets
  BY TicketsFinite
<1>3. S = restorable
  <2>1. CASE Cardinality(S) = MaxPos
    <3>1. Cardinality(restorable) <= Cardinality(OpenTickets)
      BY <1>2, SmallerSet
    <3>2. IsFiniteSet(restorable) /\ Cardinality(restorable) \in Nat
      BY <1>2, TicketsFinite
    <3>3. Cardinality(S) \in Nat /\ Cardinality(S) >= Cardinality(restorable)
      BY <1>2, <2>1, <3>1, <3>2, TicketsFinite DEF OpenInv
    <3> HIDE DEF restorable
    <3> QED BY <3>2, <3>3, FS_Subset
  <2> QED BY <1>1, <2>1
<1>4. files' = [k \in Tickets |-> IF k \in OpenTickets THEN files[k] ELSE NoState]
  BY DEF OnInit
<1>5. slots' = [k \in Tickets |-> IF k \in OpenTickets THEN files[k] ELSE NoState]
  BY <1>1, <1>3 DEF Saved
<1> QED BY <1>4, <1>5

LEMMA OnInitHalving ==
    ASSUME MaxPositions <= MaxPos, OpenInv, HalvingInv, OnInit,
           \/ pc = "idle" /\ slips' = slips
           \/ slips' = slips + 1
    PROVE  HalvingInv'
<1>1. /\ slots' = files'
      /\ files' = [k \in Tickets |-> IF k \in OpenTickets THEN files[k] ELSE NoState]
      /\ UNCHANGED <<positions, halvings>> /\ events' = {} /\ pc' = "idle"
  BY AllRestored DEF OnInit, Goto
<1>2. NoState \in StateType
  BY DEF NoState, StateType
<1>3. SlotsTyped'
  BY <1>1, <1>2 DEF HalvingInv, SlotsTyped
<1>4. \A k \in Tickets :
         /\ Recording(k)' = 0 /\ slips + Recording(k) <= slips'
         /\ Saved(k)' => Saved(k) /\ files'[k] = files[k]
         /\ Managed(k)' = Saved(k)'
         /\ Known(files[k]) \in Nat
  BY <1>1, <1>3 DEF HalvingInv, SlotsTyped, Recording, Saved, Managed, Known
<1>5. FilesKnow' /\ SlotsKnow'
  <2> SUFFICES ASSUME NEW k \in Tickets, Saved(k)'
               PROVE  halvings'[k] <= slips' + Known(files'[k]) + Recording(k)'
    BY <1>1, <1>4 DEF FilesKnow, SlotsKnow
  <2>1. Recording(k) \in Nat
    BY DEF Recording
  <2> QED BY <1>1, <1>3, <1>4, <2>1 DEF HalvingInv, FilesKnow, SlotsTyped
<1>6. InHand' /\ ClosedSwept'
  BY <1>1 DEF InHand, Hand, ClosedSwept
<1>7. UnusedBlank' /\ SavedIsManaged'
  BY <1>1, <1>4 DEF HalvingInv, UnusedBlank, SavedIsManaged, OpenTickets, OpenIn
<1> QED BY <1>3, <1>5, <1>6, <1>7 DEF HalvingInv

LEMMA HalvingInvNext ==
    ASSUME MaxPositions <= MaxPos, RiskInv, OpenInv, HalvingInv, [Next]_vars
    PROVE  HalvingInv'
<1> USE DEF brokerVars, loopVars, countVars, Goto, NothingInHand, Hand, StatesKept
<1>0. slips \in Nat
  BY DEF HalvingInv, SlotsTyped
<1>1. CASE UNCHANGED <<positions, events, files, slots, pc, at, todo, halvings, slips>>
  BY <1>1 DEF HalvingInv, SlotsTyped, SlotsKnow, FilesKnow, InHand, UnusedBlank,
              SavedIsManaged, ClosedSwept, Managed, Saved, Recording, OpenTickets, OpenIn, Closed
<1>2. CASE NoSignal
  BY <1>0, <1>2, HalvingFrame DEF NoSignal
<1>3. ASSUME NEW t \in Trades, DiscardSignal(t) PROVE HalvingInv'
  BY <1>0, <1>3, HalvingFrame DEF DiscardSignal, DeleteSignal, Fault
<1>4. ASSUME NEW t \in Trades, SendOrder(t) PROVE HalvingInv'
  BY <1>4, SendOrderHalving
<1>5. CASE AllocSlot
  BY <1>5, AllocSlotHalving
<1>6. CASE SaveSlot
  BY <1>6, SaveSlotHalving
<1>7. CASE MarkProcessed
  BY <1>0, <1>7, HalvingFrame DEF MarkProcessed
<1>8. CASE DeleteFilled
  BY <1>0, <1>8, HalvingFrame DEF DeleteFilled, DeleteSignal, Fault
<1>9. ASSUME NEW k \in Tickets, LookAt(k) PROVE HalvingInv'
  <2>1. pc = "manage" /\ pc' \in {"manage", "break_even"}
    BY <1>9 DEF LookAt
  <2> QED BY <1>0, <1>9, <2>1, HalvingFrame DEF LookAt
<1>10. CASE BreakEven \/ Trail
  <2>1. \E due, stop : MoveStop(due, stop)
    BY <1>10 DEF BreakEven, Trail
  <2>2. StatesKept
    BY <2>1, MoveStopKeepsStates
  <2> QED BY <1>0, <1>10, <2>2, HalvingFrame DEF BreakEven, Trail
<1>11. CASE ClosePartial
  BY <1>11, ClosePartialHalving
<1>12. CASE KeepVolume
  BY <1>0, <1>12, HalvingFrame DEF KeepVolume
<1>13. CASE RecordPartial
  BY <1>13, RecordPartialHalving
<1>14. CASE ManageDone
  <2>1. todo' \subseteq Closed
    <3> SUFFICES ASSUME NEW k \in Tickets, k \notin OpenTickets, Managed(k) \/ Saved(k)
                 PROVE  k \in Closed
      BY <1>14 DEF ManageDone
    <3>1. positions[k].state # "none" /\ positions[k].state # "open"
      BY DEF HalvingInv, UnusedBlank, OpenTickets, OpenIn
    <3>2. positions[k].state \in {"none", "open", "closed"}
      BY DEF RiskInv, PositionsTyped, PositionType
    <3> QED BY <3>1, <3>2 DEF Closed
  <2> QED BY <1>0, <1>14, <2>1, HalvingFrame DEF ManageDone
<1>15. ASSUME NEW k \in Tickets, Sweep(k) PROVE HalvingInv'
  BY <1>15, FinalizeHalving DEF Sweep, HalvingInv, ClosedSwept
<1>16. CASE SweepDone
  BY <1>0, <1>16, HalvingFrame DEF SweepDone
<1>17. ASSUME NEW k \in Tickets, OnTradeTransaction(k) PROVE HalvingInv'
  BY <1>17, FinalizeHalving DEF OnTradeTransaction, HalvingInv, ClosedSwept
<1>18. ASSUME NEW k \in Tickets, ClosePosition(k) PROVE HalvingInv'
  BY <1>18, ClosePositionHalving
<1>19. ASSUME NEW k \in Tickets, EngineReads(k) PROVE HalvingInv'
  BY <1>1, <1>19 DEF EngineReads
<1>20. CASE Restart
  BY <1>20, OnInitHalving DEF Restart
<1>21. CASE Killed
  BY <1>21, OnInitHalving DEF Killed, Slip
<1>22. CASE UNCHANGED vars
  BY <1>1, <1>22 DEF vars
<1> QED
  BY <1>2, <1>3, <1>4, <1>5, <1>6, <1>7, <1>8, <1>9, <1>10, <1>11, <1>12, <1>13, <1>14,
     <1>15, <1>16, <1>17, <1>18, <1>19, <1>20, <1>21, <1>22 DEF Next, OnTimer

(* The three hold together.                                                 *)
ManagedInv == RiskInv /\ OpenInv /\ HalvingInv

LEMMA ManagedInvariant == ASSUME MaxPositions <= MaxPos PROVE Spec => []ManagedInv
<1>1. Init => ManagedInv
  BY RiskInvInit, OpenInvInit, HalvingInvInit DEF ManagedInv
<1>2. ManagedInv /\ [Next]_vars => ManagedInv'
  BY RiskInvNext, OpenInvNext, HalvingInvNext DEF ManagedInv
<1> QED BY <1>1, <1>2, PTL DEF Spec

(* A managed position is halved once and once more for each kill or failed  *)
(* write, for all modes, prices and moments of a close, as long as the EA   *)
(* has a slot for each position the envelope allows (FX_Execution.mq5:      *)
(* 280-297, 877-980).                                                       *)
THEOREM HalvedWithinSlipsHolds == MaxPositions <= MaxPos /\ Spec => []HalvedWithinSlips
<1> SUFFICES ASSUME MaxPositions <= MaxPos PROVE Spec => []HalvedWithinSlips
  OBVIOUS
<1>1. Spec => []ManagedInv
  BY ManagedInvariant
<1>2. HalvingInv => HalvedWithinSlips
  <2> SUFFICES ASSUME HalvingInv, NEW k \in ManagedTickets
               PROVE  halvings[k] <= 1 + slips
    BY DEF HalvedWithinSlips
  <2>1. k \in Tickets /\ Managed(k)
    BY DEF ManagedTickets
  <2>2. Recording(k) = 0 \/ (Recording(k) = 1 /\ Known(slots[k]) = 0)
    BY DEF Recording, Known, HalvingInv, InHand
  <2>3. Known(slots[k]) \in {0, 1} /\ slips \in Nat /\ halvings[k] \in Nat
    BY <2>1 DEF Known, HalvingInv, SlotsTyped
  <2> QED BY <2>1, <2>2, <2>3 DEF HalvingInv, SlotsKnow
<1>3. ManagedInv => HalvingInv
  BY DEF ManagedInv
<1> QED BY <1>1, <1>2, <1>3, PTL
-----------------------------------------------------------------------------
(* As many ids are in the ring, or about to enter it, as positions were     *)
(* opened at most: a ring with room for all forgets none.                   *)
Held == {"slot", "save", "mark"}
Opened == {k \in Tickets : positions[k].state # "none"}
Remembered(t) == IsProcessed(t) \/ (pc \in Held /\ positions[at].trade = t)

FillsTyped ==
    /\ fills \in [Trades -> Nat] /\ restarts \in Nat /\ slips \in Nat
    /\ processed \in Seq(Trades \cup {"none"})
    /\ pc \in Held => at \in Tickets
RingHasRoom == Len(processed) + (IF pc \in Held THEN 1 ELSE 0) <= Cardinality(Opened)
FillsRemembered ==
    \A t \in Trades : fills[t] <= restarts + slips + (IF Remembered(t) THEN 1 ELSE 0)

FillInv == FillsTyped /\ RingHasRoom /\ FillsRemembered

LEMMA OpenedFinite ==
    IsFiniteSet(Opened) /\ Cardinality(Opened) \in Nat /\ Cardinality(Opened) <= MaxTickets
<1>1. MaxTickets \in Nat
  BY ManagementAssumption DEF ManagementAssumption
<1>2. IsFiniteSet(Tickets) /\ Cardinality(Tickets) = MaxTickets
  BY <1>1, FS_Interval DEF Tickets
<1>3. Opened \subseteq Tickets
  BY DEF Opened
<1> QED BY <1>2, <1>3, FS_Subset, FS_CardinalityType

LEMMA FillInvInit == Init => FillInv
<1> SUFFICES ASSUME Init PROVE FillInv
  OBVIOUS
<1>1. FillsTyped
  BY DEF Init, FillsTyped, Held
<1>2. RingHasRoom
  BY OpenedFinite DEF Init, RingHasRoom, Held
<1>3. FillsRemembered
  BY DEF Init, FillsRemembered, Remembered
<1> QED BY <1>1, <1>2, <1>3 DEF FillInv

LEMMA FillFrame ==
    ASSUME FillInv, StatesKept, \A k \in Tickets : positions'[k].trade = positions[k].trade,
           UNCHANGED <<fills, processed>>,
           restarts' = restarts, slips' \in Nat, slips' >= slips,
           pc' \in Held <=> pc \in Held, pc \in Held => at' = at
    PROVE  FillInv'
<1>1. Opened' = Opened
  BY DEF StatesKept, Opened
<1>2. FillsTyped'
  BY DEF FillInv, FillsTyped
<1>3. RingHasRoom'
  BY <1>1 DEF FillInv, RingHasRoom
<1>4. \A t \in Trades : Remembered(t)' <=> Remembered(t)
  BY DEF FillInv, FillsTyped, Remembered, IsProcessed
<1>5. FillsRemembered'
  BY <1>2, <1>4 DEF FillInv, FillsTyped, FillsRemembered
<1> QED BY <1>2, <1>3, <1>5 DEF FillInv

LEMMA SendOrderFills ==
    ASSUME RiskInv, FillInv, NEW t \in Trades, SendOrder(t) PROVE FillInv'
<1>1. NextTicket \in Tickets /\ NextTicket \notin Opened
  BY NextTicketUnused DEF SendOrder, Unused, NoPosition, Opened
<1>2. /\ at' = NextTicket /\ pc = "idle" /\ pc' = "slot" /\ ~IsProcessed(t)
      /\ fills' = [fills EXCEPT ![t] = @ + 1]
      /\ UNCHANGED <<processed, slips, restarts>>
  BY DEF SendOrder, Goto, countVars
<1>3. /\ positions'[NextTicket].state = "open" /\ positions'[NextTicket].trade = t
      /\ \A k \in Tickets : k # NextTicket => positions'[k] = positions[k]
  BY <1>1 DEF SendOrder, RiskInv, PositionsTyped
<1>4. Opened' = Opened \cup {NextTicket}
  BY <1>1, <1>3 DEF Opened
<1>5. Cardinality(Opened') = Cardinality(Opened) + 1
  BY <1>1, <1>4, OpenedFinite, FS_AddElement
<1>6. FillsTyped'
  BY <1>1, <1>2 DEF FillInv, FillsTyped
<1>7. RingHasRoom'
  BY <1>2, <1>5, OpenedFinite DEF FillInv, FillsTyped, RingHasRoom, Held
<1>8. FillsRemembered'
  <2> SUFFICES ASSUME NEW u \in Trades
               PROVE  fills'[u] <= restarts + slips + (IF Remembered(u)' THEN 1 ELSE 0)
    BY <1>2 DEF FillsRemembered
  <2>1. CASE u = t
    BY <1>2, <1>3, <2>1 DEF FillInv, FillsTyped, FillsRemembered, Remembered, Held
  <2>2. CASE u # t
    <3>1. fills'[u] = fills[u] /\ (Remembered(u)' <=> Remembered(u))
      BY <1>2, <1>3, <2>2 DEF FillInv, FillsTyped, Remembered, IsProcessed, Held
    <3> QED BY <3>1 DEF FillInv, FillsRemembered
  <2> QED BY <2>1, <2>2
<1> QED BY <1>6, <1>7, <1>8 DEF FillInv

LEMMA MarkProcessedFills ==
    ASSUME MaxTickets <= RingSize, RiskInv, FillInv, MarkProcessed PROVE FillInv'
<1>1. /\ pc = "mark" /\ pc' = "delete" /\ at \in Tickets
      /\ processed' = LastOf(Append(processed, positions[at].trade), RingSize)
      /\ UNCHANGED <<positions, fills, slips, restarts, at>>
  BY DEF MarkProcessed, FillInv, FillsTyped, Held, Goto, brokerVars, countVars
<1>2. positions[at].trade \in Trades \cup {"none"} /\ processed \in Seq(Trades \cup {"none"})
  BY <1>1 DEF RiskInv, PositionsTyped, PositionType, FillInv, FillsTyped
<1>3. MaxTickets \in Nat /\ RingSize \in Nat
  BY ManagementAssumption DEF ManagementAssumption
<1>4. Len(processed) + 1 <= Cardinality(Opened)
  BY <1>1 DEF FillInv, RingHasRoom, Held
<1>5. Len(Append(processed, positions[at].trade)) = Len(processed) + 1
  BY <1>2
<1>6. processed' = Append(processed, positions[at].trade)
  <2>1. Len(processed) \in Nat
    BY <1>2
  <2>2. Len(processed) + 1 <= RingSize
    BY <1>3, <1>4, <2>1, OpenedFinite
  <2> QED BY <1>1, <1>5, <2>2 DEF LastOf
<1>7. FillsTyped'
  BY <1>1, <1>2, <1>6 DEF FillInv, FillsTyped, Held
<1>8. RingHasRoom'
  <2>1. Opened' = Opened
    BY <1>1 DEF Opened
  <2> QED BY <1>1, <1>2, <1>4, <1>5, <1>6, <2>1 DEF RingHasRoom, Held
<1>9. \A t \in Trades : Remembered(t) => Remembered(t)'
  <2> SUFFICES ASSUME NEW t \in Trades, IsProcessed(t) \/ positions[at].trade = t
               PROVE  IsProcessed(t)'
    BY <1>1 DEF Remembered
  <2>1. CASE IsProcessed(t)
    BY <1>2, <1>6, <2>1 DEF IsProcessed
  <2>2. CASE positions[at].trade = t
    <3>1. processed'[Len(processed) + 1] = t /\ Len(processed) + 1 \in DOMAIN processed'
      BY <1>2, <1>6, <2>2
    <3> QED BY <3>1 DEF IsProcessed
  <2> QED BY <2>1, <2>2
<1>10. FillsRemembered'
  BY <1>1, <1>9 DEF FillInv, FillsTyped, FillsRemembered
<1> QED BY <1>7, <1>8, <1>10 DEF FillInv

(* A restart forgets the ring, and is counted.                              *)
LEMMA OnInitFills ==
    ASSUME FillInv, OnInit,
           \/ restarts' = restarts + 1 /\ slips' = slips
           \/ restarts' = restarts /\ slips' = slips + 1
    PROVE  FillInv'
<1>1. processed' = <<>> /\ pc' = "idle" /\ UNCHANGED <<positions, fills>>
  BY DEF OnInit, Goto
<1>2. FillsTyped'
  BY <1>1 DEF FillInv, FillsTyped, Held
<1>3. RingHasRoom'
  <2>1. Opened' = Opened
    BY <1>1 DEF Opened
  <2> QED BY <1>1, <2>1, OpenedFinite DEF RingHasRoom, Held
<1>4. \A t \in Trades : fills'[t] <= restarts' + slips'
  BY <1>1 DEF FillInv, FillsTyped, FillsRemembered
<1>5. FillsRemembered'
  BY <1>2, <1>4 DEF FillsTyped, FillsRemembered
<1> QED BY <1>2, <1>3, <1>5 DEF FillInv

LEMMA FillInvNext ==
    ASSUME MaxTickets <= RingSize, RiskInv, FillInv, [Next]_vars PROVE FillInv'
<1> USE DEF brokerVars, loopVars, countVars, Goto, NothingInHand, Held, StatesKept
<1>0. slips \in Nat /\ restarts \in Nat
  BY DEF FillInv, FillsTyped
<1>1. ASSUME UNCHANGED <<positions, fills, processed, restarts>>, slips' \in Nat, slips' >= slips,
             pc' \in Held <=> pc \in Held, pc \in Held => at' = at
      PROVE  FillInv'
  BY <1>1, FillFrame
<1>2. CASE NoSignal
  BY <1>0, <1>1, <1>2 DEF NoSignal
<1>3. ASSUME NEW t \in Trades, DiscardSignal(t) PROVE FillInv'
  BY <1>0, <1>1, <1>3 DEF DiscardSignal, DeleteSignal, Fault
<1>4. ASSUME NEW t \in Trades, SendOrder(t) PROVE FillInv'
  BY <1>4, SendOrderFills
<1>5. CASE AllocSlot
  BY <1>0, <1>1, <1>5 DEF AllocSlot
<1>6. CASE SaveSlot
  BY <1>0, <1>1, <1>6 DEF SaveSlot, WriteState, Slip
<1>7. CASE MarkProcessed
  BY <1>7, MarkProcessedFills
<1>8. CASE DeleteFilled
  BY <1>0, <1>1, <1>8 DEF DeleteFilled, DeleteSignal, Fault
<1>9. ASSUME NEW k \in Tickets, LookAt(k) PROVE FillInv'
  <2>1. pc = "manage" /\ pc' \in {"manage", "break_even"}
    BY <1>9 DEF LookAt
  <2> QED BY <1>0, <1>1, <1>9, <2>1 DEF LookAt
<1>10. CASE BreakEven \/ ClosePartial \/ Trail
  <2>1. \A k \in Tickets : /\ positions'[k].state = positions[k].state
                           /\ positions'[k].trade = positions[k].trade
    <3>1. CASE \E due, stop : MoveStop(due, stop)
      BY <3>1, MoveStopKeepsStates DEF StatesKept
    <3>2. CASE ClosePartial
      BY <3>2 DEF ClosePartial, RiskInv, PositionsTyped
    <3>3. BreakEven \/ Trail => \E due, stop : MoveStop(due, stop)
      BY DEF BreakEven, Trail
    <3> QED BY <1>10, <3>1, <3>2, <3>3
  <2> QED BY <1>0, <1>10, <2>1, FillFrame DEF BreakEven, ClosePartial, Trail
<1>11. CASE KeepVolume
  BY <1>0, <1>1, <1>11 DEF KeepVolume
<1>12. CASE RecordPartial
  BY <1>0, <1>1, <1>12 DEF RecordPartial, WriteState, Slip
<1>13. CASE ManageDone
  BY <1>0, <1>1, <1>13 DEF ManageDone
<1>14. ASSUME NEW k \in Tickets, Sweep(k) PROVE FillInv'
  BY <1>0, <1>1, <1>14 DEF Sweep, Finalize, Fault, Slip
<1>15. CASE SweepDone
  BY <1>0, <1>1, <1>15 DEF SweepDone
<1>16. ASSUME NEW k \in Tickets, OnTradeTransaction(k) PROVE FillInv'
  BY <1>0, <1>1, <1>16 DEF OnTradeTransaction, Finalize, Fault, Slip
<1>17. ASSUME NEW k \in Tickets, ClosePosition(k) PROVE FillInv'
  <2>1. \A j \in Tickets : /\ positions'[j].trade = positions[j].trade
                           /\ positions'[j].state = IF j = k THEN "closed"
                                                    ELSE positions[j].state
    BY <1>17 DEF ClosePosition, RiskInv, PositionsTyped
  <2>2. Opened' = Opened
    BY <1>17, <2>1 DEF Opened, ClosePosition, OpenTickets, OpenIn
  <2>3. \A t \in Trades : Remembered(t)' <=> Remembered(t)
    BY <1>17, <2>1 DEF ClosePosition, FillInv, FillsTyped, Remembered, IsProcessed
  <2> QED BY <1>17, <2>2, <2>3
          DEF ClosePosition, FillInv, FillsTyped, RingHasRoom, FillsRemembered
<1>18. ASSUME NEW k \in Tickets, EngineReads(k) PROVE FillInv'
  BY <1>0, <1>1, <1>18 DEF EngineReads
<1>19. CASE Restart
  BY <1>19, OnInitFills DEF Restart
<1>20. CASE Killed
  BY <1>20, OnInitFills DEF Killed, Slip
<1>21. CASE UNCHANGED vars
  BY <1>0, <1>1, <1>21 DEF vars
<1> QED
  BY <1>2, <1>3, <1>4, <1>5, <1>6, <1>7, <1>8, <1>9, <1>10, <1>11, <1>12, <1>13, <1>14,
     <1>15, <1>16, <1>17, <1>18, <1>19, <1>20, <1>21 DEF Next, OnTimer

(* One signal is filled once and once more for each time the EA lost its    *)
(* memory, whatever files stay and positions close, as long as the ring has *)
(* room for all that were opened (FX_Execution.mq5:27-37, 1060-1065, 1262). *)
THEOREM FillsWithinRestartsHolds ==
    MaxTickets <= RingSize /\ Spec => []FillsWithinRestarts
<1> SUFFICES ASSUME MaxTickets <= RingSize PROVE Spec => []FillsWithinRestarts
  OBVIOUS
<1>1. Init => RiskInv /\ FillInv
  BY RiskInvInit, FillInvInit
<1>2. RiskInv /\ FillInv /\ [Next]_vars => (RiskInv /\ FillInv)'
  BY RiskInvNext, FillInvNext
<1>3. FillInv => FillsWithinRestarts
  BY DEF FillInv, FillsTyped, FillsRemembered, FillsWithinRestarts
<1> QED BY <1>1, <1>2, <1>3, PTL DEF Spec

-----------------------------------------------------------------------------
(* A new position finds a slot: between two handlers the slots in use are   *)
(* at most those of the positions that were open when the sweep began, and  *)
(* one for each exit that could not be reported yet.                        *)
SlotsFree ==
    /\ faults \in 0..MaxFaults
    /\ pc \in {"idle", "slot"} => Cardinality(ManagedTickets) <= MaxPositions + faults
    /\ pc = "sweep" => Cardinality(ManagedTickets \ todo) <= MaxPositions + faults

LEMMA SlotsFreeInit == Init => SlotsFree
<1> SUFFICES ASSUME Init PROVE SlotsFree
  OBVIOUS
<1>1. ManagedTickets = {} /\ pc = "idle" /\ faults = 0
  BY DEF Init, ManagedTickets, Managed
<1> QED BY <1>1, FS_EmptySet, TicketsFinite DEF SlotsFree

LEMMA FaultsBounded ==
    ASSUME SlotsFree, [Next]_vars
    PROVE  faults' \in 0..MaxFaults /\ faults' >= faults
<1>1. \/ faults' = faults
      \/ faults < MaxFaults /\ faults' = faults + 1
  BY DEF Next, OnTimer, vars, countVars, NoSignal, DiscardSignal, DeleteSignal, SendOrder,
         AllocSlot, SaveSlot, WriteState, MarkProcessed, DeleteFilled, LookAt, BreakEven,
         ClosePartial, KeepVolume, RecordPartial, Trail, ManageDone, Sweep, SweepDone, Finalize,
         OnTradeTransaction, ClosePosition, EngineReads, Restart, Killed, Fault, Slip
<1> QED BY <1>1, TicketsFinite DEF SlotsFree

(* The sets the invariant counts grow by the exit that is not reported.     *)
LEMMA FinalizeSlots ==
    ASSUME HalvingInv, NEW k \in Tickets, Finalize(k)
    PROVE  /\ ManagedTickets' \subseteq ManagedTickets
           /\ k \in ManagedTickets' => faults' = faults + 1
<1>1. \/ slots' = [slots EXCEPT ![k] = NoState]
      \/ slots' = slots /\ faults' = faults + 1
  BY DEF Finalize, Fault
<1>2. CASE slots' = slots
  BY <1>1, <1>2 DEF ManagedTickets, Managed, HalvingInv, SlotsTyped
<1>3. CASE slots' = [slots EXCEPT ![k] = NoState]
  <2>1. \A j \in Tickets : slots'[j] = IF j = k THEN NoState ELSE slots[j]
    BY <1>3 DEF HalvingInv, SlotsTyped
  <2> QED BY <2>1 DEF ManagedTickets, Managed
<1> QED BY <1>1, <1>2, <1>3

LEMMA SlotsFreeNext ==
    ASSUME MaxPositions <= MaxPos, ManagedInv, SlotsFree, [Next]_vars
    PROVE  SlotsFree'
<1> USE DEF Goto, countVars, brokerVars, loopVars
<1>0. RiskInv /\ OpenInv /\ HalvingInv
  BY DEF ManagedInv
<1>1. faults' \in 0..MaxFaults /\ faults' >= faults /\ faults \in 0..MaxFaults
  BY FaultsBounded DEF SlotsFree
<1>2. /\ ManagedTickets \in SUBSET Tickets /\ ManagedTickets' \in SUBSET Tickets
      /\ ManagedTickets \ todo \in SUBSET Tickets /\ (ManagedTickets \ todo)' \in SUBSET Tickets
  BY DEF ManagedTickets, Tickets
<1>3. /\ Cardinality(ManagedTickets) \in Nat /\ Cardinality(ManagedTickets') \in Nat
      /\ Cardinality(ManagedTickets \ todo) \in Nat
      /\ Cardinality((ManagedTickets \ todo)') \in Nat
  BY <1>2, TicketsFinite
<1>4. ASSUME UNCHANGED <<slots, pc, todo>> PROVE SlotsFree'
  <2>1. ManagedTickets' = ManagedTickets
    BY <1>4 DEF ManagedTickets, Managed, Tickets
  <2> QED BY <1>1, <1>3, <1>4, <2>1, TicketsFinite DEF SlotsFree
<1>5. ASSUME pc' \notin {"idle", "slot", "sweep"} PROVE SlotsFree'
  BY <1>1, <1>5 DEF SlotsFree
<1>6. ASSUME NEW t \in Trades, SendOrder(t) PROVE SlotsFree'
  <2>1. pc = "idle" /\ pc' = "slot" /\ slots' = slots
    BY <1>6 DEF SendOrder
  <2>2. ManagedTickets' = ManagedTickets
    BY <2>1 DEF ManagedTickets, Managed, Tickets
  <2> QED BY <1>1, <1>3, <2>1, <2>2, TicketsFinite DEF SlotsFree
<1>7. CASE ManageDone
  <2>1. /\ pc' = "sweep" /\ slots' = slots
        /\ todo' = {k \in Tickets \ OpenTickets : Managed(k) \/ Saved(k)}
    BY <1>7 DEF ManageDone
  <2>2. (ManagedTickets \ todo)' \in SUBSET OpenTickets
    BY <2>1 DEF ManagedTickets, Managed, Tickets
  <2>3. Cardinality((ManagedTickets \ todo)') <= Cardinality(OpenTickets)
    BY <2>2, SmallerSet, TicketsFinite
  <2>4. Cardinality((ManagedTickets \ todo)') <= MaxPositions
    BY <1>0, <1>3, <2>3, TicketsFinite DEF OpenInv
  <2> QED BY <1>1, <1>3, <2>1, <2>4, TicketsFinite DEF SlotsFree
<1>8. ASSUME NEW k \in Tickets, Sweep(k) PROVE SlotsFree'
  <2>1. pc = "sweep" /\ pc' = "sweep" /\ todo' = todo \ {k} /\ Finalize(k)
    BY <1>8 DEF Sweep
  <2>2. /\ ManagedTickets' \subseteq ManagedTickets
        /\ k \in ManagedTickets' => faults' = faults + 1
    BY <1>0, <2>1, FinalizeSlots
  <2>3. Cardinality(ManagedTickets \ todo) <= MaxPositions + faults
    BY <2>1 DEF SlotsFree
  <2>4. CASE k \in ManagedTickets'
    <3>1. (ManagedTickets \ todo)' \in SUBSET ((ManagedTickets \ todo) \cup {k})
      BY <2>1, <2>2
    <3>2. Cardinality((ManagedTickets \ todo)') <= Cardinality(ManagedTickets \ todo) + 1
      BY <1>2, <3>1, OneMore
    <3> QED BY <1>1, <1>3, <2>1, <2>2, <2>3, <2>4, <3>2, TicketsFinite DEF SlotsFree
  <2>5. CASE k \notin ManagedTickets'
    <3>1. (ManagedTickets \ todo)' \in SUBSET (ManagedTickets \ todo)
      BY <2>1, <2>2, <2>5
    <3>2. Cardinality((ManagedTickets \ todo)') <= Cardinality(ManagedTickets \ todo)
      BY <1>2, <3>1, SmallerSet
    <3> QED BY <1>1, <1>3, <2>1, <2>3, <3>2, TicketsFinite DEF SlotsFree
  <2> QED BY <2>4, <2>5
<1>9. CASE SweepDone
  <2>1. pc = "sweep" /\ todo = {} /\ pc' = "idle" /\ slots' = slots
    BY <1>9 DEF SweepDone
  <2>2. ManagedTickets' = ManagedTickets \ todo
    BY <2>1 DEF ManagedTickets, Managed, Tickets
  <2> QED BY <1>1, <1>3, <2>1, <2>2, TicketsFinite DEF SlotsFree
<1>10. ASSUME NEW k \in Tickets, OnTradeTransaction(k) PROVE SlotsFree'
  <2>1. pc = "idle" /\ pc' = "idle" /\ Finalize(k)
    BY <1>10 DEF OnTradeTransaction
  <2>2. Cardinality(ManagedTickets') <= Cardinality(ManagedTickets)
    BY <1>0, <1>2, <2>1, FinalizeSlots, SmallerSet
  <2> QED BY <1>1, <1>3, <2>1, <2>2, TicketsFinite DEF SlotsFree
<1>11. CASE Restart \/ Killed
  <2>1. OnInit /\ pc' = "idle"
    BY <1>11 DEF Restart, Killed, OnInit
  <2>2. slots' = files' /\ files' = [k \in Tickets |-> IF k \in OpenTickets THEN files[k]
                                                        ELSE NoState]
    BY <1>0, <2>1, AllRestored DEF OnInit
  <2>3. ManagedTickets' \in SUBSET OpenTickets
    BY <2>2 DEF ManagedTickets, Managed, Tickets
  <2>4. Cardinality(ManagedTickets') <= Cardinality(OpenTickets)
    BY <2>3, SmallerSet, TicketsFinite
  <2>5. Cardinality(ManagedTickets') <= MaxPositions
    BY <1>0, <1>3, <2>4, TicketsFinite DEF OpenInv
  <2> QED BY <1>1, <1>3, <2>1, <2>5, TicketsFinite DEF SlotsFree
<1>12. CASE UNCHANGED vars
  BY <1>4, <1>12 DEF vars
<1>13. ASSUME NEW k \in Tickets, ClosePosition(k) \/ EngineReads(k) PROVE SlotsFree'
  BY <1>4, <1>13 DEF ClosePosition, EngineReads
<1>14. CASE NoSignal \/ (\E t \in Trades : DiscardSignal(t)) \/ DeleteFilled
  BY <1>5, <1>14 DEF NoSignal, DiscardSignal, DeleteFilled
<1>15. CASE AllocSlot \/ SaveSlot \/ MarkProcessed
  BY <1>5, <1>15 DEF AllocSlot, SaveSlot, MarkProcessed
<1>16. ASSUME NEW k \in Tickets, LookAt(k) PROVE SlotsFree'
  BY <1>5, <1>16 DEF LookAt
<1>17. CASE BreakEven \/ ClosePartial \/ KeepVolume \/ RecordPartial \/ Trail
  BY <1>5, <1>17 DEF BreakEven, ClosePartial, KeepVolume, RecordPartial, Trail
<1> QED
  BY <1>6, <1>7, <1>8, <1>9, <1>10, <1>11, <1>12, <1>13, <1>14, <1>15, <1>16, <1>17
     DEF Next, OnTimer
-----------------------------------------------------------------------------
(* The open positions the EA lost, or would lose in a restart; the one it   *)
(* has just opened is still in its hand.                                    *)
Lost ==
    {k \in OpenTickets : (~Managed(k) \/ ~Saved(k)) /\ ~(pc \in {"slot", "save"} /\ at = k)}

AtHand ==
    /\ pc = "slot" => ~Managed(at) /\ positions[at].distance # 0
    /\ pc = "save" => Managed(at)

UnmanagedInv == AtHand /\ Cardinality(Lost) <= slips

LEMMA LostFinite == Lost \in SUBSET Tickets /\ Cardinality(Lost) \in Nat
BY TicketsFinite DEF Lost

LEMMA UnmanagedInvInit == Init => UnmanagedInv
<1> SUFFICES ASSUME Init PROVE UnmanagedInv
  OBVIOUS
<1>1. Lost = {} /\ pc = "idle" /\ slips = 0
  BY DEF Init, Lost, OpenTickets, OpenIn, NoPosition
<1> QED BY <1>1, FS_EmptySet DEF UnmanagedInv, AtHand

(* Nothing is lost, or what is lost is paid for.                            *)
LEMMA UnmanagedFrame ==
    ASSUME HalvingInv, UnmanagedInv, AtHand', slips' \in Nat,
           \/ Lost' \subseteq Lost /\ slips' >= slips
           \/ at \in Tickets /\ Lost' \subseteq Lost \cup {at} /\ slips' = slips + 1
    PROVE  UnmanagedInv'
<1>1. Lost \in SUBSET Tickets /\ Cardinality(Lost) \in Nat /\ Cardinality(Lost) <= slips
      /\ slips \in Nat
  BY LostFinite DEF UnmanagedInv, HalvingInv, SlotsTyped
<1>2. CASE Lost' \subseteq Lost /\ slips' >= slips
  <2>1. Cardinality(Lost') <= Cardinality(Lost) /\ Lost' \in SUBSET Tickets
    BY <1>1, <1>2, SmallerSet
  <2>2. Cardinality(Lost') \in Nat
    BY <2>1, TicketsFinite
  <2> QED BY <1>1, <1>2, <2>1, <2>2 DEF UnmanagedInv
<1>3. CASE at \in Tickets /\ Lost' \subseteq Lost \cup {at} /\ slips' = slips + 1
  <2>1. Cardinality(Lost') <= Cardinality(Lost) + 1 /\ Lost' \in SUBSET Tickets
    BY <1>1, <1>3, OneMore
  <2>2. Cardinality(Lost') \in Nat
    BY <2>1, TicketsFinite
  <2> QED BY <1>1, <1>3, <2>1, <2>2 DEF UnmanagedInv
<1> QED BY <1>2, <1>3

(* Steps that lose no slot and no file of an open position.                 *)
LEMMA UnmanagedKept ==
    ASSUME HalvingInv, UnmanagedInv, AtHand', slips' \in Nat, slips' >= slips,
           OpenTickets' \subseteq OpenTickets,
           \A k \in OpenTickets : (Managed(k) => Managed(k)') /\ (Saved(k) => Saved(k)'),
           pc \notin {"slot", "save"} \/ UNCHANGED <<pc, at>>
    PROVE  UnmanagedInv'
<1>1. Lost' \subseteq Lost
  BY DEF Lost
<1> QED BY <1>1, UnmanagedFrame

LEMMA SendOrderUnmanaged ==
    ASSUME ManagedInv, UnmanagedInv, NEW t \in Trades, SendOrder(t) PROVE UnmanagedInv'
<1>0. RiskInv /\ HalvingInv
  BY DEF ManagedInv
<1>1. /\ NextTicket \in Tickets /\ positions[NextTicket].state = "none"
  BY NextTicketUnused DEF SendOrder, Unused, NoPosition
<1>2. /\ at' = NextTicket /\ pc = "idle" /\ pc' = "slot" /\ UNCHANGED <<slots, files, slips>>
  BY DEF SendOrder, Goto, countVars
<1>3. PICK d \in StopDistances, v \in Volumes :
          positions' = [positions EXCEPT ![NextTicket] =
              [state |-> "open", trade |-> t, stop |-> -d, volume |-> v,
               distance |-> d, filled |-> v]]
  BY DEF SendOrder
<1>4. d # 0
  BY ManagementAssumption DEF ManagementAssumption
<1>5. positions'[NextTicket].distance # 0
  BY <1>0, <1>1, <1>3, <1>4 DEF RiskInv, PositionsTyped
<1>6. ~Managed(NextTicket)
  BY <1>0, <1>1 DEF HalvingInv, UnusedBlank
<1>7. AtHand'
  BY <1>2, <1>5, <1>6 DEF AtHand, Managed
<1>8. \A k \in Tickets : k # NextTicket => positions'[k] = positions[k]
  BY <1>0, <1>1, <1>3 DEF RiskInv, PositionsTyped
<1>9. Lost' \subseteq Lost
  BY <1>2, <1>8 DEF Lost, OpenTickets, OpenIn, Managed, Saved, Tickets
<1> QED BY <1>0, <1>2, <1>7, <1>9, UnmanagedFrame DEF HalvingInv, SlotsTyped

LEMMA AllocSlotUnmanaged ==
    ASSUME MaxPositions + MaxFaults < MaxPos, ManagedInv, SlotsFree, UnmanagedInv, AllocSlot
    PROVE  UnmanagedInv'
<1>0. RiskInv /\ HalvingInv
  BY DEF ManagedInv
<1>1. /\ pc = "slot" /\ at \in Tickets /\ UNCHANGED <<positions, files, slips, at>>
  BY <1>0 DEF AllocSlot, HalvingInv, InHand, Hand, brokerVars, countVars
<1>2. Cardinality(ManagedTickets) < MaxPos
  <2>1. ManagedTickets \in SUBSET Tickets
    BY DEF ManagedTickets
  <2> QED BY <1>1, <2>1, TicketsFinite DEF SlotsFree
<1>3. /\ slots' = [slots EXCEPT ![at] = [distance |-> positions[at].distance, halved |-> FALSE]]
      /\ pc' = "save"
  BY <1>2 DEF AllocSlot, Goto
<1>4. positions[at].distance # 0
  BY <1>1 DEF UnmanagedInv, AtHand
<1>5. [distance |-> positions[at].distance, halved |-> FALSE] # NoState
  BY <1>4 DEF NoState
<1>6. /\ slots'[at] # NoState
      /\ \A k \in Tickets : k # at => slots'[k] = slots[k]
  BY <1>0, <1>1, <1>3, <1>5 DEF HalvingInv, SlotsTyped
<1>7. AtHand'
  BY <1>1, <1>3, <1>6 DEF AtHand, Managed
<1>8. Lost' \subseteq Lost
  BY <1>1, <1>3, <1>6 DEF Lost, OpenTickets, OpenIn, Managed, Saved, Tickets
<1> QED BY <1>0, <1>1, <1>7, <1>8, UnmanagedFrame DEF HalvingInv, SlotsTyped

(* A failed write leaves the new position without a file.                   *)
LEMMA SaveSlotUnmanaged ==
    ASSUME ManagedInv, UnmanagedInv, SaveSlot PROVE UnmanagedInv'
<1>0. RiskInv /\ HalvingInv
  BY DEF ManagedInv
<1>1. /\ pc = "save" /\ pc' = "mark" /\ at \in Tickets /\ Managed(at)
      /\ UNCHANGED <<positions, slots, at>>
  BY <1>0 DEF SaveSlot, HalvingInv, InHand, Hand, Goto, brokerVars, UnmanagedInv, AtHand
<1>2. AtHand'
  BY <1>1 DEF AtHand
<1>3. slips \in Nat
  BY <1>0 DEF HalvingInv, SlotsTyped
<1>4. CASE files' = [files EXCEPT ![at] = slots[at]] /\ slips' = slips
  <2>1. files'[at] # NoState /\ \A k \in Tickets : k # at => files'[k] = files[k]
    BY <1>0, <1>1, <1>4 DEF HalvingInv, SlotsTyped, Managed
  <2>2. Lost' \subseteq Lost
    BY <1>1, <2>1 DEF Lost, OpenTickets, OpenIn, Managed, Saved, Tickets
  <2> QED BY <1>0, <1>2, <1>3, <1>4, <2>2, UnmanagedFrame
<1>5. CASE files' = files /\ slips' = slips + 1
  <2>1. Lost' \subseteq Lost \cup {at}
    BY <1>1, <1>5 DEF Lost, OpenTickets, OpenIn, Managed, Saved, Tickets
  <2> QED BY <1>0, <1>1, <1>2, <1>3, <1>5, <2>1, UnmanagedFrame
<1> QED BY <1>4, <1>5 DEF SaveSlot, WriteState, Slip, countVars

LEMMA RecordPartialUnmanaged ==
    ASSUME ManagedInv, UnmanagedInv, RecordPartial PROVE UnmanagedInv'
<1>0. RiskInv /\ HalvingInv
  BY DEF ManagedInv
<1>1. /\ pc = "record" /\ pc' = "trail" /\ at \in Tickets
      /\ slots' = [slots EXCEPT ![at].halved = TRUE] /\ positions' = positions
  BY <1>0 DEF RecordPartial, HalvingInv, InHand, Goto, brokerVars
<1>2. slots'[at].halved /\ \A k \in Tickets : k # at => slots'[k] = slots[k]
  BY <1>0, <1>1 DEF HalvingInv, SlotsTyped, StateType
<1>3. slots'[at] # NoState
  BY <1>2 DEF NoState
<1>4. \A k \in Tickets : Managed(k) => Managed(k)'
  BY <1>2, <1>3 DEF Managed
<1>5. /\ files' = files \/ files' = [files EXCEPT ![at] = slots'[at]]
      /\ slips' \in Nat /\ slips' >= slips
  BY <1>0 DEF RecordPartial, WriteState, Slip, countVars, HalvingInv, SlotsTyped
<1>6. \A k \in Tickets : Saved(k) => Saved(k)'
  BY <1>0, <1>1, <1>3, <1>5 DEF Saved, HalvingInv, SlotsTyped
<1>7. OpenTickets' \subseteq OpenTickets /\ OpenTickets \subseteq Tickets
  BY <1>1 DEF OpenTickets, OpenIn
<1>8. AtHand'
  BY <1>1 DEF AtHand
<1> QED BY <1>0, <1>1, <1>4, <1>5, <1>6, <1>7, <1>8, UnmanagedKept

(* A closed position is forgotten.                                          *)
LEMMA FinalizeUnmanaged ==
    ASSUME ManagedInv, UnmanagedInv, NEW k \in Closed, Finalize(k),
           UNCHANGED <<positions, pc, at>>, pc \in {"idle", "sweep"}
    PROVE  UnmanagedInv'
<1>0. RiskInv /\ HalvingInv
  BY DEF ManagedInv
<1>1. /\ slots' = slots \/ slots' = [slots EXCEPT ![k] = NoState]
      /\ files' = files \/ files' = [files EXCEPT ![k] = NoState]
      /\ slips' \in Nat /\ slips' >= slips
  BY <1>0 DEF Finalize, Fault, Slip, countVars, HalvingInv, SlotsTyped
<1>2. \A j \in OpenTickets : slots'[j] = slots[j] /\ files'[j] = files[j]
  BY <1>0, <1>1 DEF HalvingInv, SlotsTyped, OpenTickets, OpenIn, Closed
<1>3. OpenTickets' = OpenTickets
  BY DEF OpenTickets, OpenIn
<1>4. AtHand'
  BY DEF AtHand
<1> QED BY <1>0, <1>1, <1>2, <1>3, <1>4, UnmanagedKept DEF Managed, Saved

LEMMA ClosePositionUnmanaged ==
    ASSUME ManagedInv, UnmanagedInv, NEW k \in Tickets, ClosePosition(k) PROVE UnmanagedInv'
<1>0. RiskInv /\ HalvingInv
  BY DEF ManagedInv
<1>1. UNCHANGED <<slots, files, pc, at, slips>>
  BY DEF ClosePosition, loopVars, countVars
<1>2. \A j \in Tickets : /\ positions'[j].state = IF j = k THEN "closed" ELSE positions[j].state
                         /\ positions'[j].distance = positions[j].distance
  BY <1>0 DEF ClosePosition, RiskInv, PositionsTyped
<1>3. OpenTickets' \subseteq OpenTickets
  BY <1>2 DEF OpenTickets, OpenIn
<1>4. pc = "slot" => at \in Tickets
  BY <1>0 DEF HalvingInv, InHand, Hand
<1>5. AtHand'
  BY <1>1, <1>2, <1>4 DEF UnmanagedInv, AtHand, Managed
<1> QED BY <1>0, <1>1, <1>3, <1>5, UnmanagedKept DEF Managed, Saved, HalvingInv, SlotsTyped

(* A kill loses at most the position at hand.                               *)
LEMMA OnInitUnmanaged ==
    ASSUME MaxPositions <= MaxPos, ManagedInv, UnmanagedInv, OnInit,
           \/ pc = "idle" /\ slips' = slips
           \/ slips' = slips + 1
    PROVE  UnmanagedInv'
<1>0. RiskInv /\ OpenInv /\ HalvingInv
  BY DEF ManagedInv
<1>1. /\ slots' = files' /\ pc' = "idle" /\ positions' = positions
      /\ files' = [k \in Tickets |-> IF k \in OpenTickets THEN files[k] ELSE NoState]
  BY <1>0, AllRestored DEF OnInit, Goto
<1>2. OpenTickets' = OpenTickets
  BY <1>1 DEF OpenTickets, OpenIn
<1>3. \A k \in OpenTickets : slots'[k] = files[k] /\ files'[k] = files[k]
  BY <1>1, TicketsFinite
<1>4. slips \in Nat /\ slips' \in Nat /\ slips' >= slips /\ AtHand'
  BY <1>0, <1>1 DEF HalvingInv, SlotsTyped, AtHand
<1>5. CASE pc \in {"slot", "save"}
  <2>1. at \in Tickets
    BY <1>0, <1>5 DEF HalvingInv, InHand, Hand
  <2>2. Lost' \subseteq Lost \cup {at}
    BY <1>1, <1>2, <1>3 DEF Lost, Managed, Saved
  <2> QED BY <1>0, <1>4, <1>5, <2>1, <2>2, UnmanagedFrame
<1>6. CASE pc \notin {"slot", "save"}
  <2>1. Lost' \subseteq Lost
    BY <1>1, <1>2, <1>3, <1>6 DEF Lost, Managed, Saved
  <2> QED BY <1>0, <1>4, <2>1, UnmanagedFrame
<1> QED BY <1>5, <1>6

LEMMA UnmanagedInvNext ==
    ASSUME MaxPositions + MaxFaults < MaxPos, ManagedInv, SlotsFree, UnmanagedInv, [Next]_vars
    PROVE  UnmanagedInv'
<1> USE DEF Goto, countVars, brokerVars, loopVars
<1>0. RiskInv /\ HalvingInv /\ slips \in Nat /\ MaxPositions <= MaxPos
  BY TicketsFinite DEF ManagedInv, HalvingInv, SlotsTyped
<1>1. ASSUME UNCHANGED <<slots, files, slips>>, StatesKept,
             pc \notin {"slot", "save"}, pc' \notin {"slot", "save"}
      PROVE  UnmanagedInv'
  <2>1. OpenTickets' \subseteq OpenTickets /\ AtHand'
    BY <1>1, KeptSets DEF AtHand
  <2> QED BY <1>0, <1>1, <2>1, UnmanagedKept DEF Managed, Saved
<1>2. ASSUME UNCHANGED <<positions, slots, files, slips, pc, at>> PROVE UnmanagedInv'
  <2>1. OpenTickets' \subseteq OpenTickets
    BY <1>2 DEF OpenTickets, OpenIn
  <2>2. AtHand'
    BY <1>2 DEF UnmanagedInv, AtHand, Managed
  <2> QED BY <1>0, <1>2, <2>1, <2>2, UnmanagedKept DEF Managed, Saved
<1>3. ASSUME NEW t \in Trades, SendOrder(t) PROVE UnmanagedInv'
  BY <1>3, SendOrderUnmanaged
<1>4. CASE AllocSlot
  BY <1>4, AllocSlotUnmanaged
<1>5. CASE SaveSlot
  BY <1>5, SaveSlotUnmanaged
<1>6. CASE RecordPartial
  BY <1>6, RecordPartialUnmanaged
<1>7. CASE NoSignal \/ (\E t \in Trades : DiscardSignal(t)) \/ MarkProcessed \/ DeleteFilled
  BY <1>1, <1>7 DEF NoSignal, DiscardSignal, DeleteSignal, Fault, MarkProcessed, DeleteFilled,
                    StatesKept
<1>8. ASSUME NEW k \in Tickets, LookAt(k) PROVE UnmanagedInv'
  BY <1>1, <1>8 DEF LookAt, StatesKept
<1>9. CASE BreakEven \/ Trail
  <2>1. \E due, stop : MoveStop(due, stop)
    BY <1>9 DEF BreakEven, Trail
  <2>2. StatesKept
    BY <1>0, <2>1, MoveStopKeepsStates
  <2> QED BY <1>1, <1>9, <2>2 DEF BreakEven, Trail
<1>10. CASE ClosePartial
  <2>1. StatesKept
    BY <1>0, <1>10 DEF ClosePartial, StatesKept, RiskInv, PositionsTyped
  <2> QED BY <1>1, <1>10, <2>1 DEF ClosePartial
<1>11. CASE KeepVolume \/ ManageDone \/ SweepDone
  BY <1>1, <1>11 DEF KeepVolume, ManageDone, SweepDone, StatesKept
<1>12. ASSUME NEW k \in Tickets, Sweep(k) PROVE UnmanagedInv'
  BY <1>0, <1>12, FinalizeUnmanaged DEF Sweep, HalvingInv, ClosedSwept
<1>13. ASSUME NEW k \in Tickets, OnTradeTransaction(k) PROVE UnmanagedInv'
  BY <1>0, <1>13, FinalizeUnmanaged DEF OnTradeTransaction, HalvingInv, ClosedSwept
<1>14. ASSUME NEW k \in Tickets, ClosePosition(k) PROVE UnmanagedInv'
  BY <1>14, ClosePositionUnmanaged
<1>15. ASSUME NEW k \in Tickets, EngineReads(k) PROVE UnmanagedInv'
  BY <1>2, <1>15 DEF EngineReads
<1>16. CASE Restart
  BY <1>0, <1>16, OnInitUnmanaged DEF Restart
<1>17. CASE Killed
  BY <1>0, <1>17, OnInitUnmanaged DEF Killed, Slip
<1>18. CASE UNCHANGED vars
  BY <1>2, <1>18 DEF vars
<1> QED
  BY <1>3, <1>4, <1>5, <1>6, <1>7, <1>8, <1>9, <1>10, <1>11, <1>12, <1>13, <1>14, <1>15, <1>16,
     <1>17, <1>18 DEF Next, OnTimer

(* Between two handlers an open position is without management only if a    *)
(* kill or a failed write took it, as long as the EA has a slot left when   *)
(* as many positions are open as the envelope allows and every fault keeps  *)
(* the slot of a closed one (FX_Execution.mq5:62-74, 806-860, 877-980).     *)
THEOREM UnmanagedWithinSlipsHolds ==
    MaxPositions + MaxFaults < MaxPos /\ Spec => []UnmanagedWithinSlips
<1> SUFFICES ASSUME MaxPositions + MaxFaults < MaxPos PROVE Spec => []UnmanagedWithinSlips
  OBVIOUS
<1>1. MaxPositions <= MaxPos
  BY TicketsFinite
<1>2. Spec => []ManagedInv
  BY <1>1, ManagedInvariant
<1>3. Init => SlotsFree /\ UnmanagedInv
  BY SlotsFreeInit, UnmanagedInvInit
<1>4. ManagedInv /\ SlotsFree /\ UnmanagedInv /\ [Next]_vars => SlotsFree' /\ UnmanagedInv'
  BY <1>1, SlotsFreeNext, UnmanagedInvNext
<1>5. ManagedInv /\ UnmanagedInv => UnmanagedWithinSlips
  <2> SUFFICES ASSUME HalvingInv, UnmanagedInv, pc = "idle"
               PROVE  Cardinality({k \in OpenTickets : ~Managed(k)}) <= slips
    BY DEF ManagedInv, UnmanagedWithinSlips
  <2> DEFINE bare == {k \in OpenTickets : ~Managed(k)}
  <2>1. bare \in SUBSET Lost
    BY DEF Lost
  <2>2. bare \in SUBSET Tickets
    BY TicketsFinite
  <2> HIDE DEF bare
  <2>3. Cardinality(bare) <= Cardinality(Lost) /\ Cardinality(bare) \in Nat
    BY <2>1, <2>2, LostFinite, SmallerSet, TicketsFinite
  <2>4. Cardinality(bare) <= slips
    BY <2>3, LostFinite DEF UnmanagedInv, HalvingInv, SlotsTyped
  <2> QED BY <2>4 DEF bare
<1> QED BY <1>2, <1>3, <1>4, <1>5, PTL DEF Spec
=============================================================================
