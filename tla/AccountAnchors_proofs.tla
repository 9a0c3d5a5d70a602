------------------------ MODULE AccountAnchors_proofs ------------------------
(***************************************************************************)
(* The drawdown stop holds for every set of equities, every limit and any  *)
(* number of days, restarts and exits, until a restarted process records   *)
(* an exit before its first refresh; so do the daily and the weekly stop,  *)
(* from the second pass of a restarted process on.                         *)
(***************************************************************************)
EXTENDS AccountAnchors, TLAPS

\* Without an early exit, the metrics row holds the true peak, and so does
\* memory, unless the process is fresh (0) or has just raised it.
PeakInv ==
    /\ pc \in {"consume", "refresh", "decide", "routed"}
    /\ halted \in BOOLEAN
    /\ earlyExit \in BOOLEAN
    /\ equity \in Nat \ {0}
    /\ seen \in Nat
    /\ peak \in Nat
    /\ truePeak \in Nat
    /\ crashes \in Nat
    /\ passes \in {0, 1}
    /\ saved.peak \in Nat
    /\ pc = "routed" => ~halted /\ drawdown < DrawdownLimit
    /\ ~earlyExit =>
          /\ saved.peak = truePeak
          /\ pc \in {"consume", "refresh"} =>
                peak = truePeak \/ (peak = 0 /\ crashes > 0 /\ passes = 0)
          /\ pc \in {"decide", "routed"} /\ halted => peak = truePeak
          /\ pc \in {"decide", "routed"} /\ ~halted =>
                /\ peak = (IF seen > truePeak THEN seen ELSE truePeak)
                /\ drawdown = LossFrom(peak, seen)

LEMMA PeakInvInit == Init => PeakInv
<1> SUFFICES ASSUME Init PROVE PeakInv
  OBVIOUS
<1>1. halted \in BOOLEAN /\ earlyExit \in BOOLEAN
  BY DEF Init
<1>2. equity \in Nat \ {0} /\ seen = 0 /\ peak = 0 /\ truePeak = 0 /\ saved.peak = 0
  BY AnchorsAssumption DEF Init
<1>3. crashes = 0 /\ passes = 0 /\ pc = "consume"
  BY DEF Init
<1>. QED
  BY <1>1, <1>2, <1>3 DEF PeakInv

LEMMA PeakInvNext ==
    ASSUME PeakInv, [Next]_vars
    PROVE  PeakInv'
<1> USE AnchorsAssumption DEF PeakInv
<1>1. CASE MoveEquity
  BY <1>1 DEF MoveEquity, memory, counters, truth
<1>2. CASE NextDay
  BY <1>2 DEF NextDay, memory, counters, truth
<1>3. CASE RecordExit
  <2>1. earlyExit' \in BOOLEAN
    BY <1>3 DEF RecordExit
  <2>2. ~earlyExit' => ~earlyExit /\ ~(crashes > 0 /\ passes = 0)
    BY <1>3 DEF RecordExit
  <2>3. /\ pc = "consume" /\ saved'.peak = peak
        /\ UNCHANGED <<equity, pc, seen, halted, peak, drawdown, passes, crashes, truePeak>>
    BY <1>3 DEF RecordExit, MetricsRow, memory, truth
  <2>. QED
    BY <2>1, <2>2, <2>3
<1>4. CASE ConsumeDone
  BY <1>4 DEF ConsumeDone, memory, counters, truth
<1>5. CASE Refresh
  <2>1. ~earlyExit => SeededPeak = truePeak
    BY <1>5 DEF Refresh, SeededPeak
  <2>2. SeededPeak \in Nat
    BY DEF SeededPeak
  <2>3. peak' \in Nat /\ (~earlyExit => peak' = (IF seen' > truePeak THEN seen' ELSE truePeak))
    BY <1>5, <2>1, <2>2 DEF Refresh, NewPeak
  <2>4. drawdown' = LossFrom(peak', seen')
    BY <1>5 DEF Refresh
  <2>. QED
    BY <1>5, <2>3, <2>4 DEF Refresh, counters, truth
<1>6. CASE RefreshFails
  <2>1. ~earlyExit => SeededPeak = truePeak
    BY <1>6 DEF RefreshFails, SeededPeak
  <2>2. SeededPeak \in Nat
    BY DEF SeededPeak
  <2>. QED
    BY <1>6, <2>1, <2>2 DEF RefreshFails, counters, truth
<1>7. CASE Approve
  BY <1>7 DEF Approve, GateOpen, memory, counters, truth
<1>8. CASE PersistMetrics
  <2>1. truePeak' \in Nat /\ (~earlyExit => truePeak' = peak)
    BY <1>8 DEF PersistMetrics, Observe, truth
  <2>2. /\ pc' = "consume" /\ passes' = 1 /\ saved'.peak = peak
        /\ UNCHANGED <<equity, seen, halted, peak, drawdown, crashes, earlyExit>>
    BY <1>8 DEF PersistMetrics, MetricsRow, memory, counters
  <2>. QED
    BY <2>1, <2>2
<1>9. CASE CrashAndRestart
  <2>1. halted' \in BOOLEAN
    BY <1>9 DEF CrashAndRestart
  <2>2. /\ pc' = "consume" /\ seen' = 0 /\ peak' = 0 /\ crashes' = crashes + 1 /\ passes' = 0
        /\ UNCHANGED <<equity, saved, earlyExit, truePeak>>
    BY <1>9 DEF CrashAndRestart, truth
  <2>. QED
    BY <2>1, <2>2
<1>10. CASE UNCHANGED vars
  BY <1>10 DEF vars, memory, counters, truth
<1>. QED
  BY <1>1, <1>2, <1>3, <1>4, <1>5, <1>6, <1>7, <1>8, <1>9, <1>10 DEF Next

LEMMA PeakInvImplies == PeakInv => DrawdownStopHolds
<1> SUFFICES ASSUME PeakInv, pc = "routed", ~earlyExit PROVE DrawdownBelowLimit
  BY DEF DrawdownStopHolds
<1>1. CASE seen > truePeak
  <2>1. LossFrom(truePeak, seen) = 0
    BY <1>1 DEF LossFrom, PeakInv
  <2>. QED
    BY <2>1, AnchorsAssumption DEF DrawdownBelowLimit
<1>2. CASE ~(seen > truePeak)
  BY <1>2 DEF PeakInv, DrawdownBelowLimit
<1>. QED
  BY <1>1, <1>2

\* No signal is routed at or beyond the hard drawdown from the highest equity a
\* finished pass has seen, over any number of restarts and exits, unless a
\* restarted process has recorded an exit before its first refresh.
THEOREM DrawdownStop == Spec => []DrawdownStopHolds
<1>1. Init => PeakInv
  BY PeakInvInit
<1>2. PeakInv /\ [Next]_vars => PeakInv'
  BY PeakInvNext
<1>3. PeakInv => DrawdownStopHolds
  BY PeakInvImplies
<1>. QED
  BY <1>1, <1>2, <1>3, PTL DEF Spec
-----------------------------------------------------------------------------
(* The daily and the weekly stop.  lastReset["daily"] is the day of the    *)
(* last refresh of this process, successful or not: the argument compares  *)
(* it with the day the true anchors were taken on.                         *)

LEMMA DivisionInNat ==
    ASSUME NEW n \in Nat
    PROVE  /\ n \div DaysPerWeek \in Nat
           /\ n \div DaysPerWeek <= n
  BY AnchorsAssumption

\* A week begins with a number no earlier day has.
LEMMA WeeksDiffer ==
    ASSUME NEW n \in Nat, NEW k \in Nat, k < n, n % DaysPerWeek = 0
    PROVE  k \div DaysPerWeek # n \div DaysPerWeek
<1>1. n = DaysPerWeek * (n \div DaysPerWeek) + (n % DaysPerWeek) /\ n \div DaysPerWeek \in Nat
  BY AnchorsAssumption
<1>2. /\ k = DaysPerWeek * (k \div DaysPerWeek) + (k % DaysPerWeek)
      /\ k % DaysPerWeek \in Nat /\ k \div DaysPerWeek \in Nat
  BY AnchorsAssumption
<1>. QED
  BY <1>1, <1>2, AnchorsAssumption

KeyOf(p, n) == IF p = "daily" THEN n ELSE n \div DaysPerWeek

LEMMA KeyFacts ==
    ASSUME NEW p \in Periods, NEW n \in Nat
    PROVE  KeyOf(p, n) \in Nat /\ KeyOf(p, n) # NoKey
  BY DivisionInNat DEF KeyOf, NoKey

NoTruth == \A p \in Periods : trueKey[p] = NoKey /\ trueAnchor[p] = 0
TruthOf(n) == \A p \in Periods : trueKey[p] = KeyOf(p, n) /\ trueAnchor[p] \in Nat \ {0}

Fresh == \A p \in Periods : anchorKey[p] = NoKey /\ anchor[p] = 0
MemoryIsTruth == \A p \in Periods : anchorKey[p] = trueKey[p] /\ anchor[p] = trueAnchor[p]
SavedIsTruth ==
    \A p \in Periods : saved.anchorKey[p] = trueKey[p] /\ saved.anchor[p] = trueAnchor[p]

LastRefresh == lastReset["daily"]

AnchorTypes ==
    /\ day \in Nat /\ equity \in Nat \ {0} /\ seen \in Nat /\ crashes \in Nat
    /\ passes \in {0, 1} /\ halted \in BOOLEAN /\ earlyExit \in BOOLEAN
    /\ pc \in {"consume", "refresh", "decide", "routed"}

\* The true anchors were taken in the periods of one day that has come, and
\* not after the last refresh of a process that has refreshed.
TruthInv ==
    /\ NoTruth \/ \E n \in 0..day : TruthOf(n) /\ (LastRefresh # NoKey => n <= LastRefresh)
    /\ crashes = 0 /\ passes = 0 => NoTruth

ResetInv ==
    /\ LastRefresh \in {NoKey} \cup 0..day
    /\ pc \in {"decide", "routed"} \/ passes = 1 => LastRefresh # NoKey
    /\ LastRefresh # NoKey /\ LastRefresh % DaysPerWeek = 0 =>
           lastReset["weekly"] = LastRefresh \div DaysPerWeek

MemoryInv ==
    ~earlyExit =>
        /\ SavedIsTruth
        /\ pc \in {"consume", "refresh"} => MemoryIsTruth \/ (Fresh /\ passes = 0)
        /\ pc \in {"decide", "routed"} /\ halted => MemoryIsTruth
        /\ pc \in {"decide", "routed"} /\ ~halted =>
               \A p \in Periods : /\ anchorKey[p] = KeyOf(p, LastRefresh)
                                  /\ anchor[p] = TrueAnchor(p)
                                  /\ anchor[p] \in Nat \ {0}

LossInv ==
    pc \in {"decide", "routed"} /\ ~halted =>
        /\ seen > 0
        /\ \A p \in Periods : anchorKey[p] = KeyOf(p, LastRefresh) /\ TrueAnchor(p) \in Nat \ {0}
        /\ ~earlyExit /\ (crashes = 0 \/ passes = 1) =>
               \A p \in Periods : loss[p] = LossFrom(anchor[p], seen)

GateInv ==
    pc = "routed" => ~halted /\ \A p \in Periods : loss[p] < PeriodLimit[p]

AnchorInv == AnchorTypes /\ TruthInv /\ ResetInv /\ MemoryInv /\ LossInv /\ GateInv

LEMMA AnchorInvInit == Init => AnchorInv
<1> SUFFICES ASSUME Init PROVE AnchorInv
  OBVIOUS
<1>1. AnchorTypes
  BY AnchorsAssumption DEF Init, AnchorTypes
<1>2. NoTruth /\ Fresh /\ SavedIsTruth /\ MemoryIsTruth /\ LastRefresh = NoKey
  BY DEF Init, NoTruth, Fresh, SavedIsTruth, MemoryIsTruth, LastRefresh, NoKeys, Zero, Periods
<1>3. pc = "consume" /\ passes = 0
  BY DEF Init
<1>4. TruthInv
  BY <1>2 DEF TruthInv
<1>5. ResetInv
  BY <1>2, <1>3 DEF ResetInv
<1>6. MemoryInv
  BY <1>2, <1>3 DEF MemoryInv
<1>7. LossInv /\ GateInv
  BY <1>3 DEF LossInv, GateInv
<1>. QED
  BY <1>1, <1>4, <1>5, <1>6, <1>7 DEF AnchorInv

-----------------------------------------------------------------------------
(* What a refresh finds, unless a restarted process has recorded an exit    *)
(* too early: the true anchors, from memory or from the metrics row.        *)
LEMMA SeedIsTruth ==
    ASSUME AnchorInv, pc = "refresh", ~earlyExit, NEW p \in Periods
    PROVE  SeededKey(p) = trueKey[p] /\ SeededAnchor(p) = trueAnchor[p]
<1>1. SavedIsTruth /\ (MemoryIsTruth \/ Fresh)
  BY DEF AnchorInv, MemoryInv
<1>. QED
  BY <1>1 DEF SavedIsTruth, MemoryIsTruth, Fresh, SeededKey, SeededAnchor

(* After the reset scheduler has run, the last refresh is today's.          *)
LEMMA ResetAfterRefresh ==
    ASSUME AnchorInv, NEW measured, ResetLosses(measured), day' = day, pc' = "decide"
    PROVE  LastRefresh' = day /\ ResetInv'
<1>1. /\ lastReset' = [p \in Periods |-> IF ResetDue(p) THEN Key(p) ELSE lastReset[p]]
      /\ {"daily", "weekly"} = Periods
  BY DEF ResetLosses, Periods
<1>2. lastReset'["daily"] = day
  BY <1>1 DEF ResetDue, Key
<1>3. day % DaysPerWeek = 0 => lastReset'["weekly"] = day \div DaysPerWeek
  BY <1>1 DEF ResetDue, Key, FirstOfWeek
<1>4. day \in Nat
  BY DEF AnchorInv, AnchorTypes
<1>. QED
  BY <1>2, <1>3, <1>4 DEF LastRefresh, ResetInv, NoKey

(* The truth is no younger than a refresh of today.                         *)
LEMMA TruthAfterRefresh ==
    ASSUME AnchorInv, LastRefresh' = day, UNCHANGED <<day, trueKey, trueAnchor, crashes, passes>>
    PROVE  TruthInv'
<1>1. day \in Nat /\ (NoTruth \/ \E n \in 0..day : TruthOf(n))
  BY DEF AnchorInv, AnchorTypes, TruthInv
<1>2. (NoTruth' <=> NoTruth) /\ \A n \in 0..day : TruthOf(n)' <=> TruthOf(n)
  BY DEF NoTruth, TruthOf
<1>. QED
  BY <1>1, <1>2 DEF TruthInv, AnchorInv

(* A loss the reset scheduler clears is zero by itself: the period has no   *)
(* true anchor yet, unless the process is restarted and in its first pass.  *)
LEMMA ClearedLossIsZero ==
    ASSUME AnchorInv, pc = "refresh", ~earlyExit, crashes = 0 \/ passes = 1,
           NEW p \in Periods, ResetDue(p)
    PROVE  NewAnchor(p) = equity
<1>1. SeededKey(p) = trueKey[p]
  BY SeedIsTruth
<1>2. day \in Nat
  BY DEF AnchorInv, AnchorTypes
<1>3. Key(p) = KeyOf(p, day) /\ KeyOf(p, day) # NoKey
  BY <1>2, KeyFacts DEF Key, KeyOf
<1>4. CASE NoTruth
  BY <1>1, <1>3, <1>4 DEF NoTruth, NewAnchor, KeepsAnchor
<1>5. CASE ~NoTruth
  <2>1. passes = 1 /\ LastRefresh \in 0..day
    BY <1>5 DEF AnchorInv, AnchorTypes, TruthInv, ResetInv
  <2>2. PICK n \in 0..day : TruthOf(n) /\ n <= LastRefresh
    BY <1>5, <2>1, <1>2 DEF AnchorInv, TruthInv, NoKey
  <2>3. KeyOf(p, n) # KeyOf(p, day)
    <3>1. CASE p = "daily"
      BY <1>2, <2>1, <2>2, <3>1 DEF ResetDue, Key, KeyOf, LastRefresh
    <3>2. CASE p = "weekly"
      <4>1. day % DaysPerWeek = 0 /\ lastReset["weekly"] # day \div DaysPerWeek
        BY <3>2 DEF ResetDue, Key, FirstOfWeek
      <4>2. LastRefresh # day
        BY <4>1, <2>1 DEF AnchorInv, ResetInv, NoKey
      <4>3. n \in Nat /\ n < day
        BY <1>2, <2>1, <2>2, <4>2
      <4>. QED
        BY <1>2, <3>2, <4>1, <4>3, WeeksDiffer DEF KeyOf
    <3>. QED
      BY <3>1, <3>2 DEF Periods
  <2>. QED
    BY <1>1, <1>3, <2>2, <2>3 DEF TruthOf, NewAnchor, KeepsAnchor
<1>. QED
  BY <1>4, <1>5

-----------------------------------------------------------------------------
(* Steps that leave the anchors, the losses and the truth alone keep what    *)
(* is said of them; the calendar may have moved on.                          *)
LEMMA TruthAndResetKept ==
    ASSUME AnchorInv, UNCHANGED <<trueKey, trueAnchor, lastReset, crashes, passes>>,
           day' \in Nat, day' >= day, pc' \in {"decide", "routed"} => pc \in {"decide", "routed"}
    PROVE  TruthInv' /\ ResetInv'
<1>1. (NoTruth' <=> NoTruth) /\ \A n \in Nat : TruthOf(n)' <=> TruthOf(n)
  BY DEF NoTruth, TruthOf
<1>2. LastRefresh' = LastRefresh /\ day \in Nat /\ 0..day \subseteq 0..day' /\ 0..day \subseteq Nat
  BY DEF LastRefresh, AnchorInv, AnchorTypes
<1>3. TruthInv'
  BY <1>1, <1>2 DEF TruthInv, AnchorInv
<1>4. ResetInv'
  BY <1>2 DEF ResetInv, AnchorInv
<1>. QED
  BY <1>3, <1>4

LEMMA MemoryAndLossKept ==
    ASSUME AnchorInv, UNCHANGED <<memory, truth, saved, passes, counters>>,
           pc' \in {"consume", "refresh"} => pc \in {"consume", "refresh"},
           pc' \in {"decide", "routed"} => pc \in {"decide", "routed"}
    PROVE  MemoryInv' /\ LossInv'
<1> USE DEF memory, truth, counters
<1>1. /\ SavedIsTruth' <=> SavedIsTruth
      /\ MemoryIsTruth' <=> MemoryIsTruth
      /\ Fresh' <=> Fresh
      /\ LastRefresh' = LastRefresh
      /\ \A p \in Periods : TrueAnchor(p)' = TrueAnchor(p)
  BY DEF SavedIsTruth, MemoryIsTruth, Fresh, LastRefresh, TrueAnchor
<1>2. MemoryInv'
  BY <1>1 DEF MemoryInv, AnchorInv
<1>3. LossInv'
  BY <1>1 DEF LossInv, AnchorInv
<1>. QED
  BY <1>2, <1>3

LEMMA AnchorRecordExit ==
    ASSUME AnchorInv, RecordExit
    PROVE  AnchorInv'
<1> USE DEF AnchorInv
<1>1. /\ pc = "consume" /\ pc' = pc
      /\ saved' = MetricsRow
      /\ ~earlyExit' => ~earlyExit /\ ~(crashes > 0 /\ passes = 0)
      /\ earlyExit' \in BOOLEAN
      /\ UNCHANGED <<equity, day, memory, passes, crashes, truth>>
  BY DEF RecordExit
<1>2. AnchorTypes'
  BY <1>1 DEF AnchorTypes, memory
<1>3. TruthInv' /\ ResetInv'
  BY <1>1, TruthAndResetKept DEF AnchorTypes, memory, truth
<1>4. (MemoryIsTruth' <=> MemoryIsTruth) /\ (Fresh' <=> Fresh)
  BY <1>1 DEF MemoryIsTruth, Fresh, memory, truth
<1>5. ~earlyExit' => MemoryIsTruth
  <2>. SUFFICES ASSUME ~earlyExit', ~MemoryIsTruth PROVE FALSE
    OBVIOUS
  <2>1. Fresh /\ passes = 0 /\ crashes = 0
    BY <1>1 DEF MemoryInv, AnchorTypes
  <2>2. NoTruth
    BY <2>1 DEF TruthInv
  <2>. QED
    BY <2>1, <2>2 DEF Fresh, NoTruth, MemoryIsTruth
<1>6. MemoryIsTruth => SavedIsTruth'
  BY <1>1 DEF MemoryIsTruth, SavedIsTruth, MetricsRow, truth
<1>7. MemoryInv'
  BY <1>1, <1>4, <1>5, <1>6 DEF MemoryInv
<1>8. LossInv' /\ GateInv'
  BY <1>1 DEF LossInv, GateInv
<1>. QED
  BY <1>2, <1>3, <1>7, <1>8

LEMMA AnchorRefresh ==
    ASSUME AnchorInv, Refresh
    PROVE  AnchorInv'
<1> USE DEF AnchorInv
<1>1. /\ pc = "refresh" /\ pc' = "decide" /\ halted' = FALSE /\ seen' = equity
      /\ UNCHANGED <<equity, day, saved, passes, counters, truth>>
  BY DEF Refresh
<1>2. /\ \A p \in Periods : anchorKey'[p] = Key(p) /\ anchor'[p] = NewAnchor(p)
      /\ ResetLosses([p \in Periods |-> LossFrom(NewAnchor(p), equity)])
  BY DEF Refresh
<1>3. day \in Nat /\ equity \in Nat \ {0}
  BY DEF AnchorTypes
<1>4. LastRefresh' = day /\ ResetInv'
  BY <1>1, <1>2, ResetAfterRefresh
<1>5. TruthInv'
  BY <1>1, <1>4, TruthAfterRefresh DEF truth, counters
<1>6. AnchorTypes'
  BY <1>1 DEF AnchorTypes, counters
<1>7. \A p \in Periods : anchorKey'[p] = KeyOf(p, day) /\ Key(p) # NoKey /\ Key(p) = KeyOf(p, day)
  BY <1>2, <1>3, KeyFacts DEF Key, KeyOf
<1>8. \A p \in Periods : trueKey[p] = Key(p) => trueAnchor[p] \in Nat \ {0}
  BY <1>7 DEF TruthInv, NoTruth, TruthOf
<1>9. \A p \in Periods :
         TrueAnchor(p)' = (IF trueKey[p] = Key(p) THEN trueAnchor[p] ELSE equity)
  BY <1>1, <1>2 DEF TrueAnchor, truth
<1>10. \A p \in Periods : TrueAnchor(p)' \in Nat \ {0}
  BY <1>3, <1>8, <1>9
<1>11. ~earlyExit => \A p \in Periods : NewAnchor(p) = TrueAnchor(p)'
  <2>. SUFFICES ASSUME ~earlyExit, NEW p \in Periods PROVE NewAnchor(p) = TrueAnchor(p)'
    OBVIOUS
  <2>1. SeededKey(p) = trueKey[p] /\ SeededAnchor(p) = trueAnchor[p]
    BY <1>1, SeedIsTruth
  <2>. QED
    BY <2>1, <1>8, <1>9 DEF NewAnchor, KeepsAnchor
<1>12. MemoryInv'
  <2>1. SavedIsTruth' <=> SavedIsTruth
    BY <1>1 DEF SavedIsTruth, truth
  <2>. QED
    BY <2>1, <1>1, <1>2, <1>4, <1>7, <1>10, <1>11 DEF MemoryInv, counters
<1>13. ~earlyExit /\ (crashes = 0 \/ passes = 1) =>
          \A p \in Periods : loss'[p] = LossFrom(anchor'[p], equity)
  <2>. SUFFICES ASSUME ~earlyExit, crashes = 0 \/ passes = 1, NEW p \in Periods
                PROVE  loss'[p] = LossFrom(NewAnchor(p), equity)
    BY <1>2
  <2>1. loss'[p] = IF ResetDue(p) THEN 0 ELSE LossFrom(NewAnchor(p), equity)
    BY <1>2 DEF ResetLosses
  <2>2. ResetDue(p) => LossFrom(NewAnchor(p), equity) = 0
    BY <1>1, <1>3, ClearedLossIsZero DEF LossFrom
  <2>. QED
    BY <2>1, <2>2
<1>14. LossInv'
  BY <1>1, <1>3, <1>4, <1>7, <1>10, <1>13 DEF LossInv, counters
<1>15. GateInv'
  BY <1>1 DEF GateInv
<1>. QED
  BY <1>4, <1>5, <1>6, <1>12, <1>14, <1>15

LEMMA AnchorRefreshFails ==
    ASSUME AnchorInv, RefreshFails
    PROVE  AnchorInv'
<1> USE DEF AnchorInv
<1>1. /\ pc = "refresh" /\ pc' = "decide" /\ halted' = TRUE
      /\ UNCHANGED <<equity, day, seen, saved, passes, counters, truth>>
  BY DEF RefreshFails
<1>2. /\ \A p \in Periods : anchorKey'[p] = SeededKey(p) /\ anchor'[p] = SeededAnchor(p)
      /\ ResetLosses(loss)
  BY DEF RefreshFails
<1>3. LastRefresh' = day /\ ResetInv'
  BY <1>1, <1>2, ResetAfterRefresh
<1>4. TruthInv'
  BY <1>1, <1>3, TruthAfterRefresh DEF truth, counters
<1>5. AnchorTypes'
  BY <1>1 DEF AnchorTypes, counters
<1>6. SavedIsTruth' <=> SavedIsTruth
  BY <1>1 DEF SavedIsTruth, truth
<1>7. ~earlyExit => MemoryIsTruth'
  BY <1>1, <1>2, SeedIsTruth DEF MemoryIsTruth, truth
<1>8. MemoryInv'
  BY <1>1, <1>6, <1>7 DEF MemoryInv, counters
<1>9. LossInv' /\ GateInv'
  BY <1>1 DEF LossInv, GateInv
<1>. QED
  BY <1>3, <1>4, <1>5, <1>8, <1>9

LEMMA AnchorPersist ==
    ASSUME AnchorInv, PersistMetrics
    PROVE  AnchorInv'
<1> USE DEF AnchorInv
<1>1. /\ pc \in {"decide", "routed"} /\ pc' = "consume" /\ passes' = 1 /\ saved' = MetricsRow
      /\ IF halted THEN UNCHANGED truth ELSE Observe
      /\ UNCHANGED <<equity, day, memory, counters>>
  BY DEF PersistMetrics
<1>2. AnchorTypes'
  BY <1>1 DEF AnchorTypes, memory, counters
<1>3. LastRefresh' = LastRefresh /\ LastRefresh \in 0..day /\ LastRefresh # NoKey
  BY <1>1 DEF LastRefresh, ResetInv, memory
<1>4. ResetInv'
  BY <1>1, <1>3 DEF ResetInv, memory
<1>5. TruthInv'
  <2>1. CASE halted
    <3>1. (NoTruth' <=> NoTruth) /\ \A n \in 0..day : TruthOf(n)' <=> TruthOf(n)
      BY <1>1, <2>1 DEF NoTruth, TruthOf, truth
    <3>. QED
      BY <1>1, <1>3, <3>1 DEF TruthInv
  <2>2. CASE ~halted
    <3>1. \A p \in Periods : trueKey'[p] = anchorKey[p] /\ trueAnchor'[p] = TrueAnchor(p)
      BY <1>1, <2>2 DEF Observe
    <3>2. TruthOf(LastRefresh)'
      BY <1>1, <1>3, <2>2, <3>1 DEF LossInv, TruthOf
    <3>3. LastRefresh \in Nat
      BY <1>3 DEF AnchorTypes
    <3>. QED
      BY <1>1, <1>3, <3>2, <3>3 DEF TruthInv
  <2>. QED
    BY <2>1, <2>2
<1>6. ~earlyExit => SavedIsTruth' /\ MemoryIsTruth'
  <2>1. /\ \A p \in Periods : saved'.anchorKey[p] = anchorKey[p] /\ saved'.anchor[p] = anchor[p]
        /\ UNCHANGED <<anchorKey, anchor>>
    BY <1>1 DEF MetricsRow, memory
  <2>2. ~earlyExit => MemoryIsTruth'
    <3>1. CASE halted
      BY <1>1, <2>1, <3>1 DEF MemoryInv, MemoryIsTruth, truth
    <3>2. CASE ~halted
      BY <1>1, <2>1, <3>2 DEF MemoryInv, MemoryIsTruth, Observe
    <3>. QED
      BY <3>1, <3>2
  <2>. QED
    BY <2>1, <2>2 DEF MemoryIsTruth, SavedIsTruth
<1>7. MemoryInv'
  BY <1>1, <1>6 DEF MemoryInv, counters
<1>8. LossInv' /\ GateInv'
  BY <1>1 DEF LossInv, GateInv
<1>. QED
  BY <1>2, <1>4, <1>5, <1>7, <1>8

LEMMA AnchorCrash ==
    ASSUME AnchorInv, CrashAndRestart
    PROVE  AnchorInv'
<1> USE DEF AnchorInv
<1>1. /\ crashes' = crashes + 1 /\ passes' = 0 /\ pc' = "consume" /\ seen' = 0 /\ halted' = FALSE
      /\ anchorKey' = NoKeys /\ anchor' = Zero /\ lastReset' = NoKeys
      /\ UNCHANGED <<equity, day, saved, earlyExit, truth>>
  BY DEF CrashAndRestart
<1>2. Fresh' /\ LastRefresh' = NoKey
  BY <1>1 DEF Fresh, LastRefresh, NoKeys, Zero, Periods
<1>3. AnchorTypes'
  <2>1. halted' \in BOOLEAN /\ earlyExit' \in BOOLEAN
    BY <1>1 DEF AnchorTypes
  <2>2. crashes' \in Nat /\ passes' \in {0, 1} /\ seen' \in Nat
    BY <1>1 DEF AnchorTypes
  <2>. QED
    BY <1>1, <2>1, <2>2 DEF AnchorTypes
<1>4. TruthInv'
  <2>1. (NoTruth' <=> NoTruth) /\ \A n \in 0..day : TruthOf(n)' <=> TruthOf(n)
    BY <1>1 DEF NoTruth, TruthOf, truth
  <2>. QED
    BY <1>1, <1>2, <2>1 DEF TruthInv, AnchorTypes
<1>5. ResetInv'
  BY <1>1, <1>2 DEF ResetInv
<1>6. SavedIsTruth' <=> SavedIsTruth
  BY <1>1 DEF SavedIsTruth, truth
<1>7. MemoryInv'
  BY <1>1, <1>2, <1>6 DEF MemoryInv
<1>8. LossInv' /\ GateInv'
  BY <1>1 DEF LossInv, GateInv
<1>. QED
  BY <1>3, <1>4, <1>5, <1>7, <1>8

LEMMA AnchorInvNext ==
    ASSUME AnchorInv, [Next]_vars
    PROVE  AnchorInv'
<1>1. CASE MoveEquity
  <2>1. UNCHANGED <<day, pc, memory, saved, passes, counters, truth>> /\ equity' \in Nat \ {0}
    BY <1>1, AnchorsAssumption DEF MoveEquity
  <2>2. AnchorTypes'
    BY <2>1 DEF AnchorInv, AnchorTypes, memory, counters
  <2>3. TruthInv' /\ ResetInv'
    BY <2>1, TruthAndResetKept DEF AnchorInv, AnchorTypes, memory, counters, truth
  <2>4. MemoryInv' /\ LossInv'
    BY <2>1, MemoryAndLossKept
  <2>5. GateInv'
    BY <2>1 DEF AnchorInv, GateInv, memory
  <2>. QED
    BY <2>2, <2>3, <2>4, <2>5 DEF AnchorInv
<1>2. CASE NextDay
  <2>1. /\ UNCHANGED <<equity, pc, memory, saved, passes, counters, truth>>
        /\ day' = day + 1 /\ day \in Nat
    BY <1>2 DEF NextDay, AnchorInv, AnchorTypes
  <2>2. AnchorTypes'
    BY <2>1 DEF AnchorInv, AnchorTypes, memory, counters
  <2>3. TruthInv' /\ ResetInv'
    BY <2>1, TruthAndResetKept DEF memory, counters, truth
  <2>4. MemoryInv' /\ LossInv'
    BY <2>1, MemoryAndLossKept
  <2>5. GateInv'
    BY <2>1 DEF AnchorInv, GateInv, memory
  <2>. QED
    BY <2>2, <2>3, <2>4, <2>5 DEF AnchorInv
<1>3. CASE RecordExit
  BY <1>3, AnchorRecordExit
<1>4. CASE ConsumeDone
  <2>1. /\ UNCHANGED <<equity, day, memory, saved, passes, counters, truth>>
        /\ pc = "consume" /\ pc' = "refresh"
    BY <1>4 DEF ConsumeDone
  <2>2. AnchorTypes'
    BY <2>1 DEF AnchorInv, AnchorTypes, memory, counters
  <2>3. TruthInv' /\ ResetInv'
    BY <2>1, TruthAndResetKept DEF AnchorInv, AnchorTypes, memory, counters, truth
  <2>4. MemoryInv' /\ LossInv'
    BY <2>1, MemoryAndLossKept
  <2>5. GateInv'
    BY <2>1 DEF GateInv
  <2>. QED
    BY <2>2, <2>3, <2>4, <2>5 DEF AnchorInv
<1>5. CASE Refresh
  BY <1>5, AnchorRefresh
<1>6. CASE RefreshFails
  BY <1>6, AnchorRefreshFails
<1>7. CASE Approve
  <2>1. /\ UNCHANGED <<equity, day, memory, saved, passes, counters, truth>>
        /\ pc = "decide" /\ pc' = "routed" /\ GateOpen
    BY <1>7 DEF Approve
  <2>2. AnchorTypes'
    BY <2>1 DEF AnchorInv, AnchorTypes, memory, counters
  <2>3. TruthInv' /\ ResetInv'
    BY <2>1, TruthAndResetKept DEF AnchorInv, AnchorTypes, memory, counters, truth
  <2>4. MemoryInv' /\ LossInv'
    BY <2>1, MemoryAndLossKept
  <2>5. GateInv'
    BY <2>1 DEF GateOpen, GateInv, memory
  <2>. QED
    BY <2>2, <2>3, <2>4, <2>5 DEF AnchorInv
<1>8. CASE PersistMetrics
  BY <1>8, AnchorPersist
<1>9. CASE CrashAndRestart
  BY <1>9, AnchorCrash
<1>10. CASE UNCHANGED vars
  <2>1. UNCHANGED <<equity, day, pc, memory, saved, passes, counters, truth>>
    BY <1>10 DEF vars
  <2>2. AnchorTypes'
    BY <2>1 DEF AnchorInv, AnchorTypes, memory, counters
  <2>3. TruthInv' /\ ResetInv'
    BY <2>1, TruthAndResetKept DEF AnchorInv, AnchorTypes, memory, counters, truth
  <2>4. MemoryInv' /\ LossInv'
    BY <2>1, MemoryAndLossKept
  <2>5. GateInv'
    BY <2>1 DEF AnchorInv, GateInv, memory
  <2>. QED
    BY <2>2, <2>3, <2>4, <2>5 DEF AnchorInv
<1>. QED
  BY <1>1, <1>2, <1>3, <1>4, <1>5, <1>6, <1>7, <1>8, <1>9, <1>10 DEF Next

LEMMA AnchorInvImplies == AnchorInv => PeriodStopsHold
<1> SUFFICES ASSUME AnchorInv, pc = "routed", ~earlyExit, crashes = 0 \/ passes = 1,
                    NEW p \in Periods
             PROVE  PeriodStopHolds(p)
  BY DEF PeriodStopsHold
<1>1. ~halted /\ loss[p] < PeriodLimit[p]
  BY DEF AnchorInv, GateInv
<1>2. loss[p] = LossFrom(anchor[p], seen) /\ anchor[p] = TrueAnchor(p)
  BY <1>1 DEF AnchorInv, LossInv, MemoryInv
<1>. QED
  BY <1>1, <1>2 DEF PeriodStopHolds

\* No signal is routed once the day's or the week's loss, measured from the
\* first finished pass of the period in whichever process that was, has reached
\* its stop, the first pass of a restarted process and early exits excepted.
THEOREM PeriodStops == Spec => []PeriodStopsHold
<1>1. Init => AnchorInv
  BY AnchorInvInit
<1>2. AnchorInv /\ [Next]_vars => AnchorInv'
  BY AnchorInvNext
<1>3. AnchorInv => PeriodStopsHold
  BY AnchorInvImplies
<1>. QED
  BY <1>1, <1>2, <1>3, PTL DEF Spec

-----------------------------------------------------------------------------
(* Types: the metrics row has the types of the memory it is written from.   *)
SavedOK ==
    /\ saved.peak \in Equities \cup {0}
    /\ saved.anchorKey \in [Periods -> -1..MaxDay]
    /\ saved.anchor \in [Periods -> Equities \cup {0}]

TypeInv == TypeOK /\ SavedOK

LEMMA EquityIsNat == \A e \in Equities \cup {0} : e \in Nat
  BY AnchorsAssumption

LEMMA LossIsShare == \A base, e \in Nat : LossFrom(base, e) \in 0..1000
<1> TAKE base \in Nat, e \in Nat
<1>1. CASE base <= e
  BY <1>1 DEF LossFrom
<1>2. CASE ~(base <= e)
  <2>1. ((base - e) * 1000) \div base \in 0..1000
    BY <1>2
  <2>. QED
    BY <1>2, <2>1 DEF LossFrom
<1>. QED
  BY <1>1, <1>2

LEMMA TypeInvRefresh ==
    ASSUME TypeInv, pc = "refresh", NEW p \in Periods
    PROVE  /\ Key(p) \in -1..MaxDay
           /\ SeededKey(p) \in -1..MaxDay
           /\ SeededAnchor(p) \in Equities \cup {0}
           /\ NewAnchor(p) \in Equities \cup {0}
           /\ SeededPeak \in Equities \cup {0}
           /\ NewPeak \in Equities \cup {0}
<1>1. day \in Nat /\ day <= MaxDay /\ MaxDay \in Nat
  BY AnchorsAssumption DEF TypeInv, TypeOK
<1>2. Key(p) \in -1..MaxDay
  BY <1>1, DivisionInNat DEF Key
<1>3. SeededKey(p) \in -1..MaxDay /\ SeededAnchor(p) \in Equities \cup {0}
  BY DEF TypeInv, TypeOK, SavedOK, SeededKey, SeededAnchor
<1>4. SeededPeak \in Equities \cup {0}
  BY DEF TypeInv, TypeOK, SavedOK, SeededPeak
<1>5. NewAnchor(p) \in Equities \cup {0} /\ NewPeak \in Equities \cup {0}
  BY <1>3, <1>4 DEF TypeInv, TypeOK, NewAnchor, NewPeak
<1>. QED
  BY <1>2, <1>3, <1>4, <1>5

LEMMA TypeInvResets ==
    ASSUME TypeInv, pc = "refresh", NEW measured \in [Periods -> 0..1000], ResetLosses(measured)
    PROVE  loss' \in [Periods -> 0..1000] /\ lastReset' \in [Periods -> -1..MaxDay]
<1>1. \A p \in Periods : Key(p) \in -1..MaxDay
  BY TypeInvRefresh
<1>. QED
  BY <1>1 DEF ResetLosses, TypeInv, TypeOK

LEMMA TypeInvInit == Init => TypeInv
<1> SUFFICES ASSUME Init PROVE TypeInv
  OBVIOUS
<1>1. MaxDay \in Nat
  BY AnchorsAssumption
<1>2. NoKeys \in [Periods -> -1..MaxDay] /\ Zero \in [Periods -> Equities \cup {0}]
      /\ Zero \in [Periods -> 0..1000]
  BY <1>1 DEF NoKeys, NoKey, Zero
<1>3. TypeOK
  <2>1. equity \in Equities /\ day \in 0..MaxDay /\ pc = "consume"
    BY <1>1 DEF Init
  <2>2. earlyExit \in BOOLEAN /\ halted \in BOOLEAN
    BY DEF Init
  <2>3. /\ seen \in Equities \cup {0} /\ peak \in Equities \cup {0} /\ drawdown \in 0..1000
        /\ anchorKey \in [Periods -> -1..MaxDay] /\ lastReset \in [Periods -> -1..MaxDay]
        /\ anchor \in [Periods -> Equities \cup {0}] /\ loss \in [Periods -> 0..1000]
    BY <1>2 DEF Init
  <2>. QED
    BY <2>1, <2>2, <2>3 DEF TypeOK
<1>4. SavedOK
  BY <1>2 DEF Init, SavedOK
<1>. QED
  BY <1>3, <1>4 DEF TypeInv

LEMMA TypeInvNext ==
    ASSUME TypeInv, [Next]_vars
    PROVE  TypeInv'
<1> USE DEF TypeInv
<1>1. CASE MoveEquity
  BY <1>1 DEF MoveEquity, memory, counters, TypeOK, SavedOK
<1>2. CASE NextDay
  BY <1>2, AnchorsAssumption DEF NextDay, memory, counters, TypeOK, SavedOK
<1>3. CASE RecordExit
  <2>1. TypeOK'
    BY <1>3 DEF RecordExit, memory, TypeOK
  <2>2. SavedOK'
    BY <1>3 DEF RecordExit, MetricsRow, TypeOK, SavedOK
  <2>. QED
    BY <2>1, <2>2
<1>4. CASE ConsumeDone
  BY <1>4 DEF ConsumeDone, memory, counters, TypeOK, SavedOK
<1>5. CASE Refresh
  <2> DEFINE measured == [p \in Periods |-> LossFrom(NewAnchor(p), equity)]
  <2>1. pc = "refresh" /\ ResetLosses(measured)
    BY <1>5 DEF Refresh
  <2>2. equity \in Equities \cup {0} /\ NewPeak \in Equities \cup {0}
        /\ \A p \in Periods : NewAnchor(p) \in Equities \cup {0} /\ Key(p) \in -1..MaxDay
    BY <2>1, TypeInvRefresh DEF TypeOK, Periods
  <2>3. LossFrom(NewPeak, equity) \in 0..1000
    <3>1. equity \in Nat /\ NewPeak \in Nat
      BY <2>2, AnchorsAssumption
    <3>. QED
      BY <3>1, LossIsShare
  <2>4. \A p \in Periods : LossFrom(NewAnchor(p), equity) \in 0..1000
    <3>. SUFFICES ASSUME NEW p \in Periods PROVE LossFrom(NewAnchor(p), equity) \in 0..1000
      OBVIOUS
    <3>1. equity \in Equities \cup {0} /\ NewAnchor(p) \in Equities \cup {0}
      BY <2>2
    <3>2. equity \in Nat /\ NewAnchor(p) \in Nat
      BY <3>1, EquityIsNat
    <3>. QED
      BY <3>2, LossIsShare
  <2>5. measured \in [Periods -> 0..1000]
    BY <2>4
  <2>6. loss' \in [Periods -> 0..1000] /\ lastReset' \in [Periods -> -1..MaxDay]
    BY <2>1, <2>5, TypeInvResets
  <2>7. /\ anchorKey' \in [Periods -> -1..MaxDay] /\ anchor' \in [Periods -> Equities \cup {0}]
        /\ drawdown' \in 0..1000 /\ peak' \in Equities \cup {0} /\ seen' \in Equities \cup {0}
        /\ halted' \in BOOLEAN /\ pc' = "decide" /\ UNCHANGED <<equity, day, saved, earlyExit>>
    BY <1>5, <2>2, <2>3 DEF Refresh, counters
  <2>. QED
    BY <2>6, <2>7 DEF TypeOK, SavedOK
<1>6. CASE RefreshFails
  <2>1. pc = "refresh" /\ ResetLosses(loss) /\ loss \in [Periods -> 0..1000]
    BY <1>6 DEF RefreshFails, TypeOK
  <2>2. SeededPeak \in Equities \cup {0}
        /\ \A p \in Periods : SeededAnchor(p) \in Equities \cup {0} /\ SeededKey(p) \in -1..MaxDay
    BY <2>1, TypeInvRefresh DEF Periods
  <2>3. loss' \in [Periods -> 0..1000] /\ lastReset' \in [Periods -> -1..MaxDay]
    BY <2>1, TypeInvResets
  <2>4. /\ anchorKey' \in [Periods -> -1..MaxDay] /\ anchor' \in [Periods -> Equities \cup {0}]
        /\ peak' \in Equities \cup {0} /\ halted' \in BOOLEAN /\ pc' = "decide"
        /\ UNCHANGED <<equity, day, seen, drawdown, saved, earlyExit>>
    BY <1>6, <2>2 DEF RefreshFails, counters
  <2>. QED
    BY <2>3, <2>4 DEF TypeOK, SavedOK
<1>7. CASE Approve
  BY <1>7 DEF Approve, memory, counters, TypeOK, SavedOK
<1>8. CASE PersistMetrics
  <2>1. TypeOK'
    BY <1>8 DEF PersistMetrics, memory, counters, TypeOK
  <2>2. SavedOK'
    BY <1>8 DEF PersistMetrics, MetricsRow, TypeOK, SavedOK
  <2>. QED
    BY <2>1, <2>2
<1>9. CASE CrashAndRestart
  <2>1. /\ MaxDay \in Nat
        /\ NoKeys \in [Periods -> -1..MaxDay] /\ Zero \in [Periods -> Equities \cup {0}]
        /\ Zero \in [Periods -> 0..1000]
    BY AnchorsAssumption DEF NoKeys, NoKey, Zero
  <2>2. halted' \in BOOLEAN /\ earlyExit' \in BOOLEAN /\ pc' = "consume"
    BY <1>9 DEF CrashAndRestart, TypeOK
  <2>3. /\ seen' \in Equities \cup {0} /\ peak' \in Equities \cup {0} /\ drawdown' \in 0..1000
        /\ anchorKey' \in [Periods -> -1..MaxDay] /\ lastReset' \in [Periods -> -1..MaxDay]
        /\ anchor' \in [Periods -> Equities \cup {0}] /\ loss' \in [Periods -> 0..1000]
        /\ UNCHANGED <<equity, day>>
    BY <1>9, <2>1 DEF CrashAndRestart
  <2>4. SavedOK'
    BY <1>9 DEF CrashAndRestart, SavedOK
  <2>. QED
    BY <2>2, <2>3, <2>4 DEF TypeOK
<1>10. CASE UNCHANGED vars
  BY <1>10 DEF vars, memory, counters, TypeOK, SavedOK
<1>. QED
  BY <1>1, <1>2, <1>3, <1>4, <1>5, <1>6, <1>7, <1>8, <1>9, <1>10 DEF Next

\* The account state keeps its types: in particular a loss is a share of its
\* anchor, at most all of it, and an anchor is an equity the account has had.
THEOREM AnchorTypesHold == Spec => []TypeOK
<1>1. Init => TypeInv
  BY TypeInvInit
<1>2. TypeInv /\ [Next]_vars => TypeInv'
  BY TypeInvNext
<1>3. TypeInv => TypeOK
  BY DEF TypeInv
<1>. QED
  BY <1>1, <1>2, <1>3, PTL DEF Spec
=============================================================================
