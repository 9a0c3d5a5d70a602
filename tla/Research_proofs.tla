--------------------------- MODULE Research_proofs ---------------------------
(***************************************************************************)
(* For every history, every grid of stamps and every length of windows,    *)
(* purge and embargo: the matrix stays aligned, a label that reaches into  *)
(* the test window of its fold belongs to a trade held for longer than     *)
(* purge and embargo together, and the labels are those of the reference.  *)
(*                                                                         *)
(* The invariant says that candidates, labels and rows are made of bars    *)
(* that exist, that the table of labels is in the order of time and the    *)
(* rows made of it are too, so that sorting the features moves none, and   *)
(* that a fold is made only when the matrix is complete, with training     *)
(* rows that end a purge and an embargo before its test window.            *)
(***************************************************************************)
EXTENDS Research, FiniteSetTheorems, TLAPS

CandidateSet ==
    [bar : Bars, direction : {s[2] : s \in Signals},
     horizon : {Horizon(Stamps[i]) : i \in Bars}]
LabelSet == [candidate : CandidateSet, outcome : {"WIN", "LOSS", "TIMEOUT"}, exit : Bars]
FoldSet == [train : SUBSET Nat, test : SUBSET Nat, testStart : Int]

ReplayInv ==
    /\ bar \in Nat \ {0}
    /\ pc = "evaluate" => bar \in Bars
    /\ candidates \in Seq(CandidateSet)

LabelInv ==
    /\ current \in Nat \ {0} /\ offset \in Nat
    /\ labeled \in Seq(LabelSet)
    /\ pc \in {"classify", "evaluate"} => offset = 0
    /\ pc = "label" /\ current <= Len(candidates) =>
           candidates[current].bar + offset <= Len(Stamps)

TimeOf(l) == Stamps[l.candidate.bar]

Ascending(times) == \A i, j \in DOMAIN times : i <= j => times[i] <= times[j]

MatrixInv ==
    /\ row \in Nat \ {0} /\ table \in Seq(LabelSet)
    /\ features \in Seq(CandidateSet) /\ targets \in Seq(LabelSet)
    /\ Ascending(TableTimes(table)) /\ Ascending(RowTimes)
    /\ pc \in {"classify", "evaluate", "label", "resolve"} => features = <<>>
    /\ pc = "matrix" => \A i \in Rows, k \in DOMAIN table :
                           row <= k => RowTime(i) <= TimeOf(table[k])
    /\ MatrixAligned

FoldInv ==
    /\ trainEnd \in Int
    /\ folds \in Seq(FoldSet)
    /\ pc \in {"classify", "evaluate", "label", "resolve", "matrix"} => folds = <<>>
    /\ \A f \in 1..Len(folds) : \A i \in folds[f].train :
           i \in Rows /\ RowTime(i) < folds[f].testStart - Embargo - Purge

ResearchInv == ReplayInv /\ LabelInv /\ MatrixInv /\ FoldInv

-----------------------------------------------------------------------------
LEMMA StampsTyped ==
    /\ Len(Stamps) \in Nat /\ Stamps \in Seq(Nat)
    /\ \A i \in Bars : Stamps[i] \in Nat
    /\ Purge \in Nat /\ Embargo \in Nat /\ TrainLen \in Nat /\ StepLen \in Nat
    /\ Ttl \in Nat /\ Warmup \in Nat
  BY ResearchAssumption DEF Bars

LEMMA ResearchInvInit == Init => ResearchInv
  BY StampsTyped DEF Init, ResearchInv, ReplayInv, LabelInv, MatrixInv, MatrixAligned, FoldInv, Rows,
      Ascending, TableTimes, RowTimes

-----------------------------------------------------------------------------
(* Sorting.  The number of elements an element does not precede is its     *)
(* place: no two have the same, so all places are taken.                   *)
LEMMA BeforeCounts ==
    ASSUME NEW n \in Nat, NEW times \in [1..n -> Nat], NEW i \in 1..n
    PROVE  /\ Before(times, i) \subseteq 1..n /\ IsFiniteSet(Before(times, i))
           /\ Cardinality(Before(times, i)) \in 1..n
<1>1. i \in Before(times, i) /\ Before(times, i) \subseteq 1..n
  BY DEF Before
<1>2. IsFiniteSet(1..n) /\ Cardinality(1..n) = n
  BY FS_Interval
<1>3. IsFiniteSet(Before(times, i)) /\ Cardinality(Before(times, i)) <= n
  BY <1>1, <1>2, FS_Subset
<1>4. Cardinality(Before(times, i)) \in Nat /\ Cardinality(Before(times, i)) # 0
  BY <1>1, <1>3, FS_CardinalityType, FS_EmptySet
<1>. QED
  BY <1>1, <1>3, <1>4

LEMMA EarlierPlace ==
    ASSUME NEW n \in Nat, NEW times \in [1..n -> Nat], NEW i \in 1..n, NEW j \in 1..n,
           times[i] < times[j] \/ (times[i] = times[j] /\ i < j)
    PROVE  Cardinality(Before(times, i)) < Cardinality(Before(times, j))
<1>1. Before(times, i) \subseteq Before(times, j) /\ j \in Before(times, j) \ Before(times, i)
  BY DEF Before
<1>2. IsFiniteSet(Before(times, j)) /\ Cardinality(Before(times, j)) \in 1..n
      /\ Cardinality(Before(times, i)) \in 1..n
  BY BeforeCounts
<1>3. /\ Cardinality(Before(times, i)) <= Cardinality(Before(times, j))
      /\ Cardinality(Before(times, j)) # Cardinality(Before(times, i))
  BY <1>1, <1>2, FS_Subset
<1>. QED
  BY <1>2, <1>3

LEMMA EveryPlaceTaken ==
    ASSUME NEW n \in Nat, NEW times \in [1..n -> Nat]
    PROVE  \A r \in 1..n : \E i \in 1..n : Cardinality(Before(times, i)) = r
<1>. DEFINE place == [i \in 1..n |-> Cardinality(Before(times, i))]
<1>1. place \in [1..n -> 1..n]
  BY BeforeCounts
<1>2. \A i, j \in 1..n : place[i] = place[j] => i = j
  <2> SUFFICES ASSUME NEW i \in 1..n, NEW j \in 1..n, i # j PROVE place[i] # place[j]
    OBVIOUS
  <2>1. CASE times[i] < times[j] \/ (times[i] = times[j] /\ i < j)
    <3>1. place[i] < place[j]
      BY <2>1, EarlierPlace
    <3>2. place[i] \in 1..n /\ place[j] \in 1..n
      BY <1>1
    <3>. HIDE DEF place
    <3>. QED
      BY <3>1, <3>2
  <2>2. CASE ~(times[i] < times[j] \/ (times[i] = times[j] /\ i < j))
    <3>1. times[j] < times[i] \/ (times[j] = times[i] /\ j < i)
      BY <2>2
    <3>2. place[j] < place[i]
      BY <3>1, EarlierPlace
    <3>3. place[i] \in 1..n /\ place[j] \in 1..n
      BY <1>1
    <3>. HIDE DEF place
    <3>. QED
      BY <3>2, <3>3
  <2>. QED
    BY <2>1, <2>2
<1>3. place \in Injection(1..n, 1..n)
  BY <1>1, <1>2 DEF Injection, IsInjective
<1>4. place \in Surjection(1..n, 1..n)
  BY <1>3, FS_Interval, FS_Injection
<1>5. \A r \in 1..n : \E i \in 1..n : place[i] = r
  BY <1>4 DEF Surjection
<1>. QED
  BY <1>5

LEMMA MergeOrderPlaces ==
    ASSUME NEW n \in Nat, NEW times \in [1..n -> Nat], NEW r \in 1..n
    PROVE  /\ MergeOrder(times)[r] \in 1..n
           /\ Cardinality(Before(times, MergeOrder(times)[r])) = r
<1>1. MergeOrder(times)[r] = CHOOSE i \in 1..n : Cardinality(Before(times, i)) = r
  BY DEF MergeOrder
<1>2. \E i \in 1..n : Cardinality(Before(times, i)) = r
  BY EveryPlaceTaken
<1>. QED
  BY <1>1, <1>2, Zenon

(* Taken in that order, the times ascend.                                  *)
LEMMA MergeOrderSorts ==
    ASSUME NEW n \in Nat, NEW times \in [1..n -> Nat], NEW r \in 1..n, NEW q \in 1..n, r <= q
    PROVE  times[MergeOrder(times)[r]] <= times[MergeOrder(times)[q]]
<1>. DEFINE i == MergeOrder(times)[r]
            j == MergeOrder(times)[q]
<1>1. /\ i \in 1..n /\ Cardinality(Before(times, i)) = r
      /\ j \in 1..n /\ Cardinality(Before(times, j)) = q
  BY MergeOrderPlaces
<1>. HIDE DEF i, j
<1>2. ~(times[j] < times[i])
  BY <1>1, EarlierPlace
<1>3. times[i] \in Nat /\ times[j] \in Nat
  BY <1>1
<1>4. times[i] <= times[j]
  BY <1>2, <1>3
<1>. QED
  BY <1>4 DEF i, j

(* What ascends already stays as it is.                                    *)
LEMMA MergeOrderKeeps ==
    ASSUME NEW n \in Nat, NEW times \in [1..n -> Nat], Ascending(times), NEW r \in 1..n
    PROVE  MergeOrder(times)[r] = r
<1>. DEFINE i == MergeOrder(times)[r]
<1>1. i \in 1..n /\ Cardinality(Before(times, i)) = r
  BY MergeOrderPlaces
<1>. HIDE DEF i
<1>2. Before(times, i) = 1..i
  BY <1>1 DEF Before, Ascending
<1>3. Cardinality(1..i) = i
  BY <1>1, FS_Interval
<1>. QED
  BY <1>1, <1>2, <1>3 DEF i

-----------------------------------------------------------------------------
LEMMA ReplayInvNext == ResearchInv /\ [Next]_vars => ReplayInv'
  <1> SUFFICES ASSUME ResearchInv, [Next]_vars PROVE ReplayInv'
    OBVIOUS
  <1>1. ReplayInv /\ Len(Stamps) \in Nat
    BY StampsTyped DEF ResearchInv
  <1>2. CASE Evaluate
    <2>1. bar \in Bars /\ cutoff' = Stamps[bar] /\ pc' # "evaluate"
      BY <1>1, <1>2 DEF Evaluate, ReplayInv, NextBar
    <2>2. bar' \in Nat \ {0}
      BY <1>1, <1>2 DEF Evaluate, ReplayInv, NextBar
    <2>3. candidates' \in Seq(CandidateSet)
      <3>1. CASE UNCHANGED candidates
        BY <1>1, <3>1 DEF ReplayInv
      <3>2. CASE \E d \in {s[2] : s \in {s \in Signals : s[1] = bar}} :
                    candidates' = Append(candidates, [bar |-> bar, direction |-> d,
                                                      horizon |-> Horizon(cutoff')])
        <4>1. PICK d \in {s[2] : s \in {s \in Signals : s[1] = bar}} :
                  candidates' = Append(candidates, [bar |-> bar, direction |-> d,
                                                    horizon |-> Horizon(Stamps[bar])])
          BY <2>1, <3>2
        <4>2. d \in {s[2] : s \in Signals}
          OBVIOUS
        <4>3. Horizon(Stamps[bar]) \in {Horizon(Stamps[i]) : i \in Bars}
          BY <2>1, Zenon
        <4>4. [bar |-> bar, direction |-> d, horizon |-> Horizon(Stamps[bar])] \in CandidateSet
          BY <2>1, <4>2, <4>3 DEF CandidateSet
        <4> QED
          BY <1>1, <4>1, <4>4 DEF ReplayInv
      <3> QED
        BY <1>2, <3>1, <3>2 DEF Evaluate
    <2> QED
      BY <2>1, <2>2, <2>3 DEF ReplayInv
  <1>3. CASE Classify
    BY <1>1, <1>3 DEF Classify, ReplayInv, NextBar, Bars
  <1>4. CASE SkipWarmup
    BY <1>1, <1>4 DEF SkipWarmup, ReplayInv, NextBar
  <1>5. CASE ~Evaluate /\ ~Classify /\ ~SkipWarmup
    <2>1. UNCHANGED <<bar, candidates>> /\ (pc' = pc \/ pc' # "evaluate")
      BY <1>5 DEF Next, vars, replayVars, ReplayEnds, SkipShortFuture, LabelLoss, LabelWin,
          WalkOn, LabelTimeout, Record, LabelsEnd, ResolveLabels, AddRow, SkipRow, MatrixEnds,
          MakeFold, FoldsEnd, Train
    <2> QED
      BY <1>1, <2>1 DEF ReplayInv
  <1> QED
    BY <1>2, <1>3, <1>4, <1>5

LEMMA LabelInvNext == ResearchInv /\ [Next]_vars => LabelInv'
  <1> SUFFICES ASSUME ResearchInv, [Next]_vars PROVE LabelInv'
    OBVIOUS
  <1>1. ReplayInv /\ LabelInv /\ Len(Stamps) \in Nat
    BY StampsTyped DEF ResearchInv
  <1>2. \A k \in Nat \ {0} : k <= Len(candidates) => /\ candidates[k] \in CandidateSet
                                                     /\ candidates[k].bar \in Nat
                                                     /\ candidates[k].bar <= Len(Stamps)
    <2>1. \A k \in Nat \ {0} : k <= Len(candidates) => candidates[k] \in CandidateSet
      BY <1>1 DEF ReplayInv
    <2>2. \A c \in CandidateSet : c.bar \in Nat /\ c.bar <= Len(Stamps)
      BY <1>1 DEF CandidateSet, Bars
    <2> QED
      BY <2>1, <2>2
  <1>3. ASSUME Labelling, UNCHANGED <<pc, candidates>>, NextCandidate,
               labeled' \in Seq(LabelSet)
        PROVE  LabelInv'
    BY <1>1, <1>2, <1>3 DEF Labelling, NextCandidate, LabelInv
  <1>4. ASSUME Walking, NEW outcome \in {"WIN", "LOSS", "TIMEOUT"}, NEW exit \in Bars,
               Record(outcome, exit)
        PROVE  LabelInv'
    <2>1. Labelling /\ UNCHANGED <<pc, candidates>> /\ NextCandidate
      BY <1>4 DEF Walking, Record, replayVars
    <2>2. Candidate \in CandidateSet
      BY <1>1, <1>2, <2>1 DEF Labelling, Candidate, LabelInv
    <2>3. labeled' \in Seq(LabelSet)
      BY <1>1, <1>4, <2>2 DEF Record, LabelInv, LabelSet
    <2> QED
      BY <1>3, <2>1, <2>3
  <1>5. Walking => /\ Candidate.bar \in Nat \ {0} /\ Candidate.bar + offset <= Len(Stamps)
                   /\ LookedAt = Candidate.bar + offset + 1
    BY <1>1, <1>2 DEF Walking, Labelling, Candidate, LabelInv, LookedAt, CandidateSet, Bars
  <1>6. CASE LabelLoss
    <2>1. Walking /\ LookedAt \in Bars /\ Record("LOSS", LookedAt)
      BY <1>1, <1>5, <1>6 DEF LabelLoss, LookaheadLeft, LabelInv, Bars
    <2> QED
      BY <1>4, <2>1
  <1>7. CASE LabelWin
    <2>1. Walking /\ LookedAt \in Bars /\ Record("WIN", LookedAt)
      BY <1>1, <1>5, <1>7 DEF LabelWin, LookaheadLeft, LabelInv, Bars
    <2> QED
      BY <1>4, <2>1
  <1>8. CASE LabelTimeout
    <2>1. Walking /\ LookedAt - 1 \in Bars /\ Record("TIMEOUT", LookedAt - 1)
      BY <1>1, <1>5, <1>8 DEF LabelTimeout, LabelInv, Bars
    <2> QED
      BY <1>4, <2>1
  <1>9. CASE SkipShortFuture
    BY <1>1, <1>3, <1>9 DEF SkipShortFuture, replayVars, LabelInv
  <1>10. CASE WalkOn
    <2>1. LookedAt <= Len(Stamps) /\ Walking /\ offset' = offset + 1
      BY <1>10 DEF WalkOn, LookaheadLeft
    <2>2. UNCHANGED <<pc, candidates, current, labeled>> /\ pc = "label"
      BY <1>10 DEF WalkOn, replayVars, Walking, Labelling
    <2> QED
      BY <1>1, <1>5, <2>1, <2>2 DEF LabelInv, Candidate
  <1>11. CASE ReplayEnds
    BY <1>1, <1>2, <1>11 DEF ReplayEnds, replayVars, labelVars, LabelInv
  <1>12. CASE SkipWarmup \/ Classify \/ Evaluate
    <2>1. /\ pc \in {"classify", "evaluate"} /\ pc' # "label"
          /\ UNCHANGED <<current, offset, labeled>>
      BY <1>12 DEF SkipWarmup, Classify, Evaluate, NextBar, labelVars
    <2> QED
      BY <1>1, <2>1 DEF LabelInv
  <1>13. CASE \/ LabelsEnd \/ ResolveLabels \/ AddRow \/ SkipRow \/ MatrixEnds
              \/ MakeFold \/ FoldsEnd \/ Train \/ UNCHANGED vars
    <2>1. /\ UNCHANGED <<candidates, current, offset, labeled>>
          /\ pc' = pc \/ pc' \notin {"classify", "evaluate", "label"}
      BY <1>13 DEF LabelsEnd, ResolveLabels, AddRow, SkipRow, MatrixEnds, MakeFold, FoldsEnd,
          Train, vars, replayVars, labelVars
    <2> QED
      BY <1>1, <2>1 DEF LabelInv
  <1> QED
    BY <1>6, <1>7, <1>8, <1>9, <1>10, <1>11, <1>12, <1>13 DEF Next

LEMMA TimesTyped ==
    /\ \A l \in LabelSet : l.candidate \in CandidateSet /\ TimeOf(l) \in Nat
    /\ \A c \in CandidateSet : Stamps[c.bar] \in Nat
  BY StampsTyped DEF LabelSet, CandidateSet, TimeOf

(* The table is in the order of time, whatever it was made of.             *)
LEMMA ResolvedSorted ==
    ASSUME NEW given \in Seq(LabelSet)
    PROVE  Resolved(given) \in Seq(LabelSet) /\ Ascending(TableTimes(Resolved(given)))
<1>. DEFINE n == Len(given)
            times == TableTimes(given)
            order == MergeOrder(times)
<1>1. n \in Nat /\ DOMAIN given = 1..n /\ \A i \in 1..n : given[i] \in LabelSet
  OBVIOUS
<1>2. times \in [1..n -> Nat] /\ \A i \in 1..n : times[i] = TimeOf(given[i])
  BY <1>1, TimesTyped DEF TableTimes, TimeOf
<1>. HIDE DEF n, times
<1>3. \A r \in 1..n : order[r] \in 1..n
  BY <1>1, <1>2, MergeOrderPlaces
<1>4. \A r, q \in 1..n : r <= q => times[order[r]] <= times[order[q]]
  BY <1>1, <1>2, MergeOrderSorts
<1>. HIDE DEF order
<1>5. Resolved(given) = [r \in 1..n |-> given[order[r]]]
  BY <1>1 DEF Resolved, order, times
<1>6. Resolved(given) \in Seq(LabelSet)
  BY <1>1, <1>3, <1>5
<1>7. \A r \in 1..n : TimeOf(Resolved(given)[r]) = times[order[r]]
  BY <1>2, <1>3, <1>5
<1>8. /\ DOMAIN TableTimes(Resolved(given)) = 1..n
      /\ \A r \in 1..n : TableTimes(Resolved(given))[r] = TimeOf(Resolved(given)[r])
  BY <1>5 DEF TableTimes, TimeOf
<1>9. Ascending(TableTimes(Resolved(given)))
  BY <1>4, <1>7, <1>8 DEF Ascending
<1>. QED
  BY <1>6, <1>9

(* The rows are in the order of time already: the sort moves none of them. *)
LEMMA RowsStay ==
    ASSUME MatrixInv, NEW r \in Rows
    PROVE  MergeOrder(RowTimes)[r] = r
<1>1. Len(features) \in Nat /\ RowTimes \in [1..Len(features) -> Nat]
  BY TimesTyped DEF MatrixInv, RowTimes, RowTime, Rows
<1>. QED
  BY <1>1, MergeOrderKeeps DEF MatrixInv, Rows

LEMMA MatrixInvNext == ResearchInv /\ [Next]_vars => MatrixInv'
  <1> SUFFICES ASSUME ResearchInv, [Next]_vars PROVE MatrixInv'
    OBVIOUS
  <1>1. LabelInv /\ MatrixInv
    BY DEF ResearchInv
  <1>2. CASE ResolveLabels
    <2>1. PICK j \in 1..Len(labeled) + 1 : \E k \in {j - 1, j} \cap 0..Len(labeled) :
              table' = Resolved(Joined(j, k))
      BY <1>2 DEF ResolveLabels
    <2>2. PICK k \in 0..Len(labeled) : table' = Resolved(Joined(j, k))
      BY <2>1
    <2>3. Joined(j, k) \in Seq(LabelSet)
      <3>1. labeled \in Seq(LabelSet)
        BY <1>1 DEF LabelInv
      <3>2. /\ SubSeq(labeled, j, Len(labeled)) \in Seq(LabelSet)
            /\ SubSeq(labeled, 1, k) \in Seq(LabelSet)
        BY <3>1
      <3> QED
        BY <3>2 DEF Joined
    <2>4. table' \in Seq(LabelSet) /\ Ascending(TableTimes(table'))
      BY <2>2, <2>3, ResolvedSorted
    <2>5. /\ features = <<>> /\ pc' = "matrix" /\ UNCHANGED <<row, features, targets>>
      BY <1>1, <1>2 DEF ResolveLabels, MatrixInv
    <2> QED
      BY <1>1, <2>4, <2>5 DEF MatrixInv, MatrixAligned, TableTimes, RowTimes, RowTime, Rows
  <1>3. CASE AddRow
    <2>1. row \in DOMAIN table /\ table[row] \in LabelSet
      BY <1>1, <1>3 DEF AddRow, MatrixInv
    <2>2. /\ features' = Append(features, table[row].candidate)
          /\ targets' = Append(targets, table[row])
          /\ row' = row + 1 /\ UNCHANGED <<pc, table>> /\ pc = "matrix"
      BY <1>3 DEF AddRow
    <2>3. table[row].candidate \in CandidateSet
      BY <2>1, TimesTyped
    <2>4. /\ features' \in Seq(CandidateSet) /\ Len(features') = Len(features) + 1
          /\ \A i \in Rows : features'[i] = features[i]
          /\ features'[Len(features) + 1] = table[row].candidate
          /\ Len(features) \in Nat
      BY <1>1, <2>2, <2>3 DEF MatrixInv, Rows
    <2>5. \A i \in Rows : Stamps[features[i].bar] \in Nat
      BY <1>1, TimesTyped DEF MatrixInv, Rows
    <2>6. \A k \in DOMAIN table : TimeOf(table[k]) \in Nat /\ k \in Nat
      BY <1>1, TimesTyped DEF MatrixInv
    <2>7. \A k \in DOMAIN table : row <= k => TimeOf(table[row]) <= TimeOf(table[k])
      BY <1>1, <2>1 DEF MatrixInv, Ascending, TableTimes, TimeOf
    <2>8. \A i \in Rows : \A k \in DOMAIN table :
              row <= k => Stamps[features[i].bar] <= TimeOf(table[k])
      BY <1>1, <2>2 DEF MatrixInv, RowTime
    <2>9. \A i \in Rows' : \A k \in DOMAIN table :
              row + 1 <= k => Stamps[features'[i].bar] <= TimeOf(table[k])
      <3> SUFFICES ASSUME NEW i \in Rows', NEW k \in DOMAIN table, row + 1 <= k
                   PROVE  Stamps[features'[i].bar] <= TimeOf(table[k])
        OBVIOUS
      <3>1. row <= k
        BY <1>1, <2>6 DEF MatrixInv
      <3>2. CASE i \in Rows
        BY <2>4, <2>8, <3>1, <3>2
      <3>3. CASE i \notin Rows
        <4>1. i = Len(features) + 1
          BY <2>4, <3>3 DEF Rows
        <4>2. Stamps[features'[i].bar] = TimeOf(table[row])
          BY <2>4, <4>1 DEF TimeOf
        <4> QED
          BY <2>7, <3>1, <4>2
      <3> QED
        BY <3>2, <3>3
    <2>10. \A i, j \in Rows : i <= j => Stamps[features[i].bar] <= Stamps[features[j].bar]
      BY <1>1 DEF MatrixInv, Ascending, RowTimes, RowTime
    <2>11. \A i, j \in Rows' : i <= j => Stamps[features'[i].bar] <= Stamps[features'[j].bar]
      <3> SUFFICES ASSUME NEW i \in Rows', NEW j \in Rows', i <= j
                   PROVE  Stamps[features'[i].bar] <= Stamps[features'[j].bar]
        OBVIOUS
      <3>1. CASE j \in Rows
        <4>1. i \in Rows
          BY <2>4, <3>1 DEF Rows
        <4> QED
          BY <2>4, <2>10, <3>1, <4>1
      <3>2. CASE j \notin Rows
        <4>1. j = Len(features) + 1 /\ Stamps[features'[j].bar] = TimeOf(table[row])
          BY <2>4, <3>2 DEF Rows, TimeOf
        <4>2. CASE i \in Rows
          <5>1. Stamps[features[i].bar] <= TimeOf(table[row])
            BY <1>1, <2>1, <2>8, <4>2 DEF MatrixInv
          <5> QED
            BY <2>4, <4>1, <4>2, <5>1
        <4>3. CASE i \notin Rows
          <5>1. i = j
            BY <2>4, <4>1, <4>3 DEF Rows
          <5> QED
            BY <2>1, <2>6, <4>1, <5>1
        <4> QED
          BY <4>2, <4>3
      <3> QED
        BY <3>1, <3>2
    <2>12. Ascending(RowTimes)'
      BY <2>11 DEF Ascending, RowTimes, RowTime
    <2>13. targets' \in Seq(LabelSet) /\ MatrixAligned'
      BY <1>1, <2>1, <2>2, <2>4 DEF MatrixInv, MatrixAligned, Rows
    <2>14. Ascending(TableTimes(table))'
      BY <1>1, <2>2 DEF MatrixInv, Ascending, TableTimes
    <2>15. (\A i \in Rows, k \in DOMAIN table : row <= k => RowTime(i) <= TimeOf(table[k]))'
      BY <2>2, <2>9 DEF RowTime, TimeOf
    <2>16. /\ (row \in Nat \ {0} /\ table \in Seq(LabelSet))' /\ (features \in Seq(CandidateSet))'
           /\ pc' = "matrix"
      BY <1>1, <2>2, <2>4 DEF MatrixInv
    <2> QED
      BY <2>12, <2>13, <2>14, <2>15, <2>16, Zenon DEF MatrixInv
  <1>4. CASE SkipRow
    <2>1. /\ UNCHANGED <<pc, table, features, targets>> /\ row' = row + 1 /\ pc = "matrix"
      BY <1>4 DEF SkipRow
    <2>2. \A i \in Rows, k \in DOMAIN table : row + 1 <= k => RowTime(i) <= TimeOf(table[k])
      <3>1. \A k \in DOMAIN table : k \in Nat /\ row \in Nat
        BY <1>1 DEF MatrixInv
      <3>2. \A k \in DOMAIN table : row + 1 <= k => row <= k
        BY <3>1
      <3> QED
        BY <1>1, <2>1, <3>2 DEF MatrixInv
    <2> QED
      BY <1>1, <2>1, <2>2
      DEF MatrixInv, MatrixAligned, Rows, RowTime, RowTimes, TimeOf, Ascending, TableTimes
  <1>5. CASE MatrixEnds
    <2>1. /\ features' = [r \in Rows |-> features[MergeOrder(RowTimes)[r]]]
          /\ UNCHANGED <<table, row, targets>> /\ pc' \in {"failed", "fold"}
      BY <1>5 DEF MatrixEnds
    <2>2. features' = [r \in Rows |-> features[r]]
      BY <1>1, <2>1, RowsStay
    <2>3. features' = features
      BY <1>1, <2>2 DEF MatrixInv, Rows
    <2> QED
      BY <1>1, <2>1, <2>3
      DEF MatrixInv, MatrixAligned, Rows, RowTime, RowTimes, TimeOf, Ascending, TableTimes
  <1>6. CASE ~ResolveLabels /\ ~AddRow /\ ~SkipRow /\ ~MatrixEnds
    <2>1. /\ UNCHANGED <<table, row, features, targets>>
          /\ pc' = "matrix" => pc = "matrix"
          /\ pc' \in {"classify", "evaluate", "label", "resolve"} =>
                 pc \in {"classify", "evaluate", "label", "resolve"}
      BY <1>6 DEF Next, vars, matrixVars, ReplayEnds, SkipWarmup, Classify, Evaluate, NextBar,
          SkipShortFuture, Labelling, Walking, LabelLoss, LabelWin, WalkOn, LabelTimeout,
          Record, LabelsEnd, MakeFold, FoldsEnd, Train
    <2> QED
      BY <1>1, <2>1
      DEF MatrixInv, MatrixAligned, Rows, RowTime, RowTimes, TimeOf, Ascending, TableTimes
  <1> QED
    BY <1>2, <1>3, <1>4, <1>5, <1>6

(* A training row opens a purge and an embargo before the test window.     *)
LEMMA TrainRowsEarly ==
    ASSUME ResearchInv
    PROVE  /\ TrainRows \subseteq Rows /\ TrainRows \subseteq Nat /\ TestRows \subseteq Nat
           /\ TestStart \in Int
           /\ \A i \in TrainRows : RowTime(i) < TestStart - Embargo - Purge
  <1>1. \A i \in Rows : i \in Nat /\ RowTime(i) \in Nat
    <2>1. \A i \in Rows : i \in Nat /\ features[i] \in CandidateSet
      BY DEF ResearchInv, MatrixInv, Rows
    <2>2. \A c \in CandidateSet : Stamps[c.bar] \in Nat
      BY StampsTyped DEF CandidateSet
    <2> QED
      BY <2>1, <2>2 DEF RowTime
  <1>2. trainEnd \in Int
    BY DEF ResearchInv, FoldInv
  <1> QED
    BY <1>1, <1>2, StampsTyped DEF TrainRows, TestRows, TestStart

LEMMA FoldInvNext == ResearchInv /\ [Next]_vars => FoldInv'
  <1> SUFFICES ASSUME ResearchInv, [Next]_vars PROVE FoldInv'
    OBVIOUS
  <1>1. MatrixInv /\ FoldInv
    BY DEF ResearchInv
  <1>2. CASE MakeFold
    <2>1. UNCHANGED <<pc, features>> /\ trainEnd' = trainEnd + StepLen /\ pc = "fold"
      BY <1>2 DEF MakeFold, matrixVars
    <2>2. CASE folds' = folds
      BY <1>1, <2>1, <2>2, StampsTyped DEF FoldInv, Rows, RowTime
    <2>3. CASE folds' = Append(folds, [train |-> TrainRows, test |-> TestRows,
                                       testStart |-> TestStart])
      <3> DEFINE fold == [train |-> TrainRows, test |-> TestRows, testStart |-> TestStart]
      <3>1. fold \in FoldSet
        BY TrainRowsEarly DEF FoldSet
      <3>2. \A i \in fold.train : i \in Rows /\ RowTime(i) < fold.testStart - Embargo - Purge
        BY TrainRowsEarly
      <3>3. folds' = Append(folds, fold)
        BY <2>3
      <3> HIDE DEF fold
      <3>4. folds' \in Seq(FoldSet)
        BY <1>1, <3>1, <3>3 DEF FoldInv
      <3>5. \A f \in 1..Len(folds') : \A i \in folds'[f].train :
                i \in Rows /\ RowTime(i) < folds'[f].testStart - Embargo - Purge
        BY <1>1, <3>1, <3>2, <3>3 DEF FoldInv
      <3> QED
        BY <1>1, <2>1, <3>4, <3>5, StampsTyped DEF FoldInv, Rows, RowTime
    <2> QED
      BY <1>2, <2>2, <2>3 DEF MakeFold
  <1>3. CASE ResolveLabels \/ AddRow \/ SkipRow
    <2>1. UNCHANGED <<folds, trainEnd>> /\ folds = <<>>
      BY <1>1, <1>3 DEF ResolveLabels, AddRow, SkipRow, foldVars, FoldInv
    <2> QED
      BY <1>1, <2>1 DEF FoldInv
  <1>4. CASE MatrixEnds
    <2>1. folds' = folds /\ folds = <<>>
      BY <1>1, <1>4 DEF MatrixEnds, FoldInv
    <2>2. trainEnd' \in Int
      <3>1. CASE Len(features) < 2
        BY <1>1, <1>4, <3>1 DEF MatrixEnds, FoldInv
      <3>2. CASE ~(Len(features) < 2)
        <4>1. MergeOrder(RowTimes)[1] = 1 /\ features[1] \in CandidateSet
          BY <1>1, <3>2, RowsStay DEF MatrixInv, Rows
        <4>2. RowTime(MergeOrder(RowTimes)[1]) \in Int
          BY <4>1, TimesTyped DEF RowTime
        <4> QED
          BY <1>4, <3>2, <4>2, StampsTyped DEF MatrixEnds
      <3> QED
        BY <3>1, <3>2
    <2> QED
      BY <1>1, <2>1, <2>2 DEF FoldInv
  <1>5. CASE ~MakeFold /\ ~ResolveLabels /\ ~AddRow /\ ~SkipRow /\ ~MatrixEnds
    <2>1. /\ UNCHANGED <<features, folds, trainEnd>>
          /\ pc' \in {"classify", "evaluate", "label", "resolve", "matrix"} =>
                 pc \in {"classify", "evaluate", "label", "resolve", "matrix"}
      BY <1>5 DEF Next, vars, matrixVars, foldVars, ReplayEnds, SkipWarmup, Classify, Evaluate,
          NextBar, SkipShortFuture, Labelling, Walking, LabelLoss, LabelWin, WalkOn,
          LabelTimeout, Record, LabelsEnd, FoldsEnd, Train
    <2> QED
      BY <1>1, <2>1 DEF FoldInv, Rows, RowTime
  <1> QED
    BY <1>2, <1>3, <1>4, <1>5

(* Rows are made of existing bars and folds of rows that open early enough. *)
THEOREM ResearchInvariant == Spec => []ResearchInv
  <1>1. ResearchInv /\ [Next]_vars => ResearchInv'
    BY ReplayInvNext, LabelInvNext, MatrixInvNext, FoldInvNext DEF ResearchInv
  <1> QED
    BY <1>1, ResearchInvInit, PTL DEF Spec

(* Features and label of a row always belong to the same candidate.        *)
THEOREM MatrixAlignedHolds == Spec => []MatrixAligned
  <1>1. ResearchInv => MatrixAligned
    BY DEF ResearchInv, MatrixInv
  <1> QED
    BY <1>1, ResearchInvariant, PTL

(* A label leaks into the test window of its fold only if its trade was    *)
(* held for longer than purge and embargo together.                        *)
THEOREM LeakOnlyAcrossGapsHolds == Spec => []LeakOnlyAcrossGaps
  <1>1. ASSUME ResearchInv, NEW f \in DOMAIN folds, NEW i \in folds[f].train,
               Stamps[targets[i].exit] >= folds[f].testStart
        PROVE  Stamps[targets[i].exit] - Stamps[targets[i].candidate.bar] > Purge + Embargo
    <2>1. /\ i \in Rows /\ RowTime(i) < folds[f].testStart - Embargo - Purge
          /\ folds[f].testStart \in Int
      <3>1. folds \in Seq(FoldSet)
        BY <1>1 DEF ResearchInv, FoldInv
      <3>2. f \in 1..Len(folds) /\ folds[f] \in FoldSet
        BY <3>1
      <3>3. i \in Rows /\ RowTime(i) < folds[f].testStart - Embargo - Purge
        BY <1>1, <3>2 DEF ResearchInv, FoldInv
      <3> QED
        BY <3>2, <3>3 DEF FoldSet
    <2>2. /\ targets[i] \in LabelSet
          /\ features[i] = targets[i].candidate
      BY <1>1, <2>1 DEF ResearchInv, MatrixInv, MatrixAligned, Rows
    <2>3. Stamps[targets[i].exit] \in Nat /\ Stamps[targets[i].candidate.bar] \in Nat
      BY <2>2, StampsTyped DEF LabelSet, CandidateSet
    <2>4. RowTime(i) = Stamps[targets[i].candidate.bar]
      BY <2>2 DEF RowTime
    <2> DEFINE closed == Stamps[targets[i].exit]
               opened == Stamps[targets[i].candidate.bar]
               start  == folds[f].testStart
    <2>5. opened < start - Embargo - Purge /\ closed >= start
      BY <1>1, <2>1, <2>4
    <2>6. opened \in Nat /\ closed \in Nat /\ start \in Int
      BY <2>1, <2>3
    <2>7. Purge \in Nat /\ Embargo \in Nat
      BY StampsTyped
    <2> HIDE DEF closed, opened, start
    <2>8. closed - opened > Purge + Embargo
      BY <2>5, <2>6, <2>7
    <2> QED
      BY <2>8 DEF closed, opened
  <1>2. ResearchInv => LeakOnlyAcrossGaps
    BY <1>1 DEF LeakOnlyAcrossGaps
  <1> QED
    BY <1>2, ResearchInvariant, PTL
-----------------------------------------------------------------------------
(* Labels *)

(* No barrier of c is touched after its bar, up to bar i.                   *)
Undecided(c, i) ==
    \A j \in Bars : c.bar < j /\ j <= i => ~StopHit(c, j) /\ ~TargetHit(c, j)

(* What each outcome says of the bars walked over, the exit being the bar   *)
(* that decides or the last of the time to live.                            *)
Decided(l) ==
    LET c == l.candidate IN
    /\ c.bar < l.exit /\ l.exit <= c.bar + Ttl
    /\ Undecided(c, l.exit - 1)
    /\ \/ l.outcome = "LOSS" /\ StopHit(c, l.exit)
       \/ l.outcome = "WIN" /\ TargetHit(c, l.exit) /\ ~StopHit(c, l.exit)
       \/ l.outcome = "TIMEOUT" /\ l.exit = c.bar + Ttl /\ Undecided(c, l.exit)

WalkInv ==
    /\ offset <= Ttl
    /\ Labelling => Undecided(Candidate, Candidate.bar + offset)
    /\ \A k \in 1..Len(labeled) : Decided(labeled[k])

LEMMA CandidateTyped ==
    ASSUME ResearchInv, Labelling
    PROVE  /\ Candidate \in CandidateSet
           /\ Candidate.bar \in Nat \ {0} /\ Candidate.bar <= Len(Stamps)
           /\ offset \in Nat /\ Candidate.bar + offset <= Len(Stamps)
           /\ LookedAt = Candidate.bar + offset + 1
  <1>1. candidates[current] \in CandidateSet
    BY DEF ResearchInv, ReplayInv, LabelInv, Labelling
  <1> QED
    BY <1>1, StampsTyped
    DEF ResearchInv, LabelInv, Labelling, Candidate, CandidateSet, Bars, LookedAt

LEMMA CandidateBar == ResearchInv /\ Labelling => Candidate.bar \in Nat
  BY CandidateTyped

LEMMA RecordDecided ==
    ASSUME ResearchInv, ResearchInv', WalkInv,
           NEW outcome \in {"WIN", "LOSS", "TIMEOUT"}, NEW exit \in Bars,
           Decided([candidate |-> Candidate, outcome |-> outcome, exit |-> exit]),
           Record(outcome, exit)
    PROVE  WalkInv'
  <1> DEFINE new == [candidate |-> Candidate, outcome |-> outcome, exit |-> exit]
  <1>1. /\ labeled' = Append(labeled, new) /\ labeled \in Seq(LabelSet)
        /\ UNCHANGED <<market, pc, candidates>> /\ offset' = 0 /\ current' = current + 1
    BY DEF Record, NextCandidate, replayVars, ResearchInv, LabelInv
  <1>2. Decided(new)
    OBVIOUS
  <1> HIDE DEF new
  <1>3. /\ Len(labeled') = Len(labeled) + 1 /\ Len(labeled) \in Nat
        /\ \A k \in 1..Len(labeled) : labeled'[k] = labeled[k]
        /\ labeled'[Len(labeled) + 1] = new
    BY <1>1
  <1>4. ASSUME NEW k \in 1..Len(labeled') PROVE Decided(labeled'[k])
    <2>1. CASE k \in 1..Len(labeled)
      BY <1>3, <2>1, Zenon DEF WalkInv
    <2>2. CASE k = Len(labeled) + 1
      BY <1>2, <1>3, <2>2, Zenon
    <2> QED
      BY <1>3, <2>1, <2>2
  <1>5. \A k \in 1..Len(labeled)' : Decided(labeled[k])'
    <2> SUFFICES ASSUME NEW k \in 1..Len(labeled') PROVE Decided(labeled[k])'
      OBVIOUS
    <2>1. Decided(labeled'[k])
      BY <1>4
    <2> QED
      BY <1>1, <2>1 DEF Decided, Undecided, StopHit, TargetHit, Stop, Target, Entry
  <1>6. ASSUME Labelling'
        PROVE  Undecided(Candidate, Candidate.bar + offset)'
    <2>1. (Candidate.bar \in Nat)'
      BY <1>6, CandidateBar, PTL
    <2> QED
      BY <1>1, <2>1 DEF Undecided, Bars
  <1> QED
    BY <1>1, <1>5, <1>6, StampsTyped DEF WalkInv

LEMMA WalkInvInit == Init => WalkInv
  BY StampsTyped DEF Init, WalkInv, Labelling

LEMMA WalkInvNext ==
    MinLookahead >= Ttl /\ ResearchInv /\ ResearchInv' /\ WalkInv /\ [Next]_vars => WalkInv'
  <1> SUFFICES ASSUME MinLookahead >= Ttl, ResearchInv, ResearchInv', WalkInv, [Next]_vars
               PROVE  WalkInv'
    OBVIOUS
  <1>1. Ttl \in Nat \ {0} /\ MinLookahead \in Nat /\ Len(Stamps) \in Nat
    BY ResearchAssumption
  <1>2. CASE LabelLoss
    <2>1. Labelling /\ LookaheadLeft /\ StopHit(Candidate, LookedAt) /\ Record("LOSS", LookedAt)
      BY <1>2 DEF LabelLoss, Walking
    <2>2. LookedAt \in Bars /\ Undecided(Candidate, LookedAt - 1)
      BY <1>1, <2>1, CandidateTyped DEF LookaheadLeft, Bars, WalkInv
    <2>3. Decided([candidate |-> Candidate, outcome |-> "LOSS", exit |-> LookedAt])
      BY <1>1, <2>1, <2>2, CandidateTyped DEF Decided, LookaheadLeft
    <2> QED
      BY <2>1, <2>2, <2>3, RecordDecided
  <1>3. CASE LabelWin
    <2>1. /\ Labelling /\ LookaheadLeft /\ Record("WIN", LookedAt)
          /\ ~StopHit(Candidate, LookedAt) /\ TargetHit(Candidate, LookedAt)
      BY <1>3 DEF LabelWin, Walking
    <2>2. LookedAt \in Bars /\ Undecided(Candidate, LookedAt - 1)
      BY <1>1, <2>1, CandidateTyped DEF LookaheadLeft, Bars, WalkInv
    <2>3. Decided([candidate |-> Candidate, outcome |-> "WIN", exit |-> LookedAt])
      BY <1>1, <2>1, <2>2, CandidateTyped DEF Decided, LookaheadLeft
    <2> QED
      BY <2>1, <2>2, <2>3, RecordDecided
  <1>4. CASE LabelTimeout
    <2>1. /\ Labelling /\ EnoughFuture /\ ~LookaheadLeft /\ Record("TIMEOUT", LookedAt - 1)
          /\ Undecided(Candidate, Candidate.bar + offset)
      BY <1>4 DEF LabelTimeout, Walking, WalkInv
    <2>2. offset = Ttl
      BY <1>1, <2>1, CandidateTyped DEF LookaheadLeft, EnoughFuture, Future, WalkInv
    <2>3. LookedAt - 1 = Candidate.bar + Ttl /\ LookedAt - 1 \in Bars
      BY <1>1, <2>1, <2>2, CandidateTyped DEF Bars
    <2>4. Undecided(Candidate, LookedAt - 2)
      BY <1>1, <2>1, <2>2, <2>3, CandidateTyped DEF Undecided, Bars
    <2>5. Decided([candidate |-> Candidate, outcome |-> "TIMEOUT", exit |-> LookedAt - 1])
      BY <1>1, <2>1, <2>2, <2>3, <2>4, CandidateTyped DEF Decided
    <2> QED
      BY <2>1, <2>3, <2>5, RecordDecided
  <1>5. CASE WalkOn
    <2>1. /\ Labelling /\ LookaheadLeft /\ offset' = offset + 1
          /\ ~StopHit(Candidate, LookedAt) /\ ~TargetHit(Candidate, LookedAt)
          /\ UNCHANGED <<market, candidates, current, labeled>>
      BY <1>5 DEF WalkOn, Walking, replayVars
    <2>2. Undecided(Candidate, Candidate.bar + offset)
      BY <2>1 DEF WalkInv
    <2>3. Undecided(Candidate, Candidate.bar + (offset + 1))
      BY <2>1, <2>2, CandidateTyped DEF Undecided, Bars
    <2>4. Undecided(Candidate, Candidate.bar + offset)'
      BY <2>1, <2>3 DEF Undecided, Candidate, StopHit, TargetHit, Stop, Target, Entry
    <2>5. \A k \in 1..Len(labeled)' : Decided(labeled[k])'
      BY <2>1 DEF WalkInv, Decided, Undecided, StopHit, TargetHit, Stop, Target, Entry
    <2> QED
      BY <1>1, <2>1, <2>4, <2>5, CandidateTyped DEF WalkInv, LookaheadLeft
  <1>6. CASE ~LabelLoss /\ ~LabelWin /\ ~LabelTimeout /\ ~WalkOn
    <2>1. UNCHANGED <<market, labeled>> /\ offset' \in {0, offset}
      BY <1>6 DEF Next, vars, replayVars, labelVars, ReplayEnds, SkipWarmup, Classify, Evaluate,
        SkipShortFuture, NextCandidate, LabelsEnd, ResolveLabels, AddRow, SkipRow, MatrixEnds,
        MakeFold, FoldsEnd, Train
    <2>2. \A k \in 1..Len(labeled)' : Decided(labeled[k])'
      BY <2>1 DEF WalkInv, Decided, Undecided, StopHit, TargetHit, Stop, Target, Entry
    <2>3. ASSUME Labelling' PROVE Undecided(Candidate, Candidate.bar + offset)'
      <3>1. CASE offset' = 0
        <4>1. (Candidate.bar \in Nat)'
          BY <2>3, CandidateBar, PTL
        <4> QED
          BY <3>1, <4>1 DEF Undecided, Bars
      <3>2. CASE offset' # 0
        <4>1. /\ Labelling /\ UNCHANGED <<market, candidates, current, offset>>
          BY <1>6, <2>1, <2>3, <3>2 DEF Labelling, ResearchInv, LabelInv, Next, vars, replayVars, labelVars,
            ReplayEnds, SkipWarmup, Classify, Evaluate, NextBar, SkipShortFuture, NextCandidate, LabelsEnd,
            ResolveLabels, AddRow, SkipRow, MatrixEnds, MakeFold, FoldsEnd, Train
        <4>2. Undecided(Candidate, Candidate.bar + offset)
          BY <4>1 DEF WalkInv
        <4> QED
          BY <4>1, <4>2 DEF Undecided, Candidate, StopHit, TargetHit, Stop, Target, Entry
      <3> QED
        BY <3>1, <3>2
    <2> QED
      BY <1>1, <2>1, <2>2, <2>3 DEF WalkInv
  <1> QED
    BY <1>2, <1>3, <1>4, <1>5, <1>6

(* A label decided bar by bar is the one a reader of the whole window gives. *)
LEMMA DecidedIsReference ==
    ASSUME NEW l \in LabelSet, Decided(l)
    PROVE  LET c == l.candidate
               window == {i \in Bars : c.bar < i /\ i <= c.bar + Ttl}
               first(Hit(_, _)) == {i \in window : Hit(c, i) /\ \A j \in window : Hit(c, j) => i <= j}
               stops == first(StopHit)
               targetsHit == first(TargetHit)
               won == \E i \in targetsHit : \A s \in stops : i < s
           IN  /\ l.outcome = "WIN" <=> won
               /\ l.outcome = "LOSS" <=> stops # {} /\ ~won
               /\ l.outcome = "TIMEOUT" => l.exit = c.bar + Ttl
               /\ l.exit \in CASE l.outcome = "WIN" -> targetsHit
                               [] l.outcome = "LOSS" -> stops
                               [] OTHER -> window
  <1> DEFINE c == l.candidate
             window == {i \in Bars : c.bar < i /\ i <= c.bar + Ttl}
             stops == {i \in window : StopHit(c, i) /\ \A j \in window : StopHit(c, j) => i <= j}
             targetsHit == {i \in window : TargetHit(c, i) /\ \A j \in window : TargetHit(c, j) => i <= j}
             won == \E i \in targetsHit : \A s \in stops : i < s
             agrees == /\ l.outcome = "WIN" <=> won
                       /\ l.outcome = "LOSS" <=> stops # {} /\ ~won
                       /\ l.outcome = "TIMEOUT" => l.exit = c.bar + Ttl
                       /\ l.exit \in CASE l.outcome = "WIN" -> targetsHit
                                       [] l.outcome = "LOSS" -> stops
                                       [] OTHER -> window
  <1>1. c.bar \in Nat /\ l.exit \in Nat /\ Ttl \in Nat
    BY StampsTyped DEF LabelSet, CandidateSet, Bars
  <1>2. l.exit \in window /\ window \subseteq Nat
    BY <1>1 DEF Decided, LabelSet, Bars
  <1>3. \A j \in window : j < l.exit => ~StopHit(c, j) /\ ~TargetHit(c, j)
    BY <1>1, <1>2 DEF Decided, Undecided
  <1>4. ASSUME l.outcome = "LOSS" PROVE agrees
    <2>1. StopHit(c, l.exit)
      BY <1>4 DEF Decided
    <2>2. l.exit \in stops
      BY <1>1, <1>2, <1>3, <2>1
    <2>3. ~won
      BY <1>1, <1>2, <1>3, <2>2
    <2> HIDE DEF won, stops, targetsHit, window, c
    <2> QED
      BY <1>4, <2>2, <2>3
  <1>5. ASSUME l.outcome = "WIN" PROVE agrees
    <2>1. TargetHit(c, l.exit) /\ ~StopHit(c, l.exit)
      BY <1>5 DEF Decided
    <2>2. l.exit \in targetsHit
      BY <1>1, <1>2, <1>3, <2>1
    <2>3. won
      <3>1. \A s \in stops : l.exit < s
        BY <1>1, <1>2, <1>3, <2>1
      <3> QED
        BY <2>2, <3>1
    <2> HIDE DEF won, stops, targetsHit, window, c
    <2> QED
      BY <1>5, <2>2, <2>3
  <1>6. ASSUME l.outcome = "TIMEOUT" PROVE agrees
    <2>1. l.exit = c.bar + Ttl /\ Undecided(c, l.exit)
      BY <1>6 DEF Decided
    <2>2. stops = {} /\ targetsHit = {}
      BY <1>1, <1>2, <2>1 DEF Undecided
    <2>3. ~won
      BY <2>2
    <2> HIDE DEF won, stops, targetsHit, window, c
    <2> QED
      BY <1>2, <1>6, <2>1, <2>2, <2>3
  <1>7. l.outcome \in {"LOSS", "WIN", "TIMEOUT"}
    BY DEF LabelSet
  <1>8. agrees
    BY <1>4, <1>5, <1>6, <1>7
  <1> HIDE DEF won, stops, targetsHit, window, c
  <1> QED
    BY <1>8, Zenon DEF won, stops, targetsHit, window, c

(* A label is what a reader of the future would say, for every history and  *)
(* every barrier, when candidates without a whole time to live of bars ahead *)
(* are skipped, as they are by default.                                      *)
THEOREM LabelsMatchReference == MinLookahead >= Ttl /\ Spec => []LabelMatchesReference
  <1> SUFFICES ASSUME MinLookahead >= Ttl PROVE Spec => []LabelMatchesReference
    OBVIOUS
  <1>1. ResearchInv /\ WalkInv => LabelMatchesReference
    <2> SUFFICES ASSUME ResearchInv, WalkInv, NEW l \in {labeled[i] : i \in DOMAIN labeled}
                 PROVE  l \in LabelSet /\ Decided(l)
      BY DecidedIsReference, Zenon DEF LabelMatchesReference
    <2>1. labeled \in Seq(LabelSet)
      BY DEF ResearchInv, LabelInv
    <2>2. PICK k \in 1..Len(labeled) : l = labeled[k]
      BY <2>1
    <2> QED
      BY <2>1, <2>2 DEF WalkInv
  <1>2. ResearchInv /\ ResearchInv' /\ WalkInv /\ [Next]_vars => WalkInv'
    BY WalkInvNext
  <1> QED
    BY <1>1, <1>2, WalkInvInit, ResearchInvariant, PTL DEF Spec
=============================================================================
