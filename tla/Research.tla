------------------------------- MODULE Research -------------------------------
(***************************************************************************)
(* The offline pipeline of the meta-labeler: replay of the signal agents   *)
(* over history, labelling by three barriers, the training matrix, the     *)
(* walk-forward folds and the checkpoint (ml/meta_labeler).                *)
(*                                                                         *)
(* A bar is known by its position; it opens at Stamps[i], lasts one unit,  *)
(* and the stamps jump where the market is closed.  H1 bars last HourLen   *)
(* units and are stamped, like all bars, with their opening time.  What    *)
(* the agents make of the prices is a choice of every step.                *)
(***************************************************************************)
EXTENDS Integers, Sequences, FiniteSets

CONSTANTS
    Stamps,         \* opening times of the M15 bars
    Markets,        \* histories: sequences of [high, low, close]
    HourLen,        \* units of an H1 bar
    HourHistory,    \* H1 bars before the first M15 bar
    Warmup, HourWarmup,
    Signals,        \* the <<bar, direction>> the agents may emit
    Raises,         \* on_error = "raise"
    StopDistance, TargetDistance,
    Ttl, MinLookahead,
    TrainLen, TestLen, StepLen, Purge, Embargo

ASSUME ResearchAssumption ==
    /\ Stamps \in Seq(Nat)
    /\ \A i, j \in 1..Len(Stamps) : i < j => Stamps[i] < Stamps[j]
    /\ {HourLen, Ttl, StopDistance, TargetDistance, TrainLen, TestLen, StepLen} \subseteq Nat \ {0}
    /\ {HourHistory, Warmup, HourWarmup, MinLookahead, Purge, Embargo} \subseteq Nat

VARIABLES
    market,
    pc,
    bar,            \* position of the replay
    cutoff,         \* HistoricalOhlcProvider.cutoff
    candidates,     \* sequence of [bar, direction, horizon]
    current,        \* the candidate being labelled
    offset,         \* bars of its lookahead already walked
    labeled,        \* sequence of [candidate, outcome, exit]
    table,          \* labeled_df, as the training reads it
    row,            \* its row whose features are next
    features, targets,      \* the rows of the matrix and their labels
    trainEnd,       \* current_train_end
    folds,          \* sequence of [train, test, testStart]
    trained,        \* folds with a result
    checkpoint      \* "none", "fitted" or "skipped_single_class"

replayVars == <<bar, cutoff, candidates>>
labelVars  == <<current, offset, labeled>>
matrixVars == <<table, row, features, targets>>
foldVars   == <<trainEnd, folds>>
trainVars  == <<trained, checkpoint>>
vars == <<market, pc, replayVars, labelVars, matrixVars, foldVars, trainVars>>

Bars == 1..Len(Stamps)

Init ==
    /\ market \in Markets
    /\ pc = "classify"
    /\ bar = Warmup + 1 /\ cutoff = 0 /\ candidates = <<>>
    /\ current = 1 /\ offset = 0 /\ labeled = <<>>
    /\ table = <<>> /\ row = 1 /\ features = <<>> /\ targets = <<>>
    /\ trainEnd = 0 /\ folds = <<>>
    /\ trained = {} /\ checkpoint = "none"

-----------------------------------------------------------------------------
(* replay_signals with the adapters of the core agents.  Slicing by label   *)
(* keeps every bar that has opened, the unfinished H1 bar with its full     *)
(* hour included.                                                           *)
HourStamps == {Stamps[i] - (Stamps[i] % HourLen) : i \in Bars}

HoursThrough(t) == {h \in HourStamps : h <= t}

LastHour(t) == CHOOSE h \in HoursThrough(t) : \A g \in HoursThrough(t) : g <= h

(* The latest moment whose price is in the H1 data up to t.  H4 bars are    *)
(* derived from H1 bars, stamped with the last one they hold, and see no    *)
(* further.                                                                 *)
Horizon(t) == LastHour(t) + HourLen

NextBar == bar' = bar + 1 /\ pc' = "classify"

ReplayEnds ==
    /\ pc = "classify" /\ bar > Len(Stamps)
    /\ pc' = "label"
    /\ UNCHANGED <<market, replayVars, labelVars, matrixVars, foldVars, trainVars>>

WarmingUp == HourHistory + Cardinality(HoursThrough(Stamps[bar])) < HourWarmup

SkipWarmup ==
    /\ pc = "classify" /\ bar <= Len(Stamps) /\ WarmingUp
    /\ NextBar
    /\ UNCHANGED <<market, cutoff, candidates, labelVars, matrixVars, foldVars, trainVars>>

(* CoreRegimeAgentAdapter.classify moves the cutoff before it can fail.     *)
Classify ==
    /\ pc = "classify" /\ bar <= Len(Stamps) /\ ~WarmingUp
    /\ cutoff' = LastHour(Stamps[bar])
    /\ \/ pc' = "evaluate" /\ UNCHANGED bar
       \/ NextBar                       \* NO_REGIME, or an error skipped
       \/ Raises /\ pc' = "failed" /\ UNCHANGED bar
    /\ UNCHANGED <<market, candidates, labelVars, matrixVars, foldVars, trainVars>>

(* CoreTechnicalAgentAdapter.evaluate: the agent fetches its three frames   *)
(* up to the cutoff, and the signal is entered at the close of the bar.     *)
Evaluate ==
    /\ pc = "evaluate"
    /\ cutoff' = Stamps[bar]
    /\ \/ /\ \E d \in {s[2] : s \in {s \in Signals : s[1] = bar}} :
               candidates' = Append(candidates, [bar |-> bar, direction |-> d,
                                                 horizon |-> Horizon(cutoff')])
          /\ NextBar
       \/ NextBar /\ UNCHANGED candidates
       \/ Raises /\ pc' = "failed" /\ UNCHANGED <<bar, candidates>>
    /\ UNCHANGED <<market, labelVars, matrixVars, foldVars, trainVars>>

-----------------------------------------------------------------------------
(* label_all and triple_barrier_label: one step for each bar looked at.     *)
Sign(c) == IF c.direction = "BUY" THEN 1 ELSE -1
Entry(c)  == market[c.bar].close
Stop(c)   == Entry(c) - Sign(c) * StopDistance
Target(c) == Entry(c) + Sign(c) * TargetDistance

StopHit(c, i) == IF c.direction = "BUY" THEN market[i].low <= Stop(c)
                                        ELSE market[i].high >= Stop(c)
TargetHit(c, i) == IF c.direction = "BUY" THEN market[i].high >= Target(c)
                                          ELSE market[i].low <= Target(c)

Candidate == candidates[current]
Future == Len(Stamps) - Candidate.bar
EnoughFuture == Future >= MinLookahead /\ Future > 0
Labelling == pc = "label" /\ current <= Len(candidates)
Walking == Labelling /\ EnoughFuture
LookedAt == Candidate.bar + offset + 1      \* the next bar of the lookahead
LookaheadLeft == offset < Ttl /\ LookedAt <= Len(Stamps)

NextCandidate == current' = current + 1 /\ offset' = 0

Record(outcome, exit) ==
    /\ labeled' = Append(labeled, [candidate |-> Candidate, outcome |-> outcome, exit |-> exit])
    /\ NextCandidate
    /\ UNCHANGED <<market, pc, replayVars, matrixVars, foldVars, trainVars>>

SkipShortFuture ==
    /\ Labelling /\ ~EnoughFuture
    /\ NextCandidate
    /\ UNCHANGED <<market, pc, replayVars, labeled, matrixVars, foldVars, trainVars>>

(* Mutant: the target is looked at first.                                   *)
LabelLoss_TargetFirst ==
    /\ Walking /\ LookaheadLeft /\ StopHit(Candidate, LookedAt)
    /\ Record(IF TargetHit(Candidate, LookedAt) THEN "WIN" ELSE "LOSS", LookedAt)

(* The stop is looked at first: a bar that touches both is a loss.          *)
LabelLoss ==
    /\ Walking /\ LookaheadLeft /\ StopHit(Candidate, LookedAt)
    /\ Record("LOSS", LookedAt)

LabelWin ==
    /\ Walking /\ LookaheadLeft /\ ~StopHit(Candidate, LookedAt)
    /\ TargetHit(Candidate, LookedAt)
    /\ Record("WIN", LookedAt)

WalkOn ==
    /\ Walking /\ LookaheadLeft
    /\ ~StopHit(Candidate, LookedAt) /\ ~TargetHit(Candidate, LookedAt)
    /\ offset' = offset + 1
    /\ UNCHANGED <<market, pc, replayVars, current, labeled, matrixVars, foldVars, trainVars>>

LabelTimeout == Walking /\ ~LookaheadLeft /\ Record("TIMEOUT", LookedAt - 1)

LabelsEnd ==
    /\ pc = "label" /\ current > Len(candidates)
    /\ pc' = "resolve"
    /\ UNCHANGED <<market, replayVars, labelVars, matrixVars, foldVars, trainVars>>

-----------------------------------------------------------------------------
(* sort_index(kind="mergesort"): the positions of a sequence of times in    *)
(* their order, equal times in the order they came.                         *)
Before(times, i) ==
    {j \in DOMAIN times : times[j] < times[i] \/ (times[j] = times[i] /\ j <= i)}
MergeOrder(times) ==
    [r \in DOMAIN times |-> CHOOSE i \in DOMAIN times : Cardinality(Before(times, i)) = r]

TableTimes(t) == [i \in DOMAIN t |-> Stamps[t[i].candidate.bar]]
RowTime(i) == Stamps[features[i].bar]
Rows == 1..Len(features)
RowTimes == [i \in Rows |-> RowTime(i)]

(* The table of labels is a file or an argument: this replay's, or that of  *)
(* a replay from the candidate j on followed by that of an earlier one up   *)
(* to the candidate k, which may meet in a row.                             *)
Joined(j, k) == SubSeq(labeled, j, Len(labeled)) \o SubSeq(labeled, 1, k)

(* Mutant: the table is taken in the order it comes in.                     *)
Resolved_AsGiven(given) == given

(* _resolve_labeled_dataframe.                                              *)
Resolved(given) ==
    [r \in DOMAIN given |-> given[MergeOrder(TableTimes(given))[r]]]

ResolveLabels ==
    /\ pc = "resolve"
    /\ \E j \in 1..Len(labeled) + 1 : \E k \in {j - 1, j} \cap 0..Len(labeled) :
          table' = Resolved(Joined(j, k))
    /\ pc' = "matrix"
    /\ UNCHANGED <<market, replayVars, labelVars, row, features, targets, foldVars, trainVars>>

(* _build_training_matrix: a row and its label are added together, after    *)
(* the features could be built.                                             *)
Binary(l) == IF l.outcome = "WIN" THEN 1 ELSE 0

AddRow ==
    /\ pc = "matrix" /\ row <= Len(table)
    /\ features' = Append(features, table[row].candidate)
    /\ targets' = Append(targets, table[row])
    /\ row' = row + 1
    /\ UNCHANGED <<market, pc, replayVars, labelVars, table, foldVars, trainVars>>

(* FeatureBuilder.build: too little history, or a feature not finite.       *)
SkipRow ==
    /\ pc = "matrix" /\ row <= Len(table)
    /\ row' = row + 1
    /\ UNCHANGED <<market, pc, replayVars, labelVars, table, features, targets, foldVars, trainVars>>

(* The features alone are sorted once more; the labels are put beside them  *)
(* in the order of the loop.  No rows, or a single one, is refused before   *)
(* any fold is generated.                                                   *)
MatrixEnds ==
    /\ pc = "matrix" /\ row > Len(table)
    /\ features' = [r \in Rows |-> features[MergeOrder(RowTimes)[r]]]
    /\ IF Len(features) < 2
       THEN pc' = "failed" /\ UNCHANGED trainEnd
       ELSE pc' = "fold" /\ trainEnd' = RowTime(MergeOrder(RowTimes)[1]) + TrainLen
    /\ UNCHANGED <<market, replayVars, labelVars, table, row, targets, folds, trainVars>>

-----------------------------------------------------------------------------
(* generate_walk_forward_folds.                                             *)
TestStart == trainEnd + Embargo
TestEnd == TestStart + TestLen
SeriesEnd == RowTime(Len(features))

(* Mutant: the training rows are not purged.                                *)
TrainRows_Unpurged == {i \in Rows : trainEnd - TrainLen <= RowTime(i) /\ RowTime(i) < trainEnd}

TrainRows == {i \in Rows : trainEnd - TrainLen <= RowTime(i) /\ RowTime(i) < trainEnd - Purge}
TestRows == {i \in Rows : TestStart <= RowTime(i) /\ RowTime(i) < TestEnd}

MakeFold ==
    /\ pc = "fold" /\ TestEnd <= SeriesEnd
    /\ folds' = IF TrainRows = {} \/ TestRows = {} THEN folds
                ELSE Append(folds, [train |-> TrainRows, test |-> TestRows,
                                    testStart |-> TestStart])
    /\ trainEnd' = trainEnd + StepLen
    /\ UNCHANGED <<market, pc, replayVars, labelVars, matrixVars, trainVars>>

FoldsEnd ==
    /\ pc = "fold" /\ TestEnd > SeriesEnd
    /\ pc' = IF folds = <<>> THEN "failed" ELSE "train"
    /\ UNCHANGED <<market, replayVars, labelVars, matrixVars, foldVars, trainVars>>

-----------------------------------------------------------------------------
(* train_baseline: a fold whose training rows have one class has no result. *)
(* _persist_baseline_checkpoint fits on all rows, whatever the folds said.  *)
Classes(rows) == {Binary(targets[i]) : i \in rows}

TrainedFolds == {f \in DOMAIN folds : Classes(folds[f].train) = {0, 1}}
ModelStatus == IF Classes(Rows) = {0, 1} THEN "fitted" ELSE "skipped_single_class"

Train ==
    /\ pc = "train"
    /\ trained' = TrainedFolds
    /\ checkpoint' = ModelStatus
    /\ pc' = "done"
    /\ UNCHANGED <<market, replayVars, labelVars, matrixVars, foldVars>>

Next ==
    \/ ReplayEnds \/ SkipWarmup \/ Classify \/ Evaluate
    \/ SkipShortFuture \/ LabelLoss \/ LabelWin \/ WalkOn \/ LabelTimeout \/ LabelsEnd
    \/ ResolveLabels \/ AddRow \/ SkipRow \/ MatrixEnds
    \/ MakeFold \/ FoldsEnd
    \/ Train

Spec == Init /\ [][Next]_vars

-----------------------------------------------------------------------------
(* Every variable has its kind, candidates and labelled candidates come in  *)
(* the order of time, and training and test rows are rows of the matrix.    *)
TypeOK ==
    /\ pc \in {"classify", "evaluate", "label", "resolve", "matrix", "fold", "train", "done", "failed"}
    /\ bar \in 1..Len(Stamps) + 1 /\ offset \in 0..Ttl
    /\ \A i, j \in DOMAIN candidates : i < j => candidates[i].bar < candidates[j].bar
    /\ \A i, j \in DOMAIN labeled : i < j => labeled[i].candidate.bar < labeled[j].candidate.bar
    /\ \A f \in DOMAIN folds : folds[f].train \cup folds[f].test \subseteq Rows
    /\ checkpoint \in {"none", "fitted", "skipped_single_class"}
    /\ checkpoint = "none" => trained = {}

(* "At each M15 bar, agents see ONLY data available at or before that bar   *)
(* close" (signal_replay.py:12): no price in what they were given when they *)
(* emitted a candidate is later than the close of its bar.                  *)
NothingBeyondClose ==
    \A i \in DOMAIN candidates : candidates[i].horizon <= Stamps[candidates[i].bar] + 1

(* A label is what a reader of the future would say: a win if the target is *)
(* touched within the time to live before any touch of the stop and not in  *)
(* the same bar, a loss if the stop is touched with no earlier target, and  *)
(* otherwise a timeout after the whole time to live; the bar of the         *)
(* decision itself is never looked at (label.py:121-220).                   *)
LabelMatchesReference ==
    \A l \in {labeled[i] : i \in DOMAIN labeled} :
        LET c == l.candidate
            window == {i \in Bars : c.bar < i /\ i <= c.bar + Ttl}
            first(Hit(_, _)) == {i \in window : Hit(c, i) /\ \A j \in window : Hit(c, j) => i <= j}
            stops == first(StopHit)
            targetsHit == first(TargetHit)
            won == \E i \in targetsHit : \A s \in stops : i < s
        IN  /\ l.outcome = "WIN" <=> won
            /\ l.outcome = "LOSS" <=> stops # {} /\ ~won
            /\ l.outcome = "TIMEOUT" => l.exit = c.bar + Ttl
            /\ l.exit \in CASE l.outcome = "WIN" -> targetsHit
                            [] l.outcome = "LOSS" -> stops
                            [] OTHER -> window

(* Features and label of a row belong to the same candidate, in whatever    *)
(* order the table of labels came, however many of its rows share a time    *)
(* and the feature builder refused: sorting the features alone moves none   *)
(* of them, or the model would be trained on the outcome of another trade   *)
(* (training_pipeline.py:203, 258-264).                                     *)
MatrixAligned ==
    /\ Len(features) = Len(targets)
    /\ \A i \in Rows : features[i] = targets[i].candidate

(* A training row whose label is decided inside or after the test window    *)
(* of its fold held its trade for longer than purge and embargo together,   *)
(* which the time to live allows only across a closed market                *)
(* (validation.py:131-145).                                                 *)
LeakOnlyAcrossGaps ==
    \A f \in DOMAIN folds : \A i \in folds[f].train :
        LET l == targets[i] IN
        Stamps[l.exit] >= folds[f].testStart =>
            Stamps[l.exit] - Stamps[l.candidate.bar] > Purge + Embargo
=============================================================================
