--------------------------- MODULE Decision_proofs ---------------------------
(***************************************************************************)
(* Proofs about a pass of the engine: one signal of a set of correlated    *)
(* symbols, the direction and the risk it is routed with, what its funnel  *)
(* says, and how often a bar is judged.                                    *)
(***************************************************************************)
EXTENDS DecisionProperties, FiniteSetTheorems, SequenceTheorems, TLAPS

-----------------------------------------------------------------------------
(* Types.                                                                  *)

Places == {"consume", "refresh", "candle", "cycle", "regime", "technical", "adversarial",
           "allocate", "rank", "reserve", "next", "ended"}
Entry == [symbol : Symbols, risk : 45..BaseRisk, broker : {"sent", "open", "gone"},
          row : {"none", "PENDING", "EXECUTED_OPEN", "CLOSED"}, known : SUBSET Nat]

ClockType ==
    /\ bar \in [Symbols -> 0..MaxBar]
    /\ lastBar \in [Symbols -> -1..MaxBar]
    /\ \A s \in Symbols : lastBar[s] <= bar[s]
    /\ judged \in [Symbols -> Nat]
    /\ pc \in Places
    /\ turn \in 1..Len(Order)

BookType ==
    /\ book \in Seq(Entry) /\ Len(book) <= MaxRouted
    /\ snapshot \subseteq Ids
    /\ account.known \subseteq Ids
    /\ proposal \in {"none", "REJECTED", "PENDING"}

Regimes == {RegimeOf(v, b) : v \in H1Views, b \in BOOLEAN}
SignalRecords ==
    [h1 : {Blank} \cup H1Views, regime : {Blank} \cup Regimes,
     direction : {Blank, "BUY", "SELL"}, risk : Int]
SignalType == signal \in SignalRecords

(* The symbol under evaluation is one of the loop's.                       *)
LEMMA TurnHasSymbol ==
    ASSUME turn \in 1..Len(Order)
    PROVE  Sym \in Symbols /\ turn \in DOMAIN Order
  BY OrderAssumption, LenProperties DEF Sym, Symbols

LEMMA ClockTypeInit == Init => ClockType
<1>1. Len(Order) \in Nat /\ Len(Order) # 0
  BY OrderAssumption, EmptySeq, LenProperties
<1> QED  BY <1>1, DecisionAssumption DEF Init, ClockType, Places

LEMMA ClockTypeNext == ClockType /\ [Next]_vars => ClockType'
<1> SUFFICES ASSUME ClockType, [Next]_vars PROVE ClockType'
  OBVIOUS
<1> USE DecisionAssumption DEF ClockType, Places, brokerVars, evalVars
<1>0. Len(Order) \in Nat /\ DOMAIN Order = 1..Len(Order)
  BY OrderAssumption, LenProperties
<1>1. ASSUME NEW s \in Symbols, CloseBar(s) PROVE ClockType'
  BY <1>1 DEF CloseBar
<1>2. CASE \E t \in Ids : Fill(t) \/ Finish(t)
  BY <1>2 DEF Fill, Finish
<1>3. CASE PublishSnapshot
  BY <1>3 DEF PublishSnapshot
<1>4. CASE ConsumeFeedback
  BY <1>4 DEF ConsumeFeedback
<1>5. CASE UpdateAccountState
  BY <1>5 DEF UpdateAccountState
<1>6. CASE CheckCandle
  BY <1>6 DEF CheckCandle, NewCandles
<1>7. CASE SkipCycle
  BY <1>7 DEF SkipCycle
<1>8. CASE BeginCycle
  BY <1>8, <1>0 DEF BeginCycle
<1>9. CASE EvaluateRegime
  <2>1. Sym \in Symbols
    BY TurnHasSymbol
  <2>2. /\ judged' = [judged EXCEPT ![Sym] = @ + 1]
        /\ pc' \in {"next", "technical"}
        /\ UNCHANGED <<bar, lastBar, turn>>
    BY <1>9, Zenon DEF EvaluateRegime, NextSymbol
  <2> QED  BY <2>1, <2>2
<1>10. CASE EvaluateTechnical
  BY <1>10 DEF EvaluateTechnical, NextSymbol
<1>11. CASE EvaluateAdversarial
  BY <1>11 DEF EvaluateAdversarial, RejectProposal, NextSymbol
<1>12. CASE Allocate
  BY <1>12 DEF Allocate, RejectProposal, NextSymbol
<1>13. CASE RankSignal
  BY <1>13 DEF RankSignal, NextSymbol
<1>14. CASE ReserveAndRoute
  BY <1>14 DEF ReserveAndRoute, Route, RouterFails, RejectProposal, NextSymbol
<1>15. CASE FinishSymbol
  <2>1. /\ pc' \in {"consume", "regime"}
        /\ turn' = 1 \/ (turn # Len(Order) /\ turn' = turn + 1)
        /\ UNCHANGED <<bar, lastBar, judged>>
    BY <1>15 DEF FinishSymbol
  <2>2. turn' \in 1..Len(Order)
    <3>1. turn \in 1..Len(Order) /\ Len(Order) \in Nat /\ Len(Order) # 0
      BY <1>0
    <3> HIDE DEF ClockType
    <3> QED  BY <3>1, <2>1
  <2> QED  BY <2>1, <2>2
<1>16. CASE UNCHANGED vars
  BY <1>16 DEF vars
<1> QED
  BY <1>1, <1>2, <1>3, <1>4, <1>5, <1>6, <1>7, <1>8, <1>9, <1>10, <1>11, <1>12, <1>13,
     <1>14, <1>15, <1>16 DEF Next, Market, Engine

(* What the regime agent and the adversarial agent may answer.             *)
LEMMA RatioIsInt ==
    ASSUME NEW v \in H1Views, NEW b
    PROVE  RegimeOf(v, b).ratio \in Int
<1>1. v.atr \in Int /\ v.atr90 \in Int
  BY ViewsAssumption
<1>2. CASE v.data # "ok"
  BY <1>2 DEF RegimeOf
<1>3. CASE v.data = "ok"
  <2>1. RegimeOf(v, b).ratio = IF v.atr90 <= 0 THEN 100 ELSE (v.atr * 100) \div v.atr90
    BY <1>3 DEF RegimeOf
  <2>2. v.atr90 > 0 => (v.atr * 100) \div v.atr90 \in Int
    BY <1>1
  <2> QED  BY <2>1, <2>2, <1>1
<1> QED  BY <1>2, <1>3

LEMMA DynamicRiskRange ==
    ASSUME NEW ratio \in Int
    PROVE  DynamicRisk(ratio) \in RiskFloor..BaseRisk
<1>1. Larger(ratio, 10) \in Int /\ Larger(ratio, 10) > 0
  BY DEF Larger
<1>2. (BaseRisk * 100) \div Larger(ratio, 10) \in Int
  BY <1>1 DEF BaseRisk
<1> QED  BY <1>2 DEF DynamicRisk, Larger, Least, RiskFloor, BaseRisk

LEMMA ModifierRange ==
    ASSUME NEW v, NEW d, NEW limit, NEW session, NEW n
    PROVE  RiskModifier(v, d, limit, session, n) \in {0, 60, 72, 80, 90, 100}
<1>1. SoftModifier(v, d) \in {72, 80, 90, 100}
  BY DEF SoftModifier
<1> QED  BY <1>1, Zenon DEF RiskModifier

LEMMA ScaledRisk ==
    ASSUME NEW r \in RiskFloor..BaseRisk, NEW m \in {60, 72, 80, 90, 100}
    PROVE  (r * m) \div 100 \in 90..BaseRisk
  BY DEF RiskFloor, BaseRisk

LEMMA ThrottledRisk ==
    ASSUME NEW r \in 90..BaseRisk, NEW n
    PROVE  (r * Throttle(n)) \div 100 \in 45..BaseRisk
<1>1. Throttle(n) \in {50, 75, 100}
  BY DEF Throttle
<1>2. (r * 50) \div 100 \in 45..320 /\ (r * 75) \div 100 \in 45..320
  BY DEF BaseRisk
<1>3. (r * 100) \div 100 \in 45..320
  BY DEF BaseRisk
<1> QED  BY <1>1, <1>2, <1>3 DEF BaseRisk

(* Two averages that point both ways have no regime of the other way.      *)
LEMMA RegimeFollowsAverages ==
    ASSUME NEW v \in H1Views, NEW b
    PROVE  /\ RegimeOf(v, b).regime = "TRENDING_BULL" => v.fast > v.slow
           /\ RegimeOf(v, b).regime = "TRENDING_BEAR" => v.fast < v.slow
<1>1. v.fast \in Int /\ v.slow \in Int
  BY ViewsAssumption
<1>2. /\ EmaTrend(v) = "BULLISH" => v.fast > v.slow
      /\ EmaTrend(v) = "BEARISH" => v.fast < v.slow
  BY <1>1 DEF EmaTrend
<1>3. /\ TrendState(v, b) = "BULLISH" => EmaTrend(v) = "BULLISH"
      /\ TrendState(v, b) = "BEARISH" => EmaTrend(v) = "BEARISH"
  BY DEF TrendState
<1>4. /\ RegimeOf(v, b).regime = "TRENDING_BULL" => TrendState(v, b) = "BULLISH"
      /\ RegimeOf(v, b).regime = "TRENDING_BEAR" => TrendState(v, b) = "BEARISH"
  BY DEF RegimeOf
<1> QED  BY <1>2, <1>3, <1>4

LEMMA RegimeInRegimes ==
    ASSUME NEW v \in H1Views, NEW b \in BOOLEAN
    PROVE  RegimeOf(v, b) \in Regimes
  BY DEF Regimes

LEMMA BlankSignal == NoSignal \in SignalRecords
  BY DEF NoSignal, SignalRecords

Evaluating == {"technical", "adversarial", "allocate", "rank", "reserve", "next", "ended"}

(* What is known of the signal at each stage.                              *)
SignalStages ==
    /\ pc \notin Evaluating => signal = NoSignal
    /\ pc = "technical" =>
          /\ signal.h1 \in H1Views
          /\ \E b \in BOOLEAN : signal.regime = RegimeOf(signal.h1, b)
          /\ signal.regime.regime \in Trending
          /\ signal.direction = Blank
    /\ pc = "adversarial" => signal.regime \in Regimes
    /\ pc = "allocate" => signal.risk \in 90..BaseRisk
    /\ pc \in {"rank", "reserve"} => signal.risk \in 45..BaseRisk

SignalInv == SignalType /\ SignalStages /\ DirectionFollowsRegime

LEMMA SignalInvInit == Init => SignalInv
<1> SUFFICES ASSUME Init PROVE SignalInv
  OBVIOUS
<1>1. signal = NoSignal /\ pc = "consume"
  BY DEF Init
<1>2. NoSignal.direction = Blank
  BY DEF NoSignal
<1> QED
  BY <1>1, <1>2, BlankSignal
  DEF SignalInv, SignalType, SignalStages, DirectionFollowsRegime, Evaluating

(* A step of the market or of the pass outside an evaluation.              *)
LEMMA SignalInvKept ==
    ASSUME SignalInv, UNCHANGED <<signal, moved>>,
           \/ pc' \notin Evaluating /\ pc \notin Evaluating
           \/ pc' \in {"next", "ended"} \/ pc' = pc \/ (pc = "rank" /\ pc' = "reserve")
    PROVE  SignalInv'
  BY DEF SignalInv, SignalType, SignalStages, DirectionFollowsRegime, Evaluating

LEMMA SignalInvNext == SignalInv /\ [Next]_vars => SignalInv'
<1> SUFFICES ASSUME SignalInv, [Next]_vars PROVE SignalInv'
  OBVIOUS
<1>1. CASE EvaluateRegime
  <2>1. CASE UNCHANGED signal /\ NextSymbol
    BY <2>1, <1>1, SignalInvKept DEF EvaluateRegime, NextSymbol
  <2>2. ASSUME NEW h1 \in H1Views, NEW b \in BOOLEAN,
               RegimeOf(h1, b).regime \in Trending, pc' = "technical",
               signal' = [signal EXCEPT !.h1 = h1, !.regime = RegimeOf(h1, b)]
        PROVE  SignalInv'
    <3>1. signal = NoSignal
      BY <1>1 DEF EvaluateRegime, SignalInv, SignalStages, Evaluating
    <3>2. signal' = [h1 |-> h1, regime |-> RegimeOf(h1, b), direction |-> Blank, risk |-> 0]
      BY <3>1, <2>2 DEF NoSignal
    <3>3. RegimeOf(h1, b) \in Regimes
      BY RegimeInRegimes
    <3> HIDE DEF RegimeOf
    <3>4. SignalType'
      BY <3>2, <3>3 DEF SignalType, SignalRecords
    <3>5. SignalStages'
      BY <3>2, <2>2 DEF SignalStages, Evaluating
    <3>6. DirectionFollowsRegime'
      BY <3>2 DEF DirectionFollowsRegime
    <3> QED  BY <3>4, <3>5, <3>6 DEF SignalInv
  <2>3. \/ UNCHANGED signal /\ NextSymbol
        \/ \E h1 \in H1Views :
              /\ RegimeOf(h1, Sym \in Relaxed).regime \in Trending
              /\ signal' = [signal EXCEPT !.h1 = h1, !.regime = RegimeOf(h1, Sym \in Relaxed)]
              /\ pc' = "technical"
    BY <1>1, Zenon DEF EvaluateRegime
  <2>4. (Sym \in Relaxed) \in BOOLEAN
    OBVIOUS
  <2> QED  BY <2>1, <2>2, <2>3, <2>4
<1>2. CASE EvaluateTechnical
  <2>1. CASE UNCHANGED <<signal, moved>> /\ NextSymbol
    BY <2>1, SignalInvKept DEF NextSymbol
  <2>2. ASSUME NEW h1 \in H1Views, NEW h4 \in H4Views, Direction(h1, h4) # "NONE",
               signal' = [signal EXCEPT !.direction = Direction(h1, h4)],
               moved' = (h1 # signal.h1), pc' = "adversarial"
        PROVE  SignalInv'
    <3>1. signal \in SignalRecords
      BY DEF SignalInv, SignalType
    <3>2. /\ Direction(h1, h4) \in {"BUY", "SELL"}
          /\ Direction(h1, h4) = "BUY" => h1.fast > h1.slow
          /\ Direction(h1, h4) = "SELL" => h1.fast < h1.slow
      BY <2>2 DEF Direction
    <3>3. PICK b \in BOOLEAN : signal.regime = RegimeOf(signal.h1, b)
      BY <1>2 DEF EvaluateTechnical, SignalInv, SignalStages
    <3>4. signal.h1 \in H1Views /\ signal.regime.regime \in Trending
      BY <1>2 DEF EvaluateTechnical, SignalInv, SignalStages
    <3>5. signal.regime \in Regimes
      BY <3>3, <3>4, RegimeInRegimes
    <3>6. /\ signal'.direction = Direction(h1, h4) /\ signal'.regime = signal.regime
          /\ signal' \in SignalRecords
      <4> HIDE DEF Direction
      <4> QED  BY <3>1, <3>2, <2>2 DEF SignalRecords
    <3>7. SignalStages'
      BY <3>5, <3>6, <2>2 DEF SignalStages, Evaluating
    <3>8. ~moved' => signal.regime.regime =
              IF Direction(h1, h4) = "BUY" THEN "TRENDING_BULL" ELSE "TRENDING_BEAR"
      <4> SUFFICES ASSUME h1 = signal.h1 PROVE signal.regime.regime =
              IF Direction(h1, h4) = "BUY" THEN "TRENDING_BULL" ELSE "TRENDING_BEAR"
        BY <2>2, Zenon
      <4>1. /\ signal.regime.regime = "TRENDING_BULL" => h1.fast > h1.slow
            /\ signal.regime.regime = "TRENDING_BEAR" => h1.fast < h1.slow
        BY <3>3, RegimeFollowsAverages
      <4>2. h1.fast \in Int /\ h1.slow \in Int
        BY ViewsAssumption
      <4> HIDE DEF Direction
      <4> QED  BY <4>1, <4>2, <3>2, <3>4 DEF Trending
    <3>9. DirectionFollowsRegime'
      BY <3>6, <3>8, Zenon DEF DirectionFollowsRegime
    <3> QED  BY <3>6, <3>7, <3>9 DEF SignalInv, SignalType
  <2>3. \/ UNCHANGED <<signal, moved>> /\ NextSymbol
        \/ \E h1 \in H1Views, h4 \in H4Views :
              /\ Direction(h1, h4) # "NONE"
              /\ signal' = [signal EXCEPT !.direction = Direction(h1, h4)]
              /\ moved' = (h1 # signal.h1) /\ pc' = "adversarial"
    BY <1>2, Zenon DEF EvaluateTechnical, TechnicalSignals
  <2> QED  BY <2>1, <2>2, <2>3
<1>3. ASSUME NEW r \in 45..BaseRisk, pc \in {"adversarial", "allocate"},
             \/ pc' = "allocate" /\ r \in 90..BaseRisk
             \/ pc' = "rank",
             signal' = [signal EXCEPT !.risk = r], UNCHANGED moved
      PROVE  SignalInv'
  <2>1. signal \in SignalRecords
    BY DEF SignalInv, SignalType
  <2>2. /\ signal'.risk = r /\ signal'.direction = signal.direction
        /\ signal'.regime = signal.regime
        /\ signal' \in SignalRecords
    <3>1. signal' = [signal EXCEPT !.risk = r]
      BY <1>3
    <3>2. r \in Int
      BY DEF BaseRisk
    <3> QED  BY <2>1, <3>1, <3>2 DEF SignalRecords
  <2>3. SignalStages'
    BY <2>2, <1>3 DEF SignalStages, Evaluating
  <2>4. DirectionFollowsRegime'
    BY <2>2, <1>3, Zenon DEF DirectionFollowsRegime, SignalInv
  <2> QED  BY <2>2, <2>3, <2>4 DEF SignalInv, SignalType
<1>4. CASE EvaluateAdversarial
  <2>1. CASE UNCHANGED <<signal, moved>> /\ NextSymbol
    BY <2>1, SignalInvKept DEF NextSymbol
  <2>2. PICK v, session :
          LET m == RiskModifier(v, signal.direction, SpreadLimit[Sym], session, account.count)
          IN  \/ UNCHANGED <<signal, moved>> /\ NextSymbol
              \/ /\ m # 0 /\ pc' = "allocate" /\ UNCHANGED moved
                 /\ signal' = [signal EXCEPT !.risk =
                                  (DynamicRisk(signal.regime.ratio) * m) \div 100]
    BY <1>4, Zenon DEF EvaluateAdversarial, RejectProposal
  <2> DEFINE m == RiskModifier(v, signal.direction, SpreadLimit[Sym], session, account.count)
  <2>7. m \in {0, 60, 72, 80, 90, 100}
    BY ModifierRange
  <2>8. \/ UNCHANGED <<signal, moved>> /\ NextSymbol
        \/ /\ m # 0 /\ pc' = "allocate" /\ UNCHANGED moved
           /\ signal' = [signal EXCEPT !.risk =
                            (DynamicRisk(signal.regime.ratio) * m) \div 100]
    BY <2>2, Zenon
  <2> HIDE DEF m
  <2>3. DynamicRisk(signal.regime.ratio) \in RiskFloor..BaseRisk
    <3>1. signal.regime \in Regimes
      BY <1>4 DEF EvaluateAdversarial, SignalInv, SignalStages
    <3> QED  BY <3>1, RatioIsInt, DynamicRiskRange DEF Regimes
  <2>4. m # 0 => (DynamicRisk(signal.regime.ratio) * m) \div 100 \in 90..BaseRisk
    BY <2>3, <2>7, ScaledRisk
  <2>5. 90..BaseRisk \subseteq 45..BaseRisk
    BY DEF BaseRisk
  <2>6. pc = "adversarial"
    BY <1>4 DEF EvaluateAdversarial
  <2> QED  BY <2>1, <2>8, <2>4, <2>5, <2>6, <1>3
<1>5. CASE Allocate
  <2>1. CASE UNCHANGED <<signal, moved>> /\ NextSymbol
    BY <2>1, SignalInvKept DEF NextSymbol
  <2>2. (signal.risk * Throttle(account.streak)) \div 100 \in 45..BaseRisk
    BY <1>5, ThrottledRisk DEF Allocate, SignalInv, SignalStages
  <2>3. \/ UNCHANGED <<signal, moved>> /\ NextSymbol
        \/ /\ signal' = [signal EXCEPT !.risk = (signal.risk * Throttle(account.streak)) \div 100]
           /\ pc' = "rank" /\ UNCHANGED moved
    BY <1>5, Zenon DEF Allocate, RejectProposal
  <2>4. pc = "allocate"
    BY <1>5 DEF Allocate
  <2> QED  BY <2>1, <2>2, <2>3, <2>4, <1>3
<1>6. CASE FinishSymbol
  <2>1. signal' = NoSignal /\ pc' \in {"consume", "regime"}
    BY <1>6 DEF FinishSymbol
  <2>2. NoSignal.direction = Blank
    BY DEF NoSignal
  <2> QED
    BY <2>1, <2>2, BlankSignal
    DEF SignalInv, SignalType, SignalStages, DirectionFollowsRegime, Evaluating
<1>7. CASE RankSignal
  BY <1>7, SignalInvKept DEF RankSignal, NextSymbol
<1>8. CASE ReserveAndRoute
  BY <1>8, SignalInvKept DEF ReserveAndRoute, Route, RouterFails, RejectProposal, NextSymbol
<1>9. CASE \E s \in Symbols : CloseBar(s)
  BY <1>9, SignalInvKept DEF CloseBar, evalVars
<1>10. CASE (\E t \in Ids : Fill(t) \/ Finish(t)) \/ PublishSnapshot
  BY <1>10, SignalInvKept DEF Fill, Finish, PublishSnapshot, evalVars
<1>11. CASE ConsumeFeedback \/ UpdateAccountState \/ CheckCandle \/ SkipCycle \/ BeginCycle
  BY <1>11, SignalInvKept
  DEF ConsumeFeedback, UpdateAccountState, CheckCandle, SkipCycle, BeginCycle, evalVars,
      Evaluating
<1>12. CASE UNCHANGED vars
  BY <1>12, SignalInvKept DEF vars, evalVars
<1> QED
  BY <1>1, <1>2, <1>4, <1>5, <1>6, <1>7, <1>8, <1>9, <1>10, <1>11, <1>12
  DEF Next, Market, Engine

(* The direction of a signal is the one of the regime it was admitted by,  *)
(* whatever the views, unless an H1 bar closed between the two fetches.    *)
THEOREM DirectionsFollowRegimes == Spec => []DirectionFollowsRegime
<1>1. Spec => []SignalInv
  BY SignalInvInit, SignalInvNext, PTL DEF Spec
<1>2. SignalInv => DirectionFollowsRegime
  BY DEF SignalInv
<1> QED  BY <1>1, <1>2, PTL

LEMMA MovedType == (moved \in BOOLEAN) /\ [Next]_vars => (moved \in BOOLEAN)'
<1> SUFFICES ASSUME moved \in BOOLEAN, [Next]_vars PROVE moved' \in BOOLEAN
  OBVIOUS
<1>1. CASE EvaluateTechnical
  <2>1. \/ UNCHANGED moved
        \/ \E h1 \in H1Views : moved' = (h1 # signal.h1)
    BY <1>1, Zenon DEF EvaluateTechnical
  <2> QED  BY <2>1, Zenon
<1>2. CASE FinishSymbol
  BY <1>2, Zenon DEF FinishSymbol
<1>3. CASE UNCHANGED moved
  BY <1>3, Zenon
<1> QED
  BY <1>1, <1>2, <1>3
  DEF Next, Market, Engine, vars, CloseBar, Fill, Finish, PublishSnapshot,
      ConsumeFeedback, UpdateAccountState, CheckCandle, SkipCycle, BeginCycle,
      EvaluateRegime, EvaluateAdversarial, Allocate, RankSignal, ReserveAndRoute

LEMMA BookTypeInit == Init => BookType
  BY DecisionAssumption, EmptySeq DEF Init, BookType, NoAccount, Ids

(* A step that touches one entry keeps the others.                         *)
LEMMA BookTypeNext == ClockType /\ SignalInv /\ BookType /\ [Next]_vars => BookType'
<1> SUFFICES ASSUME ClockType, SignalInv, BookType, [Next]_vars PROVE BookType'
  OBVIOUS
<1> USE DEF BookType
<1>0. Len(book) \in Nat /\ Ids = 1..Len(book) /\ DOMAIN book = 1..Len(book)
  BY LenProperties DEF Ids
<1>1. ASSUME NEW s \in Symbols, CloseBar(s) PROVE BookType'
  BY <1>1 DEF CloseBar, brokerVars, evalVars, Ids
<1>2. ASSUME NEW t \in Ids, Fill(t) \/ Finish(t) PROVE BookType'
  <2>1. PICK b \in {"open", "gone"} : book' = [book EXCEPT ![t].broker = b]
    BY <1>2 DEF Fill, Finish
  <2>2. book[t] \in Entry
    BY <1>0, ElementOfSeq
  <2>3. [book[t] EXCEPT !.broker = b] \in Entry
    BY <2>2 DEF Entry
  <2>4. book' = [book EXCEPT ![t] = [book[t] EXCEPT !.broker = b]]
    BY <2>1
  <2>5. book' \in Seq(Entry) /\ Len(book') = Len(book)
    BY <2>3, <2>4, <1>0, ExceptSeq
  <2>6. Ids' = Ids
    BY <2>5, <1>0, LenProperties DEF Ids
  <2> QED  BY <1>2, <2>5, <2>6 DEF Fill, Finish, evalVars
<1>3. CASE PublishSnapshot
  BY <1>3 DEF PublishSnapshot, evalVars, Ids, Live
<1>4. CASE ConsumeFeedback
  <2> DEFINE e(t) == [book[t] EXCEPT !.row =
                        IF book[t].broker = "open" THEN "EXECUTED_OPEN"
                        ELSE IF book[t].broker = "gone" THEN "CLOSED" ELSE @]
  <2>1. book' = [t \in 1..Len(book) |-> e(t)]
    BY <1>4, <1>0 DEF ConsumeFeedback
  <2>2. \A t \in 1..Len(book) : e(t) \in Entry
    <3> SUFFICES ASSUME NEW t \in 1..Len(book) PROVE e(t) \in Entry
      OBVIOUS
    <3>1. book[t] \in Entry
      BY ElementOfSeq
    <3> QED  BY <3>1 DEF Entry
  <2> HIDE DEF e
  <2>3. book' \in Seq(Entry)
    BY <2>1, <2>2, <1>0
  <2>4. Ids' = Ids
    BY <2>1, <1>0 DEF Ids
  <2>5. Len(book') = Len(book)
    BY <2>4, <2>3, <1>0, LenProperties DEF Ids
  <2> QED  BY <1>4, <2>3, <2>4, <2>5 DEF ConsumeFeedback, evalVars
<1>5. CASE UpdateAccountState
  BY <1>5 DEF UpdateAccountState, brokerVars, evalVars, Ids, Live
<1>6. CASE CheckCandle
  BY <1>6 DEF CheckCandle, brokerVars, evalVars, Ids
<1>7. CASE SkipCycle
  BY <1>7, BlankSignal DEF SkipCycle, brokerVars, evalVars, Ids
<1>8. CASE BeginCycle
  BY <1>8 DEF BeginCycle, brokerVars, evalVars, Ids
<1>9. CASE EvaluateRegime
  BY <1>9 DEF EvaluateRegime, brokerVars, Ids
<1>10. CASE EvaluateTechnical
  BY <1>10 DEF EvaluateTechnical, brokerVars, Ids
<1>11. CASE EvaluateAdversarial
  BY <1>11 DEF EvaluateAdversarial, RejectProposal, brokerVars, Ids
<1>12. CASE Allocate
  BY <1>12 DEF Allocate, RejectProposal, brokerVars, Ids
<1>13. CASE RankSignal
  BY <1>13 DEF RankSignal, brokerVars, Ids
<1>14. CASE ReserveAndRoute
  <2>1. ASSUME NEW row \in {"none", "PENDING"}, book' = Append(book, Sent(row)),
               proposal' \in {"none", "REJECTED", "PENDING"}
        PROVE  BookType'
    <3> DEFINE e == Sent(row)
    <3>1. Sym \in Symbols
      BY TurnHasSymbol DEF ClockType
    <3>2. e \in Entry
      BY <3>1, <1>0, <1>14 DEF Entry, Sent, ReserveAndRoute, SignalInv, SignalStages
    <3> HIDE DEF e
    <3>3. book' \in Seq(Entry) /\ Len(book') = Len(book) + 1
      BY <3>2, <2>1, AppendProperties DEF e
    <3>4. Ids \subseteq Ids' /\ Ids' = 1..(Len(book) + 1)
      BY <3>3, <1>0, LenProperties DEF Ids
    <3>5. snapshot' = snapshot /\ account' = account /\ Len(book') <= MaxRouted
      BY <1>14, <3>3, <1>0, DecisionAssumption DEF ReserveAndRoute
    <3>6. snapshot' \subseteq Ids' /\ account'.known \subseteq Ids'
      BY <3>4, <3>5
    <3> QED  BY <3>3, <3>5, <3>6, <2>1
  <2>2. CASE book' = book /\ proposal' \in {"none", "REJECTED", "PENDING"}
    BY <2>2, <1>14 DEF ReserveAndRoute, Ids
  <2> QED
    BY <1>14, <2>1, <2>2 DEF ReserveAndRoute, Route, RouterFails, RejectProposal
<1>15. CASE FinishSymbol
  BY <1>15 DEF FinishSymbol, brokerVars, Ids
<1>16. CASE UNCHANGED vars
  BY <1>16 DEF vars, brokerVars, evalVars, Ids
<1> QED
  BY <1>1, <1>2, <1>3, <1>4, <1>5, <1>6, <1>7, <1>8, <1>9, <1>10, <1>11, <1>12, <1>13,
     <1>14, <1>15, <1>16 DEF Next, Market, Engine


(* Type correctness: the market, the book and the pass stay in their ranges. *)
THEOREM DecisionTypesCorrect == Spec => []TypeOK
<1>1. Init => ClockType /\ SignalInv /\ BookType /\ moved \in BOOLEAN
  BY ClockTypeInit, SignalInvInit, BookTypeInit, Zenon DEF Init
<1>2. ClockType /\ SignalInv /\ BookType /\ moved \in BOOLEAN /\ [Next]_vars
      => (ClockType /\ SignalInv /\ BookType /\ moved \in BOOLEAN)'
  BY ClockTypeNext, SignalInvNext, BookTypeNext, MovedType, Zenon
<1>3. ClockType /\ BookType /\ moved \in BOOLEAN => TypeOK
  <2> SUFFICES ASSUME ClockType, BookType, moved \in BOOLEAN PROVE TypeOK
    OBVIOUS
  <2>1. \A t \in Ids : book[t] \in Entry
    BY ElementOfSeq, LenProperties DEF BookType, Ids
  <2>2. \A t \in Ids : /\ book[t].symbol \in Symbols
                       /\ book[t].broker \in {"sent", "open", "gone"}
                       /\ book[t].row \in {"none", "PENDING", "EXECUTED_OPEN", "CLOSED"}
    BY <2>1 DEF Entry
  <2> QED  BY <2>2, Zenon DEF ClockType, BookType, TypeOK
<1> QED  BY <1>1, <1>2, <1>3, PTL DEF Spec

(* No modifier, throttle or volatility routes a signal with more than the   *)
(* base risk or less than a tenth of it.                                   *)
THEOREM RoutedRisksWithinBase == Spec => []RoutedRiskWithinBase
<1>1. Init => ClockType /\ SignalInv /\ BookType
  BY ClockTypeInit, SignalInvInit, BookTypeInit
<1>2. ClockType /\ SignalInv /\ BookType /\ [Next]_vars
      => (ClockType /\ SignalInv /\ BookType)'
  BY ClockTypeNext, SignalInvNext, BookTypeNext
<1>3. BookType => RoutedRiskWithinBase
  <2> SUFFICES ASSUME BookType, NEW t \in Ids
               PROVE  book[t].risk <= BaseRisk /\ 10 * book[t].risk >= BaseRisk
    BY DEF RoutedRiskWithinBase
  <2>1. book[t] \in Entry
    BY ElementOfSeq, LenProperties DEF BookType, Ids
  <2>2. book[t].risk \in 45..320
    BY <2>1 DEF Entry, BaseRisk
  <2>3. \A r \in 45..320 : r <= 320 /\ 10 * r >= 320
    OBVIOUS
  <2> QED  BY <2>2, <2>3, Zenon DEF BaseRisk
<1> QED  BY <1>1, <1>2, <1>3, PTL DEF Spec

-----------------------------------------------------------------------------
(* Correlated signals.                                                     *)

(* The open symbols of the account are those of the signals it shows; from *)
(* the portfolio's verdict to the reservation the symbol opposes none.     *)
ShownInv ==
    /\ account.open = SymbolsOf(account.known)
    /\ pc \in {"rank", "reserve"} => Sym \notin account.open /\ ~CorrelatedWithOpen(Sym)

BookInv == ClockType /\ SignalInv /\ BookType

LEMMA BookInvNext == BookInv /\ [Next]_vars => BookInv'
  BY ClockTypeNext, SignalInvNext, BookTypeNext DEF BookInv

LEMMA EntriesTyped ==
    ASSUME BookType
    PROVE  /\ Ids = 1..Len(book) /\ Len(book) \in Nat
           /\ \A t \in Ids : book[t] \in Entry
  BY ElementOfSeq, LenProperties DEF BookType, Ids

(* An entry keeps its symbol and what its account showed.                  *)
EntriesKept ==
    /\ Ids \subseteq Ids'
    /\ \A t \in Ids : book'[t].symbol = book[t].symbol /\ book'[t].known = book[t].known

LEMMA EntriesKeptNext ==
    ASSUME BookInv, [Next]_vars
    PROVE  /\ EntriesKept
           /\ \/ Ids' = Ids
              \/ /\ pc = "reserve" /\ UNCHANGED <<account, turn>>
                 /\ Ids' = Ids \cup {Len(book) + 1}
                 /\ \E row : book'[Len(book) + 1] = Sent(row)
<1>0. /\ Ids = 1..Len(book) /\ Len(book) \in Nat /\ DOMAIN book = Ids
      /\ \A t \in Ids : book[t] \in Entry
  BY EntriesTyped DEF BookInv, Ids
<1>1. CASE UNCHANGED book
  BY <1>1 DEF EntriesKept, Ids
<1>2. ASSUME NEW t \in Ids, Fill(t) \/ Finish(t) PROVE EntriesKept /\ Ids' = Ids
  <2>1. PICK b \in {"open", "gone"} : book' = [book EXCEPT ![t].broker = b]
    BY <1>2 DEF Fill, Finish
  <2>2. Ids' = Ids
    BY <2>1, <1>0 DEF Ids
  <2>3. \A u \in Ids : book'[u] = IF u = t THEN [book[t] EXCEPT !.broker = b] ELSE book[u]
    BY <2>1, <1>0
  <2> QED  BY <2>2, <2>3, <1>0 DEF EntriesKept, Entry
<1>3. CASE ConsumeFeedback
  <2>1. \A t \in Ids : \E r : book'[t] = [book[t] EXCEPT !.row = r]
    BY <1>3, <1>0 DEF ConsumeFeedback
  <2>2. Ids' = Ids
    BY <1>3, <1>0 DEF ConsumeFeedback, Ids
  <2>3. \A t \in Ids : book'[t].symbol = book[t].symbol /\ book'[t].known = book[t].known
    <3> SUFFICES ASSUME NEW t \in Ids
                 PROVE  book'[t].symbol = book[t].symbol /\ book'[t].known = book[t].known
      OBVIOUS
    <3>1. PICK r : book'[t] = [book[t] EXCEPT !.row = r]
      BY <2>1
    <3>2. book[t] \in Entry
      BY <1>0
    <3> QED  BY <3>1, <3>2 DEF Entry
  <2> QED  BY <2>2, <2>3 DEF EntriesKept
<1>4. ASSUME ReserveAndRoute, NEW row \in {"none", "PENDING"}, book' = Append(book, Sent(row))
      PROVE  /\ EntriesKept /\ pc = "reserve" /\ UNCHANGED <<account, turn>>
             /\ Ids' = Ids \cup {Len(book) + 1}
             /\ book'[Len(book) + 1] = Sent(row)
  <2>1. Sent(row) \in Entry
    <3>1. BookInv'
      BY BookInvNext
    <3>2. Sym \in Symbols
      BY TurnHasSymbol DEF BookInv, ClockType
    <3>3. signal.risk \in 45..BaseRisk
      BY <1>4 DEF ReserveAndRoute, BookInv, SignalInv, SignalStages
    <3>4. account.known \in SUBSET Nat
      BY <1>0 DEF BookInv, BookType
    <3> QED  BY <3>2, <3>3, <3>4 DEF Sent, Entry
  <2>2. /\ Len(book') = Len(book) + 1 /\ book' \in Seq(Entry)
        /\ \A t \in 1..Len(book) : book'[t] = book[t]
        /\ book'[Len(book) + 1] = Sent(row)
    <3> QED  BY <1>4, <2>1, <1>0, AppendProperties DEF BookInv, BookType
  <2>3. Ids' = 1..(Len(book) + 1)
    BY <2>2, LenProperties DEF Ids
  <2>4. Ids' = Ids \cup {Len(book) + 1}
    BY <2>3, <1>0
  <2>5. pc = "reserve" /\ UNCHANGED <<account, turn>>
    BY <1>4 DEF ReserveAndRoute
  <2> QED  BY <2>2, <2>4, <2>5, <1>0 DEF EntriesKept
<1>5. CASE ReserveAndRoute
  BY <1>1, <1>4, <1>5 DEF ReserveAndRoute, Route, RouterFails
<1> QED
  BY <1>1, <1>2, <1>3, <1>5
  DEF Next, Market, Engine, vars, brokerVars, CloseBar, PublishSnapshot, UpdateAccountState,
      CheckCandle, SkipCycle, BeginCycle, EvaluateRegime, EvaluateTechnical,
      EvaluateAdversarial, Allocate, RankSignal, FinishSymbol

LEMMA ShownInvNext == BookInv /\ ShownInv /\ [Next]_vars => ShownInv'
<1> SUFFICES ASSUME BookInv, ShownInv, [Next]_vars PROVE ShownInv'
  OBVIOUS
<1>1. EntriesKept /\ account.known \subseteq Ids
  BY EntriesKeptNext DEF BookInv, BookType
<1>2. ASSUME UNCHANGED account PROVE account'.open = (SymbolsOf(account.known))'
  <2>1. \A t \in account.known : book'[t].symbol = book[t].symbol
    BY <1>1 DEF EntriesKept
  <2> QED  BY <1>2, <2>1 DEF ShownInv, SymbolsOf
<1>3. ASSUME UNCHANGED <<account, turn>>, pc' \in {"rank", "reserve"} => pc \in {"rank", "reserve"}
      PROVE  ShownInv'
  BY <1>2, <1>3 DEF ShownInv, CorrelatedWithOpen, Sym
<1>4. ASSUME UNCHANGED account, pc' \notin {"rank", "reserve"} PROVE ShownInv'
  BY <1>2, <1>4 DEF ShownInv
<1>5. CASE UpdateAccountState
  <2>1. PICK S : /\ account'.known = S /\ account'.open = SymbolsOf(S)
                 /\ UNCHANGED book /\ pc' = "candle"
    BY <1>5 DEF UpdateAccountState, brokerVars
  <2> QED  BY <2>1 DEF ShownInv, SymbolsOf
<1>6. CASE Allocate
  <2>1. CASE pc' = "next"
    BY <1>6, <2>1, <1>4 DEF Allocate
  <2>2. CASE PortfolioApproves(Sym, signal.risk)
    <3>1. Sym \notin account.open /\ ~CorrelatedWithOpen(Sym) /\ UNCHANGED <<account, turn>>
      BY <1>6, <2>2 DEF Allocate, PortfolioApproves
    <3> QED  BY <3>1, <1>2 DEF ShownInv, CorrelatedWithOpen, Sym
  <2> QED  BY <1>6, <2>1, <2>2 DEF Allocate, RejectProposal, NextSymbol
<1>7. CASE (\E s \in Symbols : CloseBar(s)) \/ PublishSnapshot \/ RankSignal \/ UNCHANGED vars
  BY <1>7, <1>3 DEF CloseBar, PublishSnapshot, RankSignal, NextSymbol, vars
<1>8. CASE \E t \in Ids : Fill(t) \/ Finish(t)
  BY <1>8, <1>3 DEF Fill, Finish
<1>9. CASE ReserveAndRoute \/ EvaluateAdversarial
  BY <1>9, <1>4
  DEF ReserveAndRoute, Route, RouterFails, EvaluateAdversarial, RejectProposal, NextSymbol
<1> QED
  BY <1>4, <1>5, <1>6, <1>7, <1>8, <1>9
  DEF Next, Market, Engine, ConsumeFeedback, CheckCandle, SkipCycle, BeginCycle,
      EvaluateRegime, EvaluateTechnical, FinishSymbol, NextSymbol

(* A signal that another one stacks on was not on the account that let it  *)
(* through, alive or not.                                                  *)
UnseenInv == \A t, u \in Ids : t < u /\ Stacked(t, u) => t \notin book[u].known

LEMMA UnseenInvNext == BookInv /\ ShownInv /\ UnseenInv /\ [Next]_vars => UnseenInv'
<1> SUFFICES ASSUME BookInv, ShownInv, UnseenInv, [Next]_vars PROVE UnseenInv'
  OBVIOUS
<1>1. EntriesKept
  BY EntriesKeptNext
<1>2. Ids = 1..Len(book) /\ Len(book) \in Nat /\ \A t \in Ids : book[t].symbol \in Symbols
  BY EntriesTyped DEF BookInv, Entry
<1>3. \A t, u \in Ids : Stacked(t, u)' = Stacked(t, u)
  BY <1>1 DEF EntriesKept, Stacked
<1>4. \A t, u \in Ids : t < u /\ Stacked(t, u)' => t \notin book'[u].known
  BY <1>1, <1>3 DEF UnseenInv, EntriesKept
<1>5. CASE Ids' = Ids
  BY <1>4, <1>5 DEF UnseenInv
<1>6. CASE /\ pc = "reserve" /\ UNCHANGED <<account, turn>>
           /\ Ids' = Ids \cup {Len(book) + 1}
           /\ \E row : book'[Len(book) + 1] = Sent(row)
  <2>0. PICK n : n = Len(book) + 1
    OBVIOUS
  <2>1. book'[n].symbol = Sym /\ book'[n].known = account.known
    BY <1>6, <2>0 DEF Sent
  <2>2. Sym \in Symbols /\ Sym \notin account.open /\ ~CorrelatedWithOpen(Sym)
    BY <1>6, TurnHasSymbol DEF ShownInv, BookInv, ClockType
  <2>3. ASSUME NEW t \in Ids, t \in account.known PROVE ~Stacked(t, n)'
    <3>1. book[t].symbol \in account.open
      BY <2>3 DEF ShownInv, SymbolsOf
    <3>2. book'[t].symbol = book[t].symbol /\ book[t].symbol \in Symbols
      BY <1>1, <1>2 DEF EntriesKept
    <3>3. book[t].symbol # Sym
      BY <3>1, <2>2
    <3>4. ~(Correlation[Sym][book[t].symbol] >= CorrelationThreshold)
      BY <3>1, <3>3, <2>2 DEF CorrelatedWithOpen
    <3>5. Correlation[Sym][book[t].symbol] = Correlation[book[t].symbol][Sym]
      BY <3>2, <2>2, DecisionAssumption
    <3> QED  BY <2>1, <3>2, <3>3, <3>4, <3>5 DEF Stacked
  <2>4. ASSUME NEW t \in Ids', NEW u \in Ids', t < u, Stacked(t, u)'
        PROVE  t \notin book'[u].known
    <3>1. CASE u \in Ids
      BY <3>1, <2>4, <1>4, <1>6, <1>2
    <3>2. CASE u = n
      BY <3>2, <2>0, <2>4, <1>6, <1>2, <2>1, <2>3
    <3> QED  BY <3>1, <3>2, <2>0, <1>6
  <2> QED  BY <2>4 DEF UnseenInv
<1> QED  BY <1>5, <1>6, EntriesKeptNext

(* However the market and the positions move during a pass, two signals of *)
(* one symbol or of correlated symbols are both alive only when the later  *)
(* was routed by an account that did not show the earlier.                 *)
THEOREM StackingOnlyWhileUnseen == Spec => []StackedOnlyWhileUnseen
<1>1. Init => BookInv /\ ShownInv /\ UnseenInv
  <2> SUFFICES ASSUME Init PROVE BookInv /\ ShownInv /\ UnseenInv
    OBVIOUS
  <2>1. Ids = {}
    BY DEF Init, Ids
  <2>2. BookInv
    BY ClockTypeInit, SignalInvInit, BookTypeInit DEF BookInv
  <2>3. ShownInv
    BY DEF Init, ShownInv, NoAccount, SymbolsOf
  <2> QED  BY <2>1, <2>2, <2>3 DEF UnseenInv
<1>2. BookInv /\ ShownInv /\ UnseenInv /\ [Next]_vars => (BookInv /\ ShownInv /\ UnseenInv)'
  BY BookInvNext, ShownInvNext, UnseenInvNext
<1>3. UnseenInv => StackedOnlyWhileUnseen
  BY DEF UnseenInv, StackedOnlyWhileUnseen
<1> QED  BY <1>1, <1>2, <1>3, PTL DEF Spec

-----------------------------------------------------------------------------
(* The funnel: a sequence of events read as the set of those it holds.     *)

Stages == Gates \cup {"NEWS", "ML_CANARY", "ML_RANKER", "ROUTER", "RESERVATION"}
Outcomes == {"PASS", "REJECT", "SKIP", "BYPASS", "ROUTED"}
Event == Stages \X Outcomes
Seen(f) == {f[i] : i \in DOMAIN f}
EndsWith(f, outcome) == \E i \in DOMAIN f : i = Len(f) /\ f[i][2] = outcome

LEMMA ConcatSeen ==
    ASSUME NEW f \in Seq(Event), NEW g \in Seq(Event)
    PROVE  /\ f \o g \in Seq(Event)
           /\ Seen(f \o g) = Seen(f) \cup Seen(g)
           /\ Len(g) > 0 => \A o : EndsWith(f \o g, o) <=> EndsWith(g, o)
<1> DEFINE h == f \o g
<1>1. /\ h \in Seq(Event) /\ Len(h) = Len(f) + Len(g)
      /\ \A i \in 1..(Len(f) + Len(g)) : h[i] = IF i <= Len(f) THEN f[i] ELSE g[i - Len(f)]
  BY ConcatProperties
<1>2. /\ Len(f) \in Nat /\ DOMAIN f = 1..Len(f)
      /\ Len(g) \in Nat /\ DOMAIN g = 1..Len(g)
      /\ DOMAIN h = 1..(Len(f) + Len(g))
  BY <1>1, LenProperties
<1> HIDE DEF h
<1>3. ASSUME NEW i \in DOMAIN f PROVE f[i] \in Seen(h)
  <2>1. i \in DOMAIN h /\ h[i] = f[i]
    BY <1>1, <1>2
  <2> QED  BY <2>1 DEF Seen
<1>4. ASSUME NEW i \in DOMAIN g PROVE g[i] \in Seen(h)
  <2>1. i + Len(f) \in DOMAIN h /\ h[i + Len(f)] = g[i]
    BY <1>1, <1>2
  <2> QED  BY <2>1 DEF Seen
<1>5. ASSUME NEW i \in DOMAIN h PROVE h[i] \in Seen(f) \cup Seen(g)
  <2>1. CASE i <= Len(f)
    BY <2>1, <1>1, <1>2 DEF Seen
  <2>2. CASE i > Len(f)
    <3>1. i - Len(f) \in DOMAIN g /\ h[i] = g[i - Len(f)]
      BY <2>2, <1>1, <1>2
    <3> QED  BY <3>1 DEF Seen
  <2> QED  BY <2>1, <2>2, <1>2
<1>6. Seen(h) = Seen(f) \cup Seen(g)
  BY <1>3, <1>4, <1>5 DEF Seen
<1>7. ASSUME Len(g) > 0, NEW o PROVE EndsWith(h, o) <=> EndsWith(g, o)
  <2>1. Len(h) \in DOMAIN h /\ Len(g) \in DOMAIN g
    BY <1>7, <1>1, <1>2
  <2>2. h[Len(h)] = g[Len(g)]
    BY <1>7, <1>1, <1>2
  <2> QED  BY <2>1, <2>2 DEF EndsWith
<1> QED  BY <1>1, <1>6, <1>7 DEF h

LEMMA SeenOne ==
    ASSUME NEW e \in Event
    PROVE  /\ <<e>> \in Seq(Event) /\ Len(<<e>>) = 1 /\ Seen(<<e>>) = {e}
           /\ \A o : EndsWith(<<e>>, o) <=> o = e[2]
<1>1. <<e>> \in Seq(Event) /\ Len(<<e>>) = 1 /\ DOMAIN <<e>> = {1} /\ <<e>>[1] = e
  OBVIOUS
<1>2. Seen(<<e>>) = {e}
  BY <1>1, Zenon DEF Seen
<1>3. \A o : EndsWith(<<e>>, o) <=> o = e[2]
  BY <1>1, Zenon DEF EndsWith
<1> QED  BY <1>1, <1>2, <1>3

LEMMA SeenTwo ==
    ASSUME NEW e1 \in Event, NEW e2 \in Event
    PROVE  /\ <<e1, e2>> \in Seq(Event) /\ Len(<<e1, e2>>) = 2
           /\ Seen(<<e1, e2>>) = {e1, e2}
           /\ \A o : EndsWith(<<e1, e2>>, o) <=> o = e2[2]
<1>1. /\ <<e1, e2>> \in Seq(Event) /\ Len(<<e1, e2>>) = 2 /\ DOMAIN <<e1, e2>> = {1, 2}
      /\ <<e1, e2>>[1] = e1 /\ <<e1, e2>>[2] = e2
  OBVIOUS
<1>2. Seen(<<e1, e2>>) = {e1, e2}
  BY <1>1, Zenon DEF Seen
<1>3. \A o : EndsWith(<<e1, e2>>, o) <=> o = e2[2]
  BY <1>1, Zenon DEF EndsWith
<1> QED  BY <1>1, <1>2, <1>3

LEMMA SeenThree ==
    ASSUME NEW e1 \in Event, NEW e2 \in Event, NEW e3 \in Event
    PROVE  <<e1, e2, e3>> \in Seq(Event) /\ Seen(<<e1, e2, e3>>) = {e1, e2, e3}
<1>1. /\ <<e1, e2, e3>> \in Seq(Event) /\ DOMAIN <<e1, e2, e3>> = {1, 2, 3}
      /\ <<e1, e2, e3>>[1] = e1 /\ <<e1, e2, e3>>[2] = e2 /\ <<e1, e2, e3>>[3] = e3
  OBVIOUS
<1>2. Seen(<<e1, e2, e3>>) = {e1, e2, e3}
  BY <1>1, Zenon DEF Seen
<1> QED  BY <1>1, <1>2

LEMMA LoggedIsSeen ==
    ASSUME funnel \in Seq(Event), NEW stage, NEW outcomes
    PROVE  Logged(stage, outcomes) <=> \E o \in outcomes : <<stage, o>> \in Seen(funnel)
<1>1. \A i \in DOMAIN funnel : /\ funnel[i] \in Event
                              /\ funnel[i] = <<funnel[i][1], funnel[i][2]>>
  BY ElementOfSeq, LenProperties DEF Event
<1>2. ASSUME Logged(stage, outcomes)
      PROVE  \E o \in outcomes : <<stage, o>> \in Seen(funnel)
  BY <1>1, <1>2 DEF Logged, Seen
<1>3. ASSUME NEW o \in outcomes, <<stage, o>> \in Seen(funnel)
      PROVE  Logged(stage, outcomes)
  <2>1. PICK i \in DOMAIN funnel : funnel[i] = <<stage, o>>
    BY <1>3 DEF Seen
  <2>2. funnel[i][1] = stage /\ funnel[i][2] = o
    BY <2>1
  <2> QED  BY <2>2, <1>3 DEF Logged
<1> QED  BY <1>2, <1>3

Passed(gates) == \A g \in gates : <<g, "PASS">> \in Seen(funnel)
Ranked == \E o \in {"PASS", "BYPASS"} : <<"ML_RANKER", o>> \in Seen(funnel)
TechnicalPassed == <<"TECHNICAL", "PASS">> \in Seen(funnel)
Routed == <<"ROUTER", "ROUTED">> \in Seen(funnel)
RouterFailed == <<"ROUTER", "REJECT">> \in Seen(funnel)
Unrouted == ~Routed /\ ~RouterFailed
RouterEvents == {<<"ROUTER", "ROUTED">>, <<"ROUTER", "REJECT">>}

GatesBefore ==
    [technical |-> {"SESSION", "REGIME"},
     adversarial |-> {"SESSION", "REGIME", "TECHNICAL"},
     allocate |-> {"SESSION", "REGIME", "TECHNICAL", "ADVERSARIAL"},
     rank |-> Gates, reserve |-> Gates]
Judging == {"technical", "adversarial", "allocate", "rank", "reserve"}

(* What the funnel holds at each stage, and the four ways it may end.      *)
FunnelInv ==
    /\ funnel \in Seq(Event)
    /\ pc # "next" => proposal = "none"
    /\ pc \in Judging =>
          /\ Passed(GatesBefore[pc])
          /\ pc = "technical" => ~TechnicalPassed
          /\ Unrouted
    /\ pc = "reserve" => Ranked
    /\ pc = "next" =>
          \/ proposal = "none" /\ ~TechnicalPassed /\ Unrouted
          \/ /\ proposal = "REJECTED" /\ TechnicalPassed /\ Unrouted
             /\ EndsWith(funnel, "REJECT")
          \/ /\ proposal = "PENDING" /\ Passed(Gates) /\ Ranked /\ Routed /\ ~RouterFailed
             /\ ~EndsWith(funnel, "REJECT")
    /\ pc = "ended" => TechnicalPassed /\ RouterFailed /\ ~Routed

LEMMA FunnelInvInit == Init => FunnelInv
  BY EmptySeq DEF Init, FunnelInv, Judging

LEMMA FunnelInvKept ==
    ASSUME FunnelInv, UNCHANGED <<funnel, proposal>>,
           pc' = pc \/ (pc # "next" /\ pc' \notin Judging \cup {"next", "ended"})
    PROVE  FunnelInv'
  BY DEF FunnelInv, Judging, Passed, Ranked, TechnicalPassed, Routed, RouterFailed, Unrouted,
         Seen, EndsWith

(* A gate past the technical agent refuses.                                *)
LEMMA RejectionLogged ==
    ASSUME FunnelInv, pc \in Judging \ {"technical"}, NEW g \in Seq(Event), Len(g) > 0,
           RouterEvents \cap Seen(g) = {}, EndsWith(g, "REJECT"),
           funnel' = funnel \o g, proposal' = "REJECTED", pc' = "next"
    PROVE  FunnelInv'
<1>1. /\ funnel' \in Seq(Event) /\ Seen(funnel') = Seen(funnel) \cup Seen(g)
      /\ EndsWith(funnel', "REJECT")
  BY ConcatSeen DEF FunnelInv
<1>2. "TECHNICAL" \in GatesBefore[pc] /\ Passed(GatesBefore[pc]) /\ Unrouted
  BY DEF FunnelInv, Judging, GatesBefore, Gates
<1>3. <<"TECHNICAL", "PASS">> \in Seen(funnel)
  BY <1>2 DEF Passed
<1>4. TechnicalPassed' /\ Unrouted'
  BY <1>1, <1>2, <1>3 DEF TechnicalPassed, Routed, RouterFailed, Unrouted, RouterEvents
<1> QED  BY <1>1, <1>4 DEF FunnelInv, Judging

(* A gate passes the signal on.                                            *)
LEMMA PassLogged ==
    ASSUME FunnelInv, pc \in Judging, pc' \in Judging \ {"technical"},
           NEW g \in Seq(Event), RouterEvents \cap Seen(g) = {},
           \A x \in GatesBefore[pc'] : x \in GatesBefore[pc] \/ <<x, "PASS">> \in Seen(g),
           pc' = "reserve" => \E o \in {"PASS", "BYPASS"} : <<"ML_RANKER", o>> \in Seen(g),
           funnel' = funnel \o g, UNCHANGED proposal
    PROVE  FunnelInv'
<1>1. funnel' \in Seq(Event) /\ Seen(funnel') = Seen(funnel) \cup Seen(g)
  BY ConcatSeen DEF FunnelInv
<1>2. Passed(GatesBefore[pc]) /\ Unrouted /\ proposal = "none"
  BY DEF FunnelInv, Judging
<1>3. \A x \in GatesBefore[pc'] : <<x, "PASS">> \in Seen(funnel')
  BY <1>1, <1>2 DEF Passed
<1>4. Unrouted'
  BY <1>1, <1>2 DEF Routed, RouterFailed, Unrouted, RouterEvents
<1>5. pc' = "reserve" => Ranked'
  BY <1>1 DEF Ranked
<1>6. Passed(GatesBefore[pc])'
  BY <1>3 DEF Passed
<1> QED  BY <1>1, <1>2, <1>4, <1>5, <1>6 DEF FunnelInv, Judging

LEMMA CanaryLogged ==
    ASSUME NEW config, NEW blocks
    PROVE  LET c == CanaryEvents(config, blocks) IN
           /\ c \in Seq(Event)
           /\ \A e \in Seen(c) : e[1] = "ML_CANARY"
           /\ blocks /\ CanaryEnabled(config.policy, config.env)
              => Len(c) > 0 /\ EndsWith(c, "REJECT")
<1> DEFINE o == IF blocks THEN "REJECT"
                ELSE IF CanaryEnforced(config.policy, config.env) THEN "PASS" ELSE "BYPASS"
           e == <<"ML_CANARY", o>>
<1>1. o \in Outcomes /\ (blocks => o = "REJECT")
  BY Zenon DEF Outcomes
<1>2. CanaryEvents(config, blocks) = <<e>> \/ CanaryEvents(config, blocks) = <<>>
  BY Zenon DEF CanaryEvents
<1>3. CanaryEnabled(config.policy, config.env) => CanaryEvents(config, blocks) = <<e>>
  BY Zenon DEF CanaryEvents
<1> HIDE DEF o
<1>4. e \in Event /\ e[1] = "ML_CANARY" /\ e[2] = o
  BY <1>1 DEF Event, Stages, Outcomes, Gates
<1> HIDE DEF e
<1>5. CASE CanaryEvents(config, blocks) = <<e>>
  BY <1>5, <1>4, <1>1, SeenOne
<1>6. CASE CanaryEvents(config, blocks) = <<>> /\ ~CanaryEnabled(config.policy, config.env)
  BY <1>6, EmptySeq DEF Seen
<1> QED  BY <1>2, <1>3, <1>5, <1>6

LEMMA FunnelInvNext == FunnelInv /\ [Next]_vars => FunnelInv'
<1> SUFFICES ASSUME FunnelInv, [Next]_vars PROVE FunnelInv'
  OBVIOUS
<1>1. CASE EvaluateRegime
  <2>0. proposal' = "none" /\ pc = "regime"
    BY <1>1 DEF EvaluateRegime, FunnelInv
  <2>1. CASE /\ funnel' = << <<"SESSION", "PASS">>, <<"NEWS", "REJECT">> >>
             /\ pc' = "next"
    <3> DEFINE e1 == <<"SESSION", "PASS">>
               e2 == <<"NEWS", "REJECT">>
    <3>1. /\ e1 \in Event /\ e2 \in Event /\ <<"TECHNICAL", "PASS">> \notin {e1, e2}
          /\ <<"ROUTER", "ROUTED">> \notin {e1, e2} /\ <<"ROUTER", "REJECT">> \notin {e1, e2}
      BY DEF Event, Stages, Outcomes, Gates
    <3>2. funnel' = <<e1, e2>>
      BY <2>1
    <3> HIDE DEF e1, e2
    <3>3. funnel' \in Seq(Event) /\ Seen(funnel') = {e1, e2}
      BY <3>1, <3>2, SeenTwo
    <3> QED
      BY <3>1, <3>3, <2>0, <2>1
      DEF FunnelInv, Judging, TechnicalPassed, Routed, RouterFailed, Unrouted
  <2>2. CASE /\ funnel' = << <<"SESSION", "PASS">>, <<"REGIME", "REJECT">>,
                             <<"TECHNICAL", "SKIP">> >>
             /\ pc' = "next"
    <3> DEFINE e1 == <<"SESSION", "PASS">>
               e2 == <<"REGIME", "REJECT">>
               e3 == <<"TECHNICAL", "SKIP">>
    <3>1. /\ e1 \in Event /\ e2 \in Event /\ e3 \in Event
          /\ <<"TECHNICAL", "PASS">> \notin {e1, e2, e3}
          /\ <<"ROUTER", "ROUTED">> \notin {e1, e2, e3}
          /\ <<"ROUTER", "REJECT">> \notin {e1, e2, e3}
      BY DEF Event, Stages, Outcomes, Gates
    <3>2. funnel' = <<e1, e2, e3>>
      BY <2>2
    <3> HIDE DEF e1, e2, e3
    <3>3. funnel' \in Seq(Event) /\ Seen(funnel') = {e1, e2, e3}
      BY <3>1, <3>2, SeenThree
    <3> QED
      BY <3>1, <3>3, <2>0, <2>2
      DEF FunnelInv, Judging, TechnicalPassed, Routed, RouterFailed, Unrouted
  <2>3. CASE /\ funnel' = << <<"SESSION", "PASS">>, <<"REGIME", "PASS">> >>
             /\ pc' = "technical"
    <3> DEFINE e1 == <<"SESSION", "PASS">>
               e2 == <<"REGIME", "PASS">>
    <3>1. /\ e1 \in Event /\ e2 \in Event /\ <<"TECHNICAL", "PASS">> \notin {e1, e2}
          /\ <<"ROUTER", "ROUTED">> \notin {e1, e2} /\ <<"ROUTER", "REJECT">> \notin {e1, e2}
      BY DEF Event, Stages, Outcomes, Gates
    <3>2. funnel' = <<e1, e2>>
      BY <2>3
    <3>6. \A g \in {"SESSION", "REGIME"} : <<g, "PASS">> \in {e1, e2}
      OBVIOUS
    <3> HIDE DEF e1, e2
    <3>3. funnel' \in Seq(Event) /\ Seen(funnel') = {e1, e2}
      BY <3>1, <3>2, SeenTwo
    <3>4. GatesBefore[pc'] = {"SESSION", "REGIME"}
      BY <2>3 DEF GatesBefore
    <3>5. Passed(GatesBefore[pc])'
      BY <3>3, <3>4, <3>6 DEF Passed
    <3> QED
      BY <3>1, <3>3, <3>5, <2>0, <2>3
      DEF FunnelInv, Judging, TechnicalPassed, Routed, RouterFailed, Unrouted
  <2> QED  BY <1>1, <2>1, <2>2, <2>3, Zenon DEF EvaluateRegime, NextSymbol
<1>2. CASE EvaluateTechnical
  <2>0. proposal' = "none" /\ proposal = "none" /\ pc = "technical"
    BY <1>2 DEF EvaluateTechnical, FunnelInv
  <2>1. CASE funnel' = funnel \o << <<"TECHNICAL", "REJECT">> >> /\ pc' = "next"
    <3> DEFINE e == <<"TECHNICAL", "REJECT">>
    <3>1. e \in Event /\ e # <<"TECHNICAL", "PASS">> /\ e \notin RouterEvents
      BY DEF Event, Stages, Outcomes, Gates, RouterEvents
    <3>2. funnel' = funnel \o <<e>>
      BY <2>1
    <3> HIDE DEF e
    <3>3. <<e>> \in Seq(Event) /\ Seen(<<e>>) = {e}
      BY <3>1, SeenOne
    <3>4. funnel' \in Seq(Event) /\ Seen(funnel') = Seen(funnel) \cup {e}
      BY <3>2, <3>3, ConcatSeen DEF FunnelInv
    <3>5. <<"TECHNICAL", "PASS">> \notin Seen(funnel) /\ Unrouted
      BY <2>0 DEF FunnelInv, Judging, TechnicalPassed
    <3>6. Unrouted'
      BY <3>1, <3>4, <3>5 DEF Routed, RouterFailed, Unrouted, RouterEvents
    <3> QED  BY <3>1, <3>4, <3>5, <3>6, <2>0, <2>1 DEF FunnelInv, Judging, TechnicalPassed
  <2>2. CASE funnel' = funnel \o << <<"TECHNICAL", "PASS">> >> /\ pc' = "adversarial"
    <3> DEFINE e == <<"TECHNICAL", "PASS">>
    <3>1. e \in Event /\ e \notin RouterEvents
      BY DEF Event, Stages, Outcomes, Gates, RouterEvents
    <3>2. funnel' = funnel \o <<e>> /\ e = <<"TECHNICAL", "PASS">>
      BY <2>2
    <3> HIDE DEF e
    <3>3. <<e>> \in Seq(Event) /\ Seen(<<e>>) = {e}
      BY <3>1, SeenOne
    <3>4. \A x \in GatesBefore["adversarial"] :
              x \in GatesBefore["technical"] \/ <<x, "PASS">> = e
      BY <3>2 DEF GatesBefore
    <3> QED  BY <3>1, <3>2, <3>3, <3>4, <2>0, <2>2, PassLogged DEF Judging
  <2> QED  BY <1>2, <2>1, <2>2, Zenon DEF EvaluateTechnical, NextSymbol, Log
<1>3. ASSUME NEW stage \in {"ADVERSARIAL", "PORTFOLIO", "RESERVATION"}, RejectProposal(stage),
             pc \in Judging \ {"technical"}
      PROVE  FunnelInv'
  <2> DEFINE e == <<stage, "REJECT">>
  <2>1. e \in Event /\ e \notin RouterEvents /\ e[2] = "REJECT"
    BY DEF Event, Stages, Outcomes, Gates, RouterEvents
  <2>2. funnel' = funnel \o <<e>> /\ proposal' = "REJECTED" /\ pc' = "next"
    BY <1>3 DEF RejectProposal, Log, NextSymbol
  <2> HIDE DEF e
  <2>3. /\ <<e>> \in Seq(Event) /\ Seen(<<e>>) = {e} /\ Len(<<e>>) > 0
        /\ EndsWith(<<e>>, "REJECT")
    BY <2>1, SeenOne
  <2> QED  BY <1>3, <2>1, <2>2, <2>3, RejectionLogged
<1>4. CASE EvaluateAdversarial
  <2>0. pc = "adversarial"
    BY <1>4 DEF EvaluateAdversarial
  <2>1. CASE /\ funnel' = funnel \o << <<"ADVERSARIAL", "PASS">> >>
             /\ pc' = "allocate" /\ UNCHANGED proposal
    <3> DEFINE e == <<"ADVERSARIAL", "PASS">>
    <3>1. e \in Event /\ e \notin RouterEvents
      BY DEF Event, Stages, Outcomes, Gates, RouterEvents
    <3>2. funnel' = funnel \o <<e>> /\ e = <<"ADVERSARIAL", "PASS">>
      BY <2>1
    <3> HIDE DEF e
    <3>3. <<e>> \in Seq(Event) /\ Seen(<<e>>) = {e}
      BY <3>1, SeenOne
    <3>4. \A x \in GatesBefore["allocate"] :
              x \in GatesBefore["adversarial"] \/ <<x, "PASS">> = e
      BY <3>2 DEF GatesBefore
    <3> QED  BY <3>1, <3>2, <3>3, <3>4, <2>0, <2>1, PassLogged DEF Judging
  <2>2. CASE RejectProposal("ADVERSARIAL")
    BY <2>2, <1>3, <2>0 DEF Judging
  <2> QED  BY <1>4, <2>1, <2>2, Zenon DEF EvaluateAdversarial, Log
<1>5. CASE Allocate
  <2>0. pc = "allocate"
    BY <1>5 DEF Allocate
  <2>1. CASE RejectProposal("PORTFOLIO")
    BY <2>1, <1>3, <2>0 DEF Judging
  <2>2. CASE /\ funnel' = funnel \o << <<"PORTFOLIO", "PASS">>, <<"HARD_RISK", "REJECT">> >>
             /\ proposal' = "REJECTED" /\ pc' = "next"
    <3> DEFINE e1 == <<"PORTFOLIO", "PASS">>
               e2 == <<"HARD_RISK", "REJECT">>
    <3>1. /\ e1 \in Event /\ e2 \in Event /\ e2[2] = "REJECT"
          /\ RouterEvents \cap {e1, e2} = {}
      BY DEF Event, Stages, Outcomes, Gates, RouterEvents
    <3>2. funnel' = funnel \o <<e1, e2>>
      BY <2>2
    <3> HIDE DEF e1, e2
    <3>3. /\ <<e1, e2>> \in Seq(Event) /\ Seen(<<e1, e2>>) = {e1, e2} /\ Len(<<e1, e2>>) > 0
          /\ EndsWith(<<e1, e2>>, "REJECT")
      BY <3>1, SeenTwo
    <3> QED  BY <3>1, <3>2, <3>3, <2>0, <2>2, RejectionLogged DEF Judging
  <2>3. CASE /\ funnel' = funnel \o << <<"PORTFOLIO", "PASS">>, <<"HARD_RISK", "PASS">> >>
             /\ pc' = "rank" /\ UNCHANGED proposal
    <3> DEFINE e1 == <<"PORTFOLIO", "PASS">>
               e2 == <<"HARD_RISK", "PASS">>
    <3>1. /\ e1 \in Event /\ e2 \in Event
          /\ RouterEvents \cap {e1, e2} = {}
      BY DEF Event, Stages, Outcomes, Gates, RouterEvents
    <3>2. /\ funnel' = funnel \o <<e1, e2>>
          /\ e1 = <<"PORTFOLIO", "PASS">> /\ e2 = <<"HARD_RISK", "PASS">>
      BY <2>3
    <3> HIDE DEF e1, e2
    <3>3. <<e1, e2>> \in Seq(Event) /\ Seen(<<e1, e2>>) = {e1, e2}
      BY <3>1, SeenTwo
    <3>4. \A x \in GatesBefore["rank"] :
              x \in GatesBefore["allocate"] \/ <<x, "PASS">> \in {e1, e2}
      BY <3>2 DEF GatesBefore, Gates
    <3> QED  BY <3>1, <3>2, <3>3, <3>4, <2>0, <2>3, PassLogged DEF Judging
  <2> QED  BY <1>5, <2>1, <2>2, <2>3, Zenon DEF Allocate, Log, NextSymbol
<1>6. CASE RankSignal
  <2>0. pc = "rank"
    BY <1>6 DEF RankSignal
  <2>1. PICK config, blocks, primary, outcome :
          LET canary == CanaryEvents(config, blocks) IN
          /\ blocks = CanaryBlocks(config.policy, config.env, outcome, primary)
          /\ \/ blocks /\ funnel' = funnel \o canary /\ proposal' = "REJECTED" /\ pc' = "next"
             \/ /\ funnel' = funnel \o (canary \o << <<"ML_RANKER", "REJECT">> >>)
                /\ proposal' = "REJECTED" /\ pc' = "next"
             \/ /\ funnel' = funnel \o (canary \o
                     << <<"ML_RANKER", IF config.ranker THEN "PASS" ELSE "BYPASS">> >>)
                /\ pc' = "reserve" /\ UNCHANGED proposal
    <3>1. PICK config \in Configs, low \in BOOLEAN, data \in {"ok", "missing"},
               probability \in {10, 90} :
            LET primary == PrimaryRoute(config, low)
                outcome == ShadowOutcome(ShadowEnabled(config.policy, config.env),
                                         config.model, data, probability, 50)
                blocks  == CanaryBlocks(config.policy, config.env, outcome, primary)
                canary  == CanaryEvents(config, blocks)
            IN  IF blocks
                THEN Log(canary) /\ proposal' = "REJECTED" /\ NextSymbol
                ELSE IF ~primary
                THEN /\ Log(canary \o << <<"ML_RANKER", "REJECT">> >>)
                     /\ proposal' = "REJECTED"
                     /\ NextSymbol
                ELSE /\ Log(canary \o
                            << <<"ML_RANKER", IF config.ranker THEN "PASS" ELSE "BYPASS">> >>)
                     /\ pc' = "reserve"
                     /\ UNCHANGED proposal
      BY <1>6, Zenon DEF RankSignal
    <3> DEFINE primary == PrimaryRoute(config, low)
               outcome == ShadowOutcome(ShadowEnabled(config.policy, config.env),
                                        config.model, data, probability, 50)
               blocks  == CanaryBlocks(config.policy, config.env, outcome, primary)
               canary  == CanaryEvents(config, blocks)
    <3>2. \/ blocks /\ funnel' = funnel \o canary /\ proposal' = "REJECTED" /\ pc' = "next"
          \/ /\ funnel' = funnel \o (canary \o << <<"ML_RANKER", "REJECT">> >>)
             /\ proposal' = "REJECTED" /\ pc' = "next"
          \/ /\ funnel' = funnel \o (canary \o
                  << <<"ML_RANKER", IF config.ranker THEN "PASS" ELSE "BYPASS">> >>)
             /\ pc' = "reserve" /\ UNCHANGED proposal
      BY <3>1, Zenon DEF Log, NextSymbol
    <3> QED  BY <3>2, Zenon
  <2> DEFINE canary == CanaryEvents(config, blocks)
  <2>2. /\ canary \in Seq(Event)
        /\ \A e \in Seen(canary) : e[1] = "ML_CANARY"
        /\ blocks => Len(canary) > 0 /\ EndsWith(canary, "REJECT")
    BY <2>1, CanaryLogged, Zenon DEF CanaryBlocks, CanaryEnforced
  <2>3. RouterEvents \cap Seen(canary) = {}
    BY <2>2 DEF RouterEvents
  <2>4. CASE blocks /\ funnel' = funnel \o canary /\ proposal' = "REJECTED" /\ pc' = "next"
    <3> HIDE DEF canary
    <3> QED  BY <2>0, <2>2, <2>3, <2>4, RejectionLogged DEF Judging
  <2>5. CASE /\ funnel' = funnel \o (canary \o << <<"ML_RANKER", "REJECT">> >>)
             /\ proposal' = "REJECTED" /\ pc' = "next"
    <3> DEFINE e == <<"ML_RANKER", "REJECT">>
    <3>1. e \in Event /\ e \notin RouterEvents /\ e[2] = "REJECT"
      BY DEF Event, Stages, Outcomes, Gates, RouterEvents
    <3>2. funnel' = funnel \o (canary \o <<e>>)
      BY <2>5
    <3> HIDE DEF e, canary
    <3>3. /\ <<e>> \in Seq(Event) /\ Seen(<<e>>) = {e} /\ Len(<<e>>) = 1
          /\ EndsWith(<<e>>, "REJECT")
      BY <3>1, SeenOne
    <3>4. /\ canary \o <<e>> \in Seq(Event) /\ Seen(canary \o <<e>>) = Seen(canary) \cup {e}
          /\ EndsWith(canary \o <<e>>, "REJECT")
      <4>1. Len(<<e>>) > 0
        BY <3>3
      <4> QED  BY <4>1, <3>3, <2>2, ConcatSeen, Zenon
    <3>5. Len(canary \o <<e>>) > 0
      BY <3>3, <2>2, ConcatProperties, LenProperties
    <3> QED  BY <2>0, <2>3, <2>5, <3>1, <3>2, <3>4, <3>5, RejectionLogged DEF Judging
  <2>6. CASE /\ funnel' = funnel \o (canary \o
                   << <<"ML_RANKER", IF config.ranker THEN "PASS" ELSE "BYPASS">> >>)
             /\ pc' = "reserve" /\ UNCHANGED proposal
    <3>0. PICK o \in {"PASS", "BYPASS"} :
              funnel' = funnel \o (canary \o << <<"ML_RANKER", o>> >>)
      BY <2>6, Zenon
    <3> DEFINE e == <<"ML_RANKER", o>>
    <3>1. e \in Event /\ e \notin RouterEvents
      BY DEF Event, Stages, Outcomes, Gates, RouterEvents
    <3>2. funnel' = funnel \o (canary \o <<e>>) /\ e = <<"ML_RANKER", o>>
      BY <3>0
    <3> HIDE DEF e, canary
    <3>3. <<e>> \in Seq(Event) /\ Seen(<<e>>) = {e}
      BY <3>1, SeenOne
    <3>4. canary \o <<e>> \in Seq(Event) /\ Seen(canary \o <<e>>) = Seen(canary) \cup {e}
      BY <3>3, <2>2, ConcatSeen
    <3>5. GatesBefore["rank"] = GatesBefore["reserve"]
      BY DEF GatesBefore
    <3>6. \E p \in {"PASS", "BYPASS"} : <<"ML_RANKER", p>> \in Seen(canary \o <<e>>)
      BY <3>2, <3>4
    <3> QED  BY <2>0, <2>3, <2>6, <3>1, <3>2, <3>4, <3>5, <3>6, PassLogged DEF Judging
  <2> QED  BY <2>1, <2>4, <2>5, <2>6, Zenon
<1>7. CASE ReserveAndRoute
  <2>0. pc = "reserve"
    BY <1>7 DEF ReserveAndRoute
  <2>1. CASE RejectProposal("RESERVATION")
    BY <2>1, <1>3, <2>0 DEF Judging
  <2>2. CASE /\ funnel' = funnel \o << <<"ROUTER", "ROUTED">> >>
             /\ proposal' = "PENDING" /\ pc' = "next"
    <3> DEFINE e == <<"ROUTER", "ROUTED">>
    <3>1. e \in Event /\ e[2] # "REJECT" /\ e # <<"ROUTER", "REJECT">>
      BY DEF Event, Stages, Outcomes, Gates
    <3>2. funnel' = funnel \o <<e>> /\ e = <<"ROUTER", "ROUTED">>
      BY <2>2
    <3> HIDE DEF e
    <3>3. /\ <<e>> \in Seq(Event) /\ Seen(<<e>>) = {e} /\ Len(<<e>>) > 0
          /\ ~EndsWith(<<e>>, "REJECT")
      BY <3>1, SeenOne
    <3>4. /\ funnel' \in Seq(Event) /\ Seen(funnel') = Seen(funnel) \cup {e}
          /\ ~EndsWith(funnel', "REJECT")
      BY <3>2, <3>3, ConcatSeen DEF FunnelInv
    <3>5. Passed(Gates) /\ Ranked /\ ~RouterFailed
      BY <2>0 DEF FunnelInv, Judging, GatesBefore, Unrouted
    <3>6. Passed(Gates)' /\ Ranked' /\ Routed' /\ ~RouterFailed'
      BY <3>1, <3>2, <3>4, <3>5 DEF Passed, Ranked, Routed, RouterFailed
    <3> QED  BY <2>2, <3>4, <3>6 DEF FunnelInv, Judging
  <2>3. CASE /\ funnel' = funnel \o << <<"ROUTER", "REJECT">> >>
             /\ UNCHANGED proposal /\ pc' = "ended"
    <3> DEFINE e == <<"ROUTER", "REJECT">>
    <3>1. e \in Event /\ e # <<"ROUTER", "ROUTED">>
      BY DEF Event, Stages, Outcomes, Gates
    <3>2. funnel' = funnel \o <<e>> /\ e = <<"ROUTER", "REJECT">>
      BY <2>3
    <3> HIDE DEF e
    <3>3. <<e>> \in Seq(Event) /\ Seen(<<e>>) = {e}
      BY <3>1, SeenOne
    <3>4. funnel' \in Seq(Event) /\ Seen(funnel') = Seen(funnel) \cup {e}
      BY <3>2, <3>3, ConcatSeen DEF FunnelInv
    <3>5. "TECHNICAL" \in GatesBefore[pc] /\ Passed(GatesBefore[pc]) /\ ~Routed
      BY <2>0 DEF FunnelInv, Judging, GatesBefore, Gates, Unrouted
    <3>6. <<"TECHNICAL", "PASS">> \in Seen(funnel) /\ proposal = "none"
      BY <2>0, <3>5 DEF Passed, FunnelInv
    <3>7. TechnicalPassed' /\ RouterFailed' /\ ~Routed'
      BY <3>1, <3>2, <3>4, <3>5, <3>6 DEF TechnicalPassed, Routed, RouterFailed
    <3> QED  BY <2>3, <3>4, <3>6, <3>7 DEF FunnelInv, Judging
  <2> QED
    BY <1>7, <2>1, <2>2, <2>3, Zenon DEF ReserveAndRoute, Route, RouterFails, Log, NextSymbol
<1>8. CASE FinishSymbol
  BY <1>8, EmptySeq DEF FinishSymbol, FunnelInv, Judging
<1>9. CASE \E s \in Symbols : CloseBar(s)
  BY <1>9, FunnelInvKept DEF CloseBar, evalVars
<1>10. CASE (\E t \in Ids : Fill(t) \/ Finish(t)) \/ PublishSnapshot
  BY <1>10, FunnelInvKept DEF Fill, Finish, PublishSnapshot, evalVars
<1>11. CASE ConsumeFeedback \/ UpdateAccountState \/ CheckCandle \/ SkipCycle \/ BeginCycle
  BY <1>11, FunnelInvKept
  DEF ConsumeFeedback, UpdateAccountState, CheckCandle, SkipCycle, BeginCycle, evalVars,
      Judging
<1>12. CASE UNCHANGED vars
  BY <1>12, FunnelInvKept DEF vars, evalVars
<1> QED
  BY <1>1, <1>2, <1>4, <1>5, <1>6, <1>7, <1>8, <1>9, <1>10, <1>11, <1>12
  DEF Next, Market, Engine

(* A signal without a row ends the process, and nothing follows the end.   *)
RowsInv == \A t \in Ids : book[t].row = "none" => pc = "ended"

LEMMA RowsInvNext == BookInv /\ RowsInv /\ [Next]_vars => RowsInv'
<1> SUFFICES ASSUME BookInv, RowsInv, [Next]_vars PROVE RowsInv'
  OBVIOUS
<1>0. /\ Ids = 1..Len(book) /\ Len(book) \in Nat /\ DOMAIN book = Ids
      /\ \A t \in Ids : book[t] \in Entry
  BY EntriesTyped DEF BookInv, Ids
<1>1. CASE UNCHANGED <<book, pc>>
  BY <1>1 DEF RowsInv, Ids
<1>2. CASE pc = "ended"
  BY <1>1, <1>2
  DEF Next, Market, Engine, vars, brokerVars, CloseBar, Fill, Finish, PublishSnapshot, AtBroker,
      ConsumeFeedback, UpdateAccountState, CheckCandle, SkipCycle, BeginCycle, EvaluateRegime,
      EvaluateTechnical, EvaluateAdversarial, Allocate, RankSignal, ReserveAndRoute, FinishSymbol
<1>3. ASSUME pc # "ended" PROVE \A t \in Ids : book[t].row # "none"
  BY <1>3 DEF RowsInv
<1>4. CASE pc # "ended" /\ UNCHANGED book
  BY <1>3, <1>4 DEF RowsInv, Ids
<1>5. ASSUME NEW t \in Ids, Fill(t) \/ Finish(t), pc # "ended" PROVE RowsInv'
  <2>1. PICK b \in {"open", "gone"} : book' = [book EXCEPT ![t].broker = b]
    BY <1>5 DEF Fill, Finish
  <2>2. Ids' = Ids
    BY <2>1, <1>0 DEF Ids
  <2>3. \A u \in Ids : book'[u] = IF u = t THEN [book[t] EXCEPT !.broker = b] ELSE book[u]
    BY <2>1, <1>0
  <2>4. \A u \in Ids : book'[u].row = book[u].row
    BY <2>3, <1>0 DEF Entry
  <2> QED  BY <2>2, <2>4, <1>3, <1>5 DEF RowsInv
<1>6. CASE ConsumeFeedback
  <2>1. Ids' = Ids /\ pc # "ended"
    BY <1>6, <1>0 DEF ConsumeFeedback, Ids
  <2>2. ASSUME NEW t \in Ids PROVE book'[t].row # "none"
    <3>1. book[t].row # "none" /\ book[t] \in Entry
      BY <1>0, <1>3, <2>1
    <3>2. PICK r : /\ book'[t] = [book[t] EXCEPT !.row = r]
                   /\ r \in {"EXECUTED_OPEN", "CLOSED", book[t].row}
      BY <1>6, <1>0 DEF ConsumeFeedback
    <3> QED  BY <3>1, <3>2 DEF Entry
  <2> QED  BY <2>1, <2>2 DEF RowsInv
<1>7. CASE ReserveAndRoute
  <2>0. pc # "ended"
    BY <1>7 DEF ReserveAndRoute
  <2>1. CASE Route
    <3>1. \A t \in Ids' : t \in Ids \/ t = Len(book) + 1
      BY <2>1, <1>0 DEF Route, Ids
    <3>2. /\ \A t \in Ids : book'[t] = book[t]
          /\ book'[Len(book) + 1] = Sent("PENDING")
      BY <2>1, <1>0 DEF Route
    <3>3. Sent("PENDING").row = "PENDING"
      BY DEF Sent
    <3> QED  BY <2>0, <3>1, <3>2, <3>3, <1>3 DEF RowsInv
  <2>2. CASE RouterFails
    BY <2>2 DEF RouterFails, RowsInv
  <2> QED  BY <1>4, <1>7, <2>0, <2>1, <2>2 DEF ReserveAndRoute
<1> QED
  BY <1>1, <1>2, <1>4, <1>5, <1>6, <1>7
  DEF Next, Market, Engine, vars, brokerVars, CloseBar, PublishSnapshot, UpdateAccountState,
      CheckCandle, SkipCycle, BeginCycle, EvaluateRegime, EvaluateTechnical,
      EvaluateAdversarial, Allocate, RankSignal, FinishSymbol

(* When a symbol is done, its funnel and its ledger row tell one story,    *)
(* whatever the shadow and the canary said, and the router's failure, the  *)
(* one exit without a row, ends the process.                               *)
THEOREM FunnelsAgreeWithLedger == Spec => []FunnelAgreesWithLedger
<1>1. Spec => []FunnelInv
  BY FunnelInvInit, FunnelInvNext, PTL DEF Spec
<1>2. Spec => []RowsInv
  <2>1. Init => BookInv /\ RowsInv
    <3>1. Init => BookInv
      BY ClockTypeInit, SignalInvInit, BookTypeInit DEF BookInv
    <3>2. Init => RowsInv
      BY DEF Init, RowsInv, Ids
    <3> QED  BY <3>1, <3>2
  <2> QED  BY <2>1, BookInvNext, RowsInvNext, PTL DEF Spec
<1>3. FunnelInv /\ RowsInv => FunnelAgreesWithLedger
  <2> SUFFICES ASSUME FunnelInv, RowsInv, pc \in {"next", "ended"} PROVE FunnelAgreesWithLedger
    BY DEF FunnelAgreesWithLedger, RowsInv
  <2>0. funnel \in Seq(Event)
    BY DEF FunnelInv
  <2>9. \A stage, outcomes :
            Logged(stage, outcomes) <=> \E o \in outcomes : <<stage, o>> \in Seen(funnel)
    BY <2>0, LoggedIsSeen
  <2>1. Logged("TECHNICAL", {"PASS"}) <=> TechnicalPassed
    BY <2>9, Zenon DEF TechnicalPassed
  <2>2. (\A g \in Gates : Logged(g, {"PASS"})) <=> Passed(Gates)
    BY <2>9, Zenon DEF Passed
  <2>3. Logged("ML_RANKER", {"PASS", "BYPASS"}) <=> Ranked
    BY <2>9, Zenon DEF Ranked
  <2>4. Logged("ROUTER", {"ROUTED"}) <=> Routed
    BY <2>9, Zenon DEF Routed
  <2>10. Logged("ROUTER", {"REJECT"}) <=> RouterFailed
    BY <2>9, Zenon DEF RouterFailed
  <2>5. (\E i \in DOMAIN funnel : i = Len(funnel) /\ funnel[i][2] = "REJECT")
        <=> EndsWith(funnel, "REJECT")
    BY Zenon DEF EndsWith
  <2>6. Passed(Gates) => TechnicalPassed
    BY DEF Passed, Gates, TechnicalPassed
  <2>7. \/ pc = "next" /\ proposal = "none" /\ ~TechnicalPassed /\ ~Routed /\ ~RouterFailed
        \/ /\ pc = "next" /\ proposal = "REJECTED" /\ TechnicalPassed /\ ~Routed /\ ~RouterFailed
           /\ EndsWith(funnel, "REJECT")
        \/ /\ pc = "next" /\ proposal = "PENDING" /\ Passed(Gates) /\ Ranked /\ Routed
           /\ ~RouterFailed /\ ~EndsWith(funnel, "REJECT")
        \/ pc = "ended" /\ proposal = "none" /\ TechnicalPassed /\ RouterFailed /\ ~Routed
    BY DEF FunnelInv, Unrouted
  <2> HIDE DEF Passed, Ranked, Routed, RouterFailed, TechnicalPassed
  <2>8. /\ proposal # "none" <=> Logged("TECHNICAL", {"PASS"}) /\ ~Logged("ROUTER", {"REJECT"})
        /\ proposal = "PENDING" <=>
              /\ \A g \in Gates : Logged(g, {"PASS"})
              /\ Logged("ML_RANKER", {"PASS", "BYPASS"})
              /\ Logged("ROUTER", {"ROUTED"})
        /\ proposal = "REJECTED" <=>
              /\ \E i \in DOMAIN funnel : i = Len(funnel) /\ funnel[i][2] = "REJECT"
              /\ Logged("TECHNICAL", {"PASS"}) /\ ~Logged("ROUTER", {"REJECT"})
        /\ Logged("ROUTER", {"REJECT"}) => pc = "ended"
    BY <2>1, <2>2, <2>3, <2>4, <2>5, <2>6, <2>7, <2>10
  <2> QED  BY <2>8, Zenon DEF FunnelAgreesWithLedger, RowsInv
<1> QED  BY <1>1, <1>2, <1>3, PTL

-----------------------------------------------------------------------------
(* How often a bar is judged.                                              *)

(* Is the symbol still to be judged in the cycle under way?                *)
Coming(s) ==
    \/ pc = "cycle"
    \/ pc = "regime" /\ \E i \in DOMAIN Order : i >= turn /\ Order[i] = s
    \/ pc \in Evaluating /\ \E i \in DOMAIN Order : i > turn /\ Order[i] = s
Due(s) == judged[s] + (IF Coming(s) THEN 1 ELSE 0)

(* The other symbols, by what their bars may still cause before the next   *)
(* bar of this symbol: each may close one bar while it is not ahead, one   *)
(* more when it is behind, and start a cycle with a bar not yet seen.      *)
NotAhead(s) == {u \in Symbols \ {s} : bar[u] <= bar[s]}
Behind(s) == {u \in Symbols \ {s} : bar[u] < bar[s]}
Unseen(s) == {u \in Symbols \ {s} : bar[u] > lastBar[u]}

Causes(s) == Cardinality(NotAhead(s)) + Cardinality(Behind(s)) + Cardinality(Unseen(s))

FeedsTogether == \A s, u \in Symbols : bar[s] <= bar[u] + 1

JudgedBound(s) ==
    IF bar[s] > lastBar[s] THEN Due(s) <= 1
    ELSE Due(s) + Causes(s) <= 2 * Cardinality(Symbols)

JudgedInv == FeedsTogether /\ \A s \in Symbols : JudgedBound(s)

LEMMA SymbolsFinite == IsFiniteSet(Symbols) /\ Cardinality(Symbols) \in Nat
<1>1. DOMAIN Order = 1..Len(Order) /\ Len(Order) \in Nat /\ Order \in [1..Len(Order) -> Symbols]
  BY OrderAssumption, LenProperties
<1>2. IsFiniteSet(1..Len(Order))
  BY <1>1, FS_Interval
<1>3. Order \in Surjection(1..Len(Order), Symbols)
  BY <1>1 DEF Surjection, Symbols
<1> QED  BY <1>2, <1>3, FS_Surjection, FS_CardinalityType

LEMMA OthersCounted ==
    ASSUME NEW s \in Symbols
    PROVE  /\ IsFiniteSet(Symbols \ {s})
           /\ Cardinality(Symbols \ {s}) = Cardinality(Symbols) - 1
  BY SymbolsFinite, FS_RemoveElement

LEMMA PartOfOthers ==
    ASSUME NEW s \in Symbols, NEW S \in SUBSET (Symbols \ {s})
    PROVE  /\ IsFiniteSet(S) /\ Cardinality(S) \in Nat
           /\ Cardinality(S) <= Cardinality(Symbols) - 1
<1>1. IsFiniteSet(Symbols \ {s}) /\ Cardinality(Symbols \ {s}) = Cardinality(Symbols) - 1
  BY OthersCounted
<1>2. IsFiniteSet(S) /\ Cardinality(S) <= Cardinality(Symbols \ {s})
  BY <1>1, FS_Subset
<1> QED  BY <1>1, <1>2, FS_CardinalityType

LEMMA CausesBounded ==
    ASSUME NEW s \in Symbols
    PROVE  /\ Causes(s) \in Nat
           /\ Unseen(s) = {} => Causes(s) <= 2 * (Cardinality(Symbols) - 1)
           /\ Unseen(s) # {} => Cardinality(Unseen(s)) >= 1
<1>1. /\ NotAhead(s) \in SUBSET (Symbols \ {s}) /\ Behind(s) \in SUBSET (Symbols \ {s})
      /\ Unseen(s) \in SUBSET (Symbols \ {s})
  BY DEF NotAhead, Behind, Unseen
<1>2. /\ Cardinality(NotAhead(s)) \in Nat /\ Cardinality(NotAhead(s)) <= Cardinality(Symbols) - 1
      /\ Cardinality(Behind(s)) \in Nat /\ Cardinality(Behind(s)) <= Cardinality(Symbols) - 1
      /\ Cardinality(Unseen(s)) \in Nat /\ IsFiniteSet(Unseen(s))
  BY <1>1, PartOfOthers
<1>3. Unseen(s) = {} <=> Cardinality(Unseen(s)) = 0
  BY <1>2, FS_EmptySet
<1> QED  BY <1>2, <1>3, SymbolsFinite DEF Causes

(* The count of a set that loses, or may gain, one element.                *)
LEMMA OneLess ==
    ASSUME NEW S, NEW T, NEW c \in S, IsFiniteSet(S), T \subseteq S \ {c}
    PROVE  Cardinality(T) + 1 <= Cardinality(S)
<1>1. IsFiniteSet(S \ {c}) /\ Cardinality(S \ {c}) = Cardinality(S) - 1
  BY FS_RemoveElement
<1>2. Cardinality(T) <= Cardinality(S \ {c})
  BY <1>1, FS_Subset
<1>3. Cardinality(S) \in Nat /\ Cardinality(T) \in Nat
  BY <1>1, FS_CardinalityType, FS_Subset
<1> QED  BY <1>1, <1>2, <1>3

LEMMA OneMore ==
    ASSUME NEW S, NEW T, NEW c, IsFiniteSet(S), T \subseteq S \cup {c}
    PROVE  Cardinality(T) <= Cardinality(S) + 1
<1>1. /\ IsFiniteSet(S \cup {c})
      /\ Cardinality(S \cup {c}) = IF c \in S THEN Cardinality(S) ELSE Cardinality(S) + 1
  BY FS_AddElement
<1>2. Cardinality(T) <= Cardinality(S \cup {c})
  BY <1>1, FS_Subset
<1>3. Cardinality(S) \in Nat /\ Cardinality(T) \in Nat
  BY <1>1, FS_CardinalityType, FS_Subset
<1> QED  BY <1>1, <1>2, <1>3

LEMMA DueType ==
    ASSUME ClockType, NEW s \in Symbols
    PROVE  Due(s) \in Nat /\ judged[s] \in Nat /\ Due(s) >= judged[s] /\ Due(s) <= judged[s] + 1
  BY DEF ClockType, Due

(* A step that leaves the bars alone and adds no judgement still due.      *)
LEMMA JudgedInvKept ==
    ASSUME ClockType, ClockType', JudgedInv, UNCHANGED <<bar, lastBar>>,
           \A s \in Symbols : Due(s)' <= Due(s)
    PROVE  JudgedInv'
<1>1. FeedsTogether'
  BY DEF JudgedInv, FeedsTogether
<1>2. ASSUME NEW s \in Symbols PROVE JudgedBound(s)'
  <2>1. NotAhead(s)' = NotAhead(s) /\ Behind(s)' = Behind(s) /\ Unseen(s)' = Unseen(s)
    BY DEF NotAhead, Behind, Unseen
  <2>2. Causes(s)' = Causes(s)
    BY <2>1, Zenon DEF Causes
  <2>3. Due(s) \in Nat /\ Causes(s) \in Nat /\ Cardinality(Symbols) \in Nat
    BY DueType, CausesBounded, SymbolsFinite
  <2>4. Due(s)' \in Nat
    BY DEF ClockType, Due
  <2> QED  BY <2>2, <2>3, <2>4 DEF JudgedInv, JudgedBound
<1> QED  BY <1>1, <1>2 DEF JudgedInv

LEMMA CloseBarKeepsBound ==
    ASSUME ClockType, ClockType', JudgedInv, NEW c \in Symbols, CloseBar(c)
    PROVE  JudgedInv'
<1>1. /\ pc' = pc /\ turn' = turn /\ lastBar' = lastBar
      /\ bar' = [bar EXCEPT ![c] = @ + 1] /\ judged' = [judged EXCEPT ![c] = 0]
      /\ \A u \in Symbols : bar[c] <= bar[u]
  BY DEF CloseBar
<1>2. /\ \A u \in Symbols : bar[u] \in Nat /\ lastBar[u] \in Int /\ lastBar[u] <= bar[u]
      /\ \A u \in Symbols : bar'[u] = IF u = c THEN bar[u] + 1 ELSE bar[u]
      /\ \A u \in Symbols : judged'[u] = IF u = c THEN 0 ELSE judged[u]
  BY <1>1, DecisionAssumption DEF ClockType
<1>3. FeedsTogether
  BY DEF JudgedInv
<1>4. FeedsTogether'
  BY <1>1, <1>2, <1>3 DEF FeedsTogether
<1>5. \A s \in Symbols : Coming(s)' <=> Coming(s)
  BY <1>1 DEF Coming
<1>6. JudgedBound(c)'
  <2>1. bar'[c] > lastBar'[c]
    BY <1>1, <1>2
  <2>2. Due(c)' <= 1
    BY <1>2 DEF Due
  <2> QED  BY <2>1, <2>2 DEF JudgedBound
<1>7. ASSUME NEW s \in Symbols, s # c PROVE JudgedBound(s)'
  <2>1. Due(s)' = Due(s)
    BY <1>2, <1>5, <1>7 DEF Due
  <2>2. bar'[s] = bar[s] /\ lastBar'[s] = lastBar[s] /\ JudgedBound(s)
    BY <1>1, <1>2, <1>7 DEF JudgedInv
  <2>3. CASE bar[s] > lastBar[s]
    BY <2>1, <2>2, <2>3 DEF JudgedBound
  <2>4. CASE ~(bar[s] > lastBar[s])
    <3>1. Due(s) + Causes(s) <= 2 * Cardinality(Symbols)
      BY <2>2, <2>4 DEF JudgedBound
    <3>2. /\ NotAhead(s) \in SUBSET (Symbols \ {s}) /\ Behind(s) \in SUBSET (Symbols \ {s})
          /\ Unseen(s) \in SUBSET (Symbols \ {s})
      BY DEF NotAhead, Behind, Unseen
    <3>3. /\ IsFiniteSet(NotAhead(s)) /\ Cardinality(NotAhead(s)) \in Nat
          /\ IsFiniteSet(Behind(s)) /\ Cardinality(Behind(s)) \in Nat
          /\ IsFiniteSet(Unseen(s)) /\ Cardinality(Unseen(s)) \in Nat
      BY <3>2, PartOfOthers
    <3>4. /\ NotAhead(s)' \in SUBSET (Symbols \ {s}) /\ Behind(s)' \in SUBSET (Symbols \ {s})
          /\ Unseen(s)' \in SUBSET (Symbols \ {s})
      BY DEF NotAhead, Behind, Unseen
    <3>5. /\ Cardinality(NotAhead(s)') \in Nat /\ Cardinality(Behind(s)') \in Nat
          /\ Cardinality(Unseen(s)') \in Nat
      BY <3>4, PartOfOthers
    <3>6. Unseen(s)' \subseteq Unseen(s) \cup {c}
      BY <1>1, <1>2 DEF Unseen
    <3>7. Cardinality(Unseen(s)') <= Cardinality(Unseen(s)) + 1
      BY <3>3, <3>6, OneMore
    <3>8. NotAhead(s)' \subseteq NotAhead(s) /\ Behind(s)' \subseteq Behind(s)
      BY <1>2, <2>2, <1>7 DEF NotAhead, Behind
    <3>9. /\ Cardinality(NotAhead(s)') <= Cardinality(NotAhead(s))
          /\ Cardinality(Behind(s)') <= Cardinality(Behind(s))
      BY <3>3, <3>8, FS_Subset
    <3>10. /\ Cardinality(NotAhead(s)') + Cardinality(Behind(s)') + 1
              <= Cardinality(NotAhead(s)) + Cardinality(Behind(s))
      <4>1. CASE bar[c] < bar[s]
        <5>1. c \in Behind(s)
          BY <4>1, <1>7 DEF Behind
        <5>2. bar[s] <= bar[c] + 1 /\ bar[s] \in Nat /\ bar[c] \in Nat
          BY <1>2, <1>3 DEF FeedsTogether
        <5>3. bar'[c] = bar[c] + 1
          BY <1>2
        <5>4. c \notin Behind(s)'
          BY <4>1, <5>2, <5>3, <2>2 DEF Behind
        <5>5. Cardinality(Behind(s)') + 1 <= Cardinality(Behind(s))
          BY <5>1, <5>4, <3>8, <3>3, OneLess
        <5> QED  BY <5>5, <3>3, <3>5, <3>9
      <4>2. CASE bar[c] >= bar[s]
        <5>1. bar[c] = bar[s] /\ bar[s] \in Nat /\ bar[c] \in Nat
          BY <4>2, <1>1, <1>2
        <5>2. c \in NotAhead(s)
          BY <5>1, <1>7 DEF NotAhead
        <5>3. bar'[c] = bar[c] + 1
          BY <1>2
        <5>4. c \notin NotAhead(s)'
          BY <5>1, <5>3, <2>2 DEF NotAhead
        <5>5. Cardinality(NotAhead(s)') + 1 <= Cardinality(NotAhead(s))
          BY <5>2, <5>4, <3>8, <3>3, OneLess
        <5> QED  BY <5>5, <3>3, <3>5, <3>9
      <4> QED  BY <4>1, <4>2, <1>2
    <3>11. Causes(s)' <= Causes(s)
      BY <3>3, <3>5, <3>7, <3>10 DEF Causes
    <3>12. Causes(s)' \in Nat /\ Causes(s) \in Nat /\ Due(s) \in Nat
           /\ Cardinality(Symbols) \in Nat
      BY <3>3, <3>5, DueType, SymbolsFinite DEF Causes
    <3>13. Due(s)' + Causes(s)' <= 2 * Cardinality(Symbols)
      BY <3>1, <3>11, <3>12, <2>1
    <3> QED  BY <3>13, <2>2, <2>4 DEF JudgedBound
  <2> QED  BY <2>3, <2>4
<1> QED  BY <1>4, <1>6, <1>7 DEF JudgedInv

LEMMA CheckCandleKeepsBound ==
    ASSUME ClockType, ClockType', JudgedInv, CheckCandle
    PROVE  JudgedInv'
<1>1. /\ pc = "candle" /\ pc' \in {"cycle", "consume"}
      /\ pc' = "cycle" => NewCandles # {}
      /\ bar' = bar /\ judged' = judged
      /\ lastBar' = [s \in Symbols |-> IF s \in NewCandles THEN bar[s] ELSE lastBar[s]]
  BY DEF CheckCandle
<1>2. \A u \in Symbols : /\ bar[u] \in Nat /\ lastBar[u] \in Int /\ lastBar[u] <= bar[u]
                         /\ lastBar'[u] = bar[u] /\ bar'[u] = bar[u]
  BY <1>1, DecisionAssumption DEF ClockType, NewCandles
<1>3. FeedsTogether'
  BY <1>1 DEF JudgedInv, FeedsTogether
<1>4. ASSUME NEW s \in Symbols PROVE JudgedBound(s)'
  <2>1. ~Coming(s) /\ Due(s) = judged[s]
    BY <1>1 DEF Coming, Due, Evaluating, ClockType
  <2>2. /\ Due(s) \in Nat /\ Due(s)' \in Nat /\ Due(s)' <= Due(s) + 1
        /\ pc' = "consume" => Due(s)' = Due(s)
    BY <2>1, <1>1 DEF Due, ClockType, Coming, Evaluating
  <2>3. /\ Causes(s) \in Nat
        /\ Unseen(s) # {} => Cardinality(Unseen(s)) >= 1
    BY CausesBounded
  <2>4. Unseen(s)' = {}
    BY <1>2 DEF Unseen
  <2>5. NotAhead(s)' = NotAhead(s) /\ Behind(s)' = Behind(s)
    BY <1>1 DEF NotAhead, Behind
  <2>6. /\ NotAhead(s) \in SUBSET (Symbols \ {s}) /\ Behind(s) \in SUBSET (Symbols \ {s})
        /\ Unseen(s) \in SUBSET (Symbols \ {s})
    BY DEF NotAhead, Behind, Unseen
  <2>7. /\ Cardinality(NotAhead(s)) \in Nat /\ Cardinality(NotAhead(s)) <= Cardinality(Symbols) - 1
        /\ Cardinality(Behind(s)) \in Nat /\ Cardinality(Behind(s)) <= Cardinality(Symbols) - 1
        /\ Cardinality(Unseen(s)) \in Nat
    BY <2>6, PartOfOthers
  <2>8. Causes(s)' = Cardinality(NotAhead(s)) + Cardinality(Behind(s))
    <3>1. Causes(s)' = Cardinality(NotAhead(s)) + Cardinality(Behind(s)) + Cardinality({})
      BY <2>4, <2>5, Zenon DEF Causes
    <3> QED  BY <3>1, <2>7, FS_EmptySet
  <2>9. Causes(s) = Cardinality(NotAhead(s)) + Cardinality(Behind(s)) + Cardinality(Unseen(s))
    BY DEF Causes
  <2>10. Due(s)' + Causes(s)' <= 2 * Cardinality(Symbols)
    <3>1. CASE bar[s] > lastBar[s]
      <4>1. Due(s) <= 1
        BY <3>1 DEF JudgedInv, JudgedBound
      <4> QED  BY <4>1, <2>2, <2>7, <2>8, SymbolsFinite
    <3>2. CASE ~(bar[s] > lastBar[s])
      <4>1. Due(s) + Causes(s) <= 2 * Cardinality(Symbols)
        BY <3>2 DEF JudgedInv, JudgedBound
      <4>2. pc' = "cycle" => Cardinality(Unseen(s)) >= 1
        <5>1. NewCandles # {} => Unseen(s) # {}
          BY <3>2 DEF NewCandles, Unseen
        <5> QED  BY <5>1, <1>1, <2>3
      <4> QED  BY <4>1, <4>2, <1>1, <2>2, <2>7, <2>8, <2>9, SymbolsFinite
    <3> QED  BY <3>1, <3>2
  <2>11. ~(bar'[s] > lastBar'[s])
    BY <1>2
  <2> QED  BY <2>10, <2>11 DEF JudgedBound
<1> QED  BY <1>3, <1>4 DEF JudgedInv

LEMMA EvaluateRegimeKeepsBound ==
    ASSUME ClockType, ClockType', JudgedInv, EvaluateRegime
    PROVE  JudgedInv'
<1>1. /\ pc = "regime" /\ pc' \in Evaluating /\ UNCHANGED <<bar, lastBar, turn>>
      /\ judged' = [judged EXCEPT ![Sym] = @ + 1]
  BY Zenon DEF EvaluateRegime, NextSymbol, Evaluating
<1>2. Sym \in Symbols /\ turn \in DOMAIN Order /\ turn \in Nat
  BY TurnHasSymbol DEF ClockType
<1>3. \A i \in DOMAIN Order : i \in Nat /\ (Order[i] = Order[turn] => i = turn)
  BY <1>2, OrderAssumption, LenProperties
<1>4. Coming(Sym)
  BY <1>1, <1>2 DEF Coming, Sym
<1>5. ASSUME NEW s, s = Sym PROVE ~Coming(s)'
  BY <1>1, <1>3, <1>5 DEF Coming, Evaluating, Sym
<1>6. ASSUME NEW s \in Symbols, s # Sym PROVE Coming(s)' => Coming(s)
  BY <1>1, <1>2, <1>3, <1>6 DEF Coming, Evaluating, Sym
<1>7. judged \in [Symbols -> Nat]
  BY DEF ClockType
<1>8. ASSUME NEW s \in Symbols PROVE Due(s)' <= Due(s)
  <2>1. CASE s = Sym
    <3>1. Due(s) = judged[s] + 1
      BY <2>1, <1>4 DEF Due
    <3>2. ~Coming(s)'
      BY <2>1, <1>5
    <3>3. Due(s)' = judged[s] + 1
      BY <2>1, <3>2, <1>1, <1>7 DEF Due
    <3> QED  BY <3>1, <3>3, <1>7
  <2>2. CASE s # Sym
    BY <2>2, <1>6, <1>1, <1>7 DEF Due
  <2> QED  BY <2>1, <2>2
<1> QED  BY <1>1, <1>8, JudgedInvKept

LEMMA JudgedInvNext == ClockType /\ JudgedInv /\ [Next]_vars => JudgedInv'
<1> SUFFICES ASSUME ClockType, JudgedInv, [Next]_vars PROVE JudgedInv'
  OBVIOUS
<1>0. ClockType'
  BY ClockTypeNext
<1>1. ASSUME UNCHANGED <<bar, lastBar, judged>>, \A s \in Symbols : Coming(s)' => Coming(s)
      PROVE  JudgedInv'
  <2>1. \A s \in Symbols : Due(s)' <= Due(s)
    BY <1>1 DEF Due, ClockType
  <2> QED  BY <1>0, <1>1, <2>1, JudgedInvKept
<1>2. ASSUME UNCHANGED <<bar, lastBar, judged, turn>>,
             pc' = pc \/ (pc \in Evaluating /\ pc' \in Evaluating)
      PROVE  JudgedInv'
  BY <1>1, <1>2 DEF Coming, Evaluating
<1>3. ASSUME UNCHANGED <<bar, lastBar, judged>>,
             pc' \notin Evaluating \cup {"regime", "cycle"}
      PROVE  JudgedInv'
  BY <1>1, <1>3 DEF Coming
<1>4. CASE \E s \in Symbols : CloseBar(s)
  BY <1>0, <1>4, CloseBarKeepsBound
<1>5. CASE CheckCandle
  BY <1>0, <1>5, CheckCandleKeepsBound
<1>6. CASE EvaluateRegime
  BY <1>0, <1>6, EvaluateRegimeKeepsBound
<1>7. CASE BeginCycle
  BY <1>7, <1>1 DEF BeginCycle, Coming
<1>8. CASE FinishSymbol
  <2>1. /\ UNCHANGED <<bar, lastBar, judged>> /\ pc = "next"
        /\ \/ pc' = "consume"
           \/ pc' = "regime" /\ turn' = turn + 1
    BY <1>8 DEF FinishSymbol
  <2>2. turn \in Nat /\ \A i \in DOMAIN Order : i \in Nat
    BY OrderAssumption, LenProperties DEF ClockType
  <2>3. \A s \in Symbols : Coming(s)' => Coming(s)
    BY <2>1, <2>2 DEF Coming, Evaluating
  <2> QED  BY <2>1, <2>3, <1>1
<1>9. CASE (\E t \in Ids : Fill(t) \/ Finish(t)) \/ PublishSnapshot
  BY <1>9, <1>2 DEF Fill, Finish, PublishSnapshot
<1>10. CASE ConsumeFeedback \/ UpdateAccountState \/ SkipCycle
  BY <1>10, <1>3 DEF ConsumeFeedback, UpdateAccountState, SkipCycle, Evaluating
<1>11. CASE EvaluateTechnical \/ EvaluateAdversarial \/ Allocate \/ RankSignal \/ ReserveAndRoute
  <2>1. UNCHANGED <<bar, lastBar, judged, turn>>
    BY <1>11, Zenon DEF EvaluateTechnical, EvaluateAdversarial, Allocate, RankSignal,
                        ReserveAndRoute, brokerVars
  <2>2. pc \in Evaluating /\ pc' \in Evaluating
    <3>1. CASE EvaluateTechnical
      BY <3>1, Zenon DEF EvaluateTechnical, NextSymbol, Evaluating
    <3>2. CASE EvaluateAdversarial
      BY <3>2, Zenon DEF EvaluateAdversarial, RejectProposal, NextSymbol, Evaluating
    <3>3. CASE Allocate
      BY <3>3, Zenon DEF Allocate, RejectProposal, NextSymbol, Evaluating
    <3>4. CASE RankSignal
      <4>1. pc = "rank" /\ (pc' = "next" \/ pc' = "reserve")
        BY <3>4 DEF RankSignal, NextSymbol
      <4> QED  BY <4>1 DEF Evaluating
    <3>5. CASE ReserveAndRoute
      <4>1. pc = "reserve" /\ pc' \in {"next", "ended"}
        BY <3>5, Zenon DEF ReserveAndRoute, Route, RouterFails, RejectProposal, NextSymbol
      <4> QED  BY <4>1 DEF Evaluating
    <3> QED  BY <1>11, <3>1, <3>2, <3>3, <3>4, <3>5
  <2> QED  BY <2>1, <2>2, <1>2
<1>12. CASE UNCHANGED vars
  BY <1>12, <1>2 DEF vars
<1> QED
  BY <1>4, <1>5, <1>6, <1>7, <1>8, <1>9, <1>10, <1>11, <1>12 DEF Next, Market, Engine

(* However the candles of the symbols come in, a bar is judged at most     *)
(* twice for each symbol of the loop.                                      *)
THEOREM EvaluationsBounded == Spec => []EvaluationsPerBarBounded
<1>1. Init => ClockType /\ JudgedInv
  <2> SUFFICES ASSUME Init PROVE JudgedInv
    BY ClockTypeInit
  <2>1. FeedsTogether
    BY DEF Init, FeedsTogether
  <2>2. \A s \in Symbols : bar[s] > lastBar[s] /\ Due(s) <= 1
    BY DEF Init, Due, Coming, Evaluating
  <2> QED  BY <2>1, <2>2 DEF JudgedInv, JudgedBound
<1>2. ClockType /\ JudgedInv /\ [Next]_vars => (ClockType /\ JudgedInv)'
  BY ClockTypeNext, JudgedInvNext
<1>3. ClockType /\ JudgedInv => EvaluationsPerBarBounded
  <2> SUFFICES ASSUME ClockType, JudgedInv, NEW s \in Symbols
               PROVE  judged[s] <= 2 * Cardinality(Symbols)
    BY DEF EvaluationsPerBarBounded
  <2>1. Due(s) \in Nat /\ judged[s] \in Nat /\ Due(s) >= judged[s]
    BY DueType
  <2>2. Causes(s) \in Nat /\ Cardinality(Symbols) \in Nat
    BY CausesBounded, SymbolsFinite
  <2>3. Cardinality(Symbols) >= 1
    <3>1. Cardinality(Symbols) # 0
      BY SymbolsFinite, FS_EmptySet
    <3> QED  BY <3>1, <2>2
  <2> QED  BY <2>1, <2>2, <2>3 DEF JudgedInv, JudgedBound
<1> QED  BY <1>1, <1>2, <1>3, PTL DEF Spec
=============================================================================
