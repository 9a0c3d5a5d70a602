----------------------------- MODULE SignalAgents -----------------------------
(***************************************************************************)
(* What each agent of the decision cycle answers to what it has read: the  *)
(* filters (core/filters), the regime, technical and adversarial agents    *)
(* and the portfolio manager (core/agents), the shadow model and the hard  *)
(* risk engine.                                                            *)
(*                                                                         *)
(* A view is one fetch reduced to the values the agent compares: EMAs and  *)
(* prices in tenths of a pip, RSI and ADX in points, a risk in 1/10000 of  *)
(* the balance, ratios, modifiers and multipliers in hundredths.  Zero     *)
(* stands for an average that is not available yet.                        *)
(***************************************************************************)
EXTENDS Integers

Trending == {"TRENDING_BULL", "TRENDING_BEAR"}
Larger(a, b) == IF a > b THEN a ELSE b
Least(a, b) == IF a < b THEN a ELSE b

-----------------------------------------------------------------------------
(* is_news_blackout, evaluate_calendar_freshness, get_active_session and   *)
(* is_macro_aligned.  Times are in minutes; London and New York have local *)
(* hours of their own.                                                     *)
NewsBlackout(currencies, at, events) ==
    \E e \in events :
        /\ e.impact = "high"
        /\ e.currency \in currencies
        /\ e.at - e.before <= at
        /\ at <= e.at + e.after

CalendarFresh(at, events, coverage) == \E e \in events : e.at >= at + coverage

ActiveSession(now) ==
    CASE now.london \in 7..15   -> "london"
      [] now.newYork \in 8..15  -> "newyork"
      [] OTHER                  -> "none"

(* A differential within half a percent, or none, opposes nothing.         *)
MacroAligned(direction, differential) ==
    /\ direction = "SELL" => differential <= 50
    /\ direction = "BUY"  => differential >= -50

-----------------------------------------------------------------------------
(* RegimeAgent.evaluate on a view [data, fast, slow, before, adx, adxRise, *)
(* atr, atr20, atr90], by the thresholds of the shared policy; relaxed: the *)
(* rising-ADX experiment covers the pair, with bounds that are in fact     *)
(* higher than the policy's.                                               *)
AdxFloor(v, relaxed)      == IF relaxed /\ v.adxRise >= 1 THEN 18 ELSE 15
AdxTransition(v, relaxed) == IF relaxed /\ v.adxRise >= 1 THEN 22 ELSE 20

EmaTrend(v) ==
    CASE v.fast - v.slow \in -19..19           -> "FLAT"
      [] v.fast > v.slow /\ v.fast > v.before  -> "BULLISH"
      [] v.fast < v.slow /\ v.fast < v.before  -> "BEARISH"
      [] OTHER                                 -> "TRANSITION"

TrendState(v, relaxed) ==
    CASE v.adx < AdxFloor(v, relaxed) -> "FLAT"
      [] v.adx < AdxTransition(v, relaxed) /\ EmaTrend(v) # "FLAT" -> "TRANSITION"
      [] OTHER -> EmaTrend(v)

VolatilityState(v) ==
    CASE v.atr20 <= 0                  -> "NORMAL"
      [] v.atr * 100 > v.atr20 * 125   -> "HIGH"
      [] v.atr * 100 < v.atr20 * 75    -> "LOW"
      [] OTHER                         -> "NORMAL"

RegimeOf(v, relaxed) ==
    LET trend == TrendState(v, relaxed)
        volatility == VolatilityState(v)
        ratio == IF v.atr90 <= 0 THEN 100 ELSE (v.atr * 100) \div v.atr90
    IN  IF v.data # "ok"
        THEN [regime |-> "NO_TRADE", volatility |-> "UNKNOWN", ratio |-> 100]
        ELSE [regime |-> CASE trend = "BULLISH"    -> "TRENDING_BULL"
                           [] trend = "BEARISH"    -> "TRENDING_BEAR"
                           [] trend = "TRANSITION" -> "TRANSITION"
                           [] trend = "FLAT" /\ volatility = "LOW"  -> "RANGING_LOW_VOL"
                           [] trend = "FLAT" /\ volatility = "HIGH" -> "RANGING_HIGH_VOL"
                           [] OTHER -> "NO_TRADE",
              volatility |-> volatility,
              ratio |-> ratio]

-----------------------------------------------------------------------------
(* Mutant: H4 alone decides.                                               *)
Direction_H4Only(h1, h4) ==
    CASE h4.fast > h4.slow -> "BUY"
      [] h4.fast < h4.slow -> "SELL"
      [] OTHER -> "NONE"

(* TechnicalAgent.evaluate.  It fetches H1 again for itself; the view of   *)
(* M15 is [data, ema, ema3, close, low, high, atr, rsi, lowest, highest].  *)
Direction(h1, h4) ==
    CASE h1.fast > h1.slow /\ h4.fast > h4.slow -> "BUY"
      [] h1.fast < h1.slow /\ h4.fast < h4.slow -> "SELL"
      [] OTHER -> "NONE"

PulledBack(m, direction, buffer) ==
    IF direction = "BUY" THEN m.low <= m.ema + buffer ELSE m.high >= m.ema - buffer

(* The bands of the shared policy admit every RSI; those of the class       *)
(* itself, 40..65 and 35..60, only serve callers without a policy.         *)
RsiBand == [BUY |-> 0..100, SELL |-> 0..100]
RsiInBand(m, direction) == m.rsi \in RsiBand[direction]

(* _confirm_candle_pattern: a flat average is not rising.                  *)
CandleConfirms(m, direction) ==
    IF direction = "BUY" THEN m.ema > m.ema3 /\ m.close > m.ema
                         ELSE m.ema <= m.ema3 /\ m.close < m.ema

AtrStop(m, volatility) ==
    (m.atr * (CASE volatility = "HIGH" -> 150 [] volatility = "LOW" -> 100 [] OTHER -> 120))
        \div 100

(* _detect_structural_sl: the swing level, if near enough to the ATR stop. *)
StopDistance(m, direction, volatility) ==
    LET atrStop == AtrStop(m, volatility)
        swing   == IF direction = "BUY" THEN m.close - m.lowest ELSE m.highest - m.close
    IN  IF /\ swing > 0 /\ atrStop > 0
           /\ 80 * atrStop <= 100 * swing
           /\ 100 * swing <= 150 * atrStop
        THEN swing ELSE atrStop

(* Is there a signal?  In exact arithmetic the target computed from the    *)
(* stop meets the ratio of 2.2 by construction; in the code's floating     *)
(* point it may fall an ulp short, so a signal may also be refused: that   *)
(* is the caller's choice.                                                 *)
TechnicalSignals(regime, h1, h4, m, buffer) ==
    LET direction == Direction(h1, h4) IN
    /\ regime.regime \in Trending
    /\ h1.data = "ok" /\ h4.data = "ok" /\ m.data = "ok"
    /\ direction # "NONE"
    /\ PulledBack(m, direction, buffer)
    /\ RsiInBand(m, direction)
    /\ CandleConfirms(m, direction)
    /\ StopDistance(m, direction, regime.volatility) > 0

-----------------------------------------------------------------------------
(* AdversarialAgent.evaluate: the modifier it approves with, zero when it  *)
(* rejects.  The view is [spread, data, atr, atr20, rsi, upper, lower,     *)
(* differential, sentiment], a spread of -1 when it cannot be read.        *)
SessionMultiplier == [london |-> 100, newyork |-> 110, none |-> 90]

SpreadAcceptable(v, limit, session) ==
    v.spread >= 0 /\ v.spread * 100 <= limit * SessionMultiplier[session]

VolatilityExtreme(v) == v.atr20 > 0 /\ v.atr * 10 > v.atr20 * 18

RsiExhausted(v, direction) ==
    IF direction = "BUY" THEN v.rsi > v.upper ELSE v.rsi < v.lower

(* SentimentAgent.score is zero unless it is switched on and has news.     *)
SentimentOpposed(v, direction) ==
    IF direction = "BUY" THEN v.sentiment < -30 ELSE v.sentiment > 30

SoftModifier(v, direction) ==
    ((IF MacroAligned(direction, v.differential) THEN 100 ELSE 80)
        * (IF SentimentOpposed(v, direction) THEN 90 ELSE 100)) \div 100
RiskModifier(v, direction, limit, session, usdCount) ==
    IF ~SpreadAcceptable(v, limit, session) \/ v.data # "ok" THEN 0
    ELSE IF VolatilityExtreme(v) THEN 60
    ELSE IF RsiExhausted(v, direction) \/ usdCount >= 2 THEN 0
    ELSE SoftModifier(v, direction)

-----------------------------------------------------------------------------
(* PortfolioManager.evaluate in the percentage mode, and the throttle of   *)
(* HardRiskEngine.validate.                                                *)
BaseRisk == 320
RiskFloor == 150
CombinedLimit == 500
CorrelationThreshold == 75

(* Mutant: calm markets raise the risk without a cap.                      *)
DynamicRisk_Uncapped(ratio) == Larger(RiskFloor, (BaseRisk * 100) \div Larger(ratio, 10))

DynamicRisk(ratio) ==
    Larger(RiskFloor, Least((BaseRisk * 100) \div Larger(ratio, 10), BaseRisk))

Throttle(streak) == CASE streak = 1 -> 75 [] streak = 2 -> 50 [] OTHER -> 100

(* SignalRanker and ShadowMetaLabelerRuntime.evaluate: what the shadow     *)
(* says of a probability in hundredths, or of a failure on the way to it.  *)
ShadowOutcome(enabled, loaded, data, probability, threshold) ==
    CASE ~enabled                -> "DISABLED"
      [] ~loaded \/ data # "ok"  -> "BYPASS"
      [] probability < threshold -> "REJECT"
      [] OTHER                   -> "PASS"
=============================================================================
