------------------------------ MODULE MCDecision ------------------------------
(* DecisionCycle for two correlated pairs.                                   *)
EXTENDS DecisionProperties

MCOrder == <<"EURUSD", "GBPUSD">>
MCCorrelation == [s \in Symbols |-> [u \in Symbols |-> IF s = u THEN 100 ELSE 82]]
MCBuffer == [s \in Symbols |-> 200]
MCSpreadLimit == [EURUSD |-> 20, GBPUSD |-> 23]

MCCurrencies == [EURUSD |-> {"EUR", "USD"}, GBPUSD |-> {"GBP", "USD"}]

\* The last London hour with an event for the pound ahead, the event, and
\* the hour after the close of both sessions.
MCClocks == {[minute |-> 900, london |-> 15, newYork |-> 10],
             [minute |-> 950, london |-> 15, newYork |-> 10],
             [minute |-> 1260, london |-> 21, newYork |-> 16]}
MCCalendar == {[impact |-> "high", currency |-> "GBP", at |-> 960, before |-> 30, after |-> 30],
               [impact |-> "low", currency |-> "USD", at |-> 20000, before |-> 30, after |-> 30]}

View(fast, slow, adx, atr) ==
    [data |-> "ok", fast |-> fast, slow |-> slow, before |-> IF fast > slow THEN fast - 5
     ELSE fast + 5, adx |-> adx, adxRise |-> 0, atr |-> atr, atr20 |-> 10, atr90 |-> 10]
MCH1Views == {View(200, 100, 30, 8), View(100, 200, 30, 15), View(100, 100, 12, 10)}
MCH4Views == {View(200, 100, 30, 10), View(100, 200, 30, 10)}

\* A pull-back that a BUY, and one that a SELL, may enter.
MCM15Views ==
    {[data |-> "ok", ema |-> 100, ema3 |-> 95, close |-> 110, low |-> 105, high |-> 112,
      atr |-> 100, rsi |-> 50, lowest |-> 0, highest |-> 150],
     [data |-> "ok", ema |-> 100, ema3 |-> 105, close |-> 90, low |-> 85, high |-> 95,
      atr |-> 100, rsi |-> 50, lowest |-> 0, highest |-> 150]}

Calm == [spread |-> 10, data |-> "ok", atr |-> 10, atr20 |-> 10, rsi |-> 50, upper |-> 70,
         lower |-> 30, differential |-> 0, sentiment |-> -50]
MCRiskViews == {Calm, [Calm EXCEPT !.spread = 19]}

Config(ranker, shadow, canary, kill) ==
    [ranker |-> ranker, model |-> TRUE, policy |-> [enabled |-> {}],
     env |-> [shadow |-> shadow, canary |-> canary, canaryMode |-> "strict",
              killSwitch |-> kill]]
MCConfigs == {Config(FALSE, "off", "off", "off"), Config(TRUE, "on", "on", "off")}
=============================================================================
