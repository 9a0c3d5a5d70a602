-------------------------- MODULE DecisionProperties --------------------------
(***************************************************************************)
(* What a pass of the engine may rely on although data, candles and        *)
(* positions move while it evaluates.                                      *)
(***************************************************************************)
EXTENDS DecisionCycle

(* Type correctness.                                                       *)
TypeOK ==
    /\ bar \in [Symbols -> 0..MaxBar] /\ lastBar \in [Symbols -> -1..MaxBar]
    /\ Len(book) <= MaxRouted
    /\ \A t \in Ids :
          /\ book[t].symbol \in Symbols
          /\ book[t].broker \in {"sent", "open", "gone"}
          /\ book[t].row \in {"none", "PENDING", "EXECUTED_OPEN", "CLOSED"}
    /\ snapshot \subseteq Ids
    /\ turn \in 1..Len(Order)
    /\ proposal \in {"none", "REJECTED", "PENDING"}
    /\ moved \in BOOLEAN

Stacked(t, u) ==
    \/ book[t].symbol = book[u].symbol
    \/ Correlation[book[t].symbol][book[u].symbol] >= CorrelationThreshold

(* Two signals of one symbol, or of correlated symbols, are only ever both *)
(* alive when the later was routed by a pass whose account did not show    *)
(* the earlier one: portfolio_manager.py looks at open symbols only.       *)
StackedOnlyWhileUnseen ==
    \A t, u \in Ids :
        /\ t < u /\ Stacked(t, u)
        /\ book[t].broker # "gone" /\ book[u].broker # "gone"
        => t \notin book[u].known

(* portfolio_manager.py: reject highly correlated concurrent positions.    *)
NoCorrelatedPositions ==
    \A t, u \in Live :
        t # u => Correlation[book[t].symbol][book[u].symbol] < CorrelationThreshold

(* A candle of one symbol makes the engine judge all of them: with N       *)
(* symbols whose feeds lag one bar behind each other, the same bar is      *)
(* judged once for its own candle, once by a cycle already under way and   *)
(* twice for each other symbol, and never more often (_is_new_m15_candle). *)
EvaluationsPerBarBounded ==
    \A s \in Symbols : judged[s] <= 2 * Cardinality(Symbols)

(* The direction of a signal is the one of the regime it was admitted by,  *)
(* although the technical agent fetches H1 again, unless an H1 bar closed  *)
(* between the two fetches.                                                *)
DirectionFollowsRegime ==
    signal.direction # Blank /\ ~moved =>
        signal.regime.regime =
            IF signal.direction = "BUY" THEN "TRENDING_BULL" ELSE "TRENDING_BEAR"

(* No modifier, throttle or volatility raises a risk above the base risk,  *)
(* and all of them together keep a signal above a tenth of it.             *)
RoutedRiskWithinBase ==
    \A t \in Ids : book[t].risk <= BaseRisk /\ 10 * book[t].risk >= BaseRisk

Gates == {"SESSION", "REGIME", "TECHNICAL", "ADVERSARIAL", "PORTFOLIO", "HARD_RISK"}
Logged(stage, outcomes) ==
    \E i \in DOMAIN funnel : funnel[i][1] = stage /\ funnel[i][2] \in outcomes

(* When a symbol is done, its funnel and its ledger row tell one story: a  *)
(* signal past the technical agent has exactly one row, PENDING if and     *)
(* only if every gate passed it and the router took it, whatever shadow    *)
(* and canary said.  The one exit without a row is the router's failure,   *)
(* which may leave a signal with the EA: it is logged and the process ends *)
(* there, so that no pass of it works beside a signal without a row.       *)
FunnelAgreesWithLedger ==
    /\ pc \in {"next", "ended"} =>
        /\ proposal # "none" <=> Logged("TECHNICAL", {"PASS"}) /\ ~Logged("ROUTER", {"REJECT"})
        /\ proposal = "PENDING" <=>
              /\ \A g \in Gates : Logged(g, {"PASS"})
              /\ Logged("ML_RANKER", {"PASS", "BYPASS"})
              /\ Logged("ROUTER", {"ROUTED"})
        /\ proposal = "REJECTED" <=>
              /\ \E i \in DOMAIN funnel : i = Len(funnel) /\ funnel[i][2] = "REJECT"
              /\ Logged("TECHNICAL", {"PASS"}) /\ ~Logged("ROUTER", {"REJECT"})
        /\ Logged("ROUTER", {"REJECT"}) => pc = "ended"
    /\ \A t \in Ids : book[t].row = "none" => pc = "ended"
=============================================================================
