---------------------------- MODULE MCTradingEngine ----------------------------
(* TradingEngine for TLC: a few trades, each on a symbol of its own. *)
EXTENDS EngineProperties, TLC

CONSTANTS t1, t2, t3

OneSymbolEach == [t \in Trades |-> t]

TradePermutations == Permutations(Trades)
=============================================================================
