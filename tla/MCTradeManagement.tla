--------------------------- MODULE MCTradeManagement ---------------------------
(* TradeManagement for TLC: a TRAIL signal of the core mode and a HYBRID    *)
(* signal of the experiment, with their triggers in hundredths of R.        *)
EXTENDS TradeManagement

CONSTANTS t1, t2

TwoModes ==
    [t \in Trades |-> IF t = t1 THEN [be |-> 80, partial |-> 120, trailing |-> TRUE]
                                ELSE [be |-> 50, partial |-> 100, trailing |-> TRUE]]
=============================================================================
