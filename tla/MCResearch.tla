------------------------------ MODULE MCResearch ------------------------------
(* Ten bars with a weekend after the sixth.                                  *)
EXTENDS Research

MCStamps == <<1, 2, 3, 4, 5, 6, 9, 10, 11, 12>>

MCSignals == {<<2, "SELL">>, <<3, "BUY">>, <<4, "SELL">>, <<5, "BUY">>,
              <<6, "SELL">>, <<7, "BUY">>, <<9, "BUY">>}

Quiet == [high |-> 11, low |-> 9, close |-> 10]
Up    == [high |-> 15, low |-> 9, close |-> 11]
Down  == [high |-> 11, low |-> 5, close |-> 9]
Both  == [high |-> 15, low |-> 5, close |-> 10]
\* At most two bars that move, one after the other.
MCMarkets ==
    {m \in [1..10 -> {Quiet, Up, Down, Both}] :
        \E i \in 4..7 : \A j \in 1..10 : m[j] # Quiet => j \in {i, i + 1}}
=============================================================================
