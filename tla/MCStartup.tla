------------------------------ MODULE MCStartup ------------------------------
(* Startup in every environment a governance mistake or an experiment needs, *)
(* against brokers whose lots, units and spreads differ.                     *)
EXTENDS StartupProperties

NoRequest == [x \in Experiments |-> "unset"]
PlainEnvironment ==
    [mode |-> Blank, allow |-> "unset", fixedRisk |-> Blank, maxSpread |-> Blank,
     mlThreshold |-> Blank, divisor |-> Blank, request |-> NoRequest,
     shadow |-> "unset", canary |-> "unset", canaryMode |-> Blank, killSwitch |-> "unset"]

GovernedEnvironments ==
    {[PlainEnvironment EXCEPT !.mode = m, !.allow = a, !.fixedRisk = r, !.maxSpread = s,
                              !.divisor = d] :
        m \in Modes \cup {Blank, "unknown_mode"}, a \in {"on", "unset"},
        r \in {Blank, 40}, s \in {Blank, Junk, 25}, d \in {Blank, 1}}

ExperimentEnvironments ==
    {[PlainEnvironment EXCEPT !.mode = m, !.allow = "on", !.request = q, !.shadow = h,
                              !.canary = c, !.canaryMode = k] :
        m \in {Blank, "legacy_micro_capital"}, q \in [Experiments -> {"on", "unset"}],
        h \in {"on", "unset"}, c \in {"on", "unset"}, k \in {Blank, "strict"}}

MCEnvironments == GovernedEnvironments \cup ExperimentEnvironments

Quote(pipValue, lot, margin) ==
    [quote |-> "fresh", tradable |-> TRUE, minLot |-> lot, lotStep |-> lot, maxLot |-> 50000,
     pipValue |-> pipValue, spread |-> 15, margin |-> margin]
Broker(currency, balance, s) ==
    [account |-> [currency |-> currency, leverage |-> 500, tradeAllowed |-> TRUE,
                  balance |-> balance],
     symbols |-> [x \in {"EURUSD"} |-> s]]

MCBrokerFacts ==
    {Broker("USD", 1000, Quote(10, 10, 100)),       \* lots of a thousand units
     Broker("USD", 1000, Quote(2000, 10, 100)),     \* a pip costs too much
     Broker("USD", 100000, Quote(1000, 10, 20000)), \* a standard account
     Broker("USC", 100000, Quote(1000, 10, 20000)), \* a cent account
     Broker("USC", 100000, Quote(10000, 10, 20000)), \* one with larger contracts
     Broker("USD", 1000, Quote(10, 1, 100)),        \* lots finer than hundredths
     Broker("USC", 90000, [Quote(1000, 10, 20000) EXCEPT !.quote = "stale"])}
=============================================================================
