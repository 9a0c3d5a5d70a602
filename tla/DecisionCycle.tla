---------------------------- MODULE DecisionCycle ----------------------------
(***************************************************************************)
(* One pass of Engine.run seen from the market: new M15 candles arrive     *)
(* symbol by symbol, the decision cycle asks every agent about every       *)
(* symbol in turn, each agent fetches its own data at its own moment, and  *)
(* what it allows is routed and becomes a position later (main.py:         *)
(* _is_new_m15_candle, _decision_cycle, _evaluate_symbol).  The mode is    *)
(* core_srs.                                                               *)
(*                                                                         *)
(* Router, EA, artifacts and recovery are TradingEngine's subject: here a  *)
(* routed signal is filled by Fill or ends by Finish, and its feedback      *)
(* is consumed whole by the next pass.  A fetch may show anything the      *)
(* market has become by then; only H1, which two agents fetch, is kept     *)
(* from one fetch to the next, and changes when an H1 bar closes between.  *)
(* The model ends where the process does, when the router raises: what the *)
(* next process finds is TradingEngine's subject too.                      *)
(***************************************************************************)
EXTENDS RuntimePolicy, SignalAgents, Sequences, FiniteSets, FiniteSetsExt

CONSTANTS
    Order,         \* SYMBOLS, in the order of the loop
    H1Views,       \* what an H1 fetch may show
    H4Views,       \* what an H4 fetch may show
    M15Views,      \* what an M15 fetch may show the technical agent
    RiskViews,     \* what the adversarial agent may read
    Correlation,   \* correlation of each pair in hundredths
    SpreadLimit,   \* symbol_spread_limits
    Currencies,    \* _SYMBOL_CURRENCIES
    Clocks,        \* readings of the clock: minute, hours in London and New York
    Relaxed,       \* symbols of the rising-ADX experiment, when it is enabled
    Buffer,        \* pull-back buffer of each symbol
    Calendar,      \* _calendar_events
    Coverage,      \* minutes the calendar must reach ahead
    Configs,       \* [ranker, model: are they loaded; policy, env: of the canary]
    Streaks,       \* loss streaks the account may show
    MaxPositions,  \* MAX_SIMULTANEOUS_TRADES
    MaxBar,        \* bound: M15 bars of a symbol
    MaxRouted      \* bound: signals routed

Symbols == {Order[i] : i \in DOMAIN Order}

ASSUME DecisionAssumption ==
    /\ MaxPositions \in Nat /\ MaxBar \in Nat /\ MaxRouted \in Nat
    /\ \A s, u \in Symbols : Correlation[s][u] = Correlation[u][s]

(* SYMBOLS is a list without repetition.                                   *)
ASSUME OrderAssumption ==
    /\ Order \in Seq(Symbols) /\ Order # <<>>
    /\ \A i, j \in DOMAIN Order : Order[i] = Order[j] => i = j

(* The averages of a view, which pd.Series.ewm computes, are numbers.      *)
ASSUME ViewsAssumption ==
    \A v \in H1Views : {v.fast, v.slow, v.atr, v.atr90} \subseteq Int

VARIABLES
    bar,      \* the last closed M15 bar the terminal has of each symbol
    book,     \* the routed signals: [symbol, risk, broker, row, known]
    snapshot, \* the signals open in the EA's last account snapshot
    pc,
    lastBar,  \* _last_m15_candle_by_symbol, -1 for None
    account,  \* account_status: [known, open, count, risk, streak, reconciled]
    at,       \* decision_time, one for the whole cycle
    turn,     \* index of the symbol under evaluation
    signal,   \* the evaluation in progress
    funnel,   \* its funnel events: stage and outcome
    proposal, \* the ledger row it got: "none", "REJECTED" or "PENDING"
    moved,    \* history: an H1 bar closed between the two fetches of H1
    judged    \* history: evaluations of the symbol since its bar last closed

brokerVars == <<book, snapshot>>
evalVars == <<signal, funnel, proposal>>
vars == <<bar, brokerVars, pc, lastBar, account, at, turn, evalVars, moved, judged>>

Sym == Order[turn]
Ids == DOMAIN book
Live == {t \in Ids : book[t].broker = "open"}
Pending == {t \in Ids : book[t].row = "PENDING"}
OpenRows == {t \in Ids : book[t].row = "EXECUTED_OPEN"}
SymbolsOf(S) == {book[t].symbol : t \in S}
RiskOf(S) == MapThenSumSet(LAMBDA t : book[t].risk, S)

NoSignal == [h1 |-> Blank, regime |-> Blank, direction |-> Blank, risk |-> 0]
NoAccount ==
    [known |-> {}, open |-> {}, count |-> 0, risk |-> 0, streak |-> 0, reconciled |-> FALSE]

Init ==
    /\ bar = [s \in Symbols |-> 0]
    /\ book = <<>> /\ snapshot = {}
    /\ pc = "consume"
    /\ lastBar = [s \in Symbols |-> -1]
    /\ account = NoAccount
    /\ at = Blank /\ turn = 1
    /\ signal = NoSignal /\ funnel = <<>> /\ proposal = "none"
    /\ moved = FALSE
    /\ judged = [s \in Symbols |-> 0]

-----------------------------------------------------------------------------
(* The market, the EA and the broker.                                      *)

(* The feeds of the symbols are at most one bar apart.  A bar closes at any *)
(* time; it makes a difference before the candles are looked at and before *)
(* a symbol is evaluated.                                                  *)
CloseBar(s) ==
    /\ pc \in {"candle", "cycle", "next"}
    /\ bar[s] < MaxBar
    /\ \A u \in Symbols : bar[s] <= bar[u]
    /\ bar' = [bar EXCEPT ![s] = @ + 1]
    /\ judged' = [judged EXCEPT ![s] = 0]
    /\ UNCHANGED <<brokerVars, pc, lastBar, account, at, turn, evalVars, moved>>

(* What happens to positions matters to the engine when it consumes        *)
(* feedback and refreshes: it happens there.                               *)
AtBroker == pc \in {"consume", "refresh"}

Fill(t) ==
    /\ AtBroker
    /\ book[t].broker = "sent"
    /\ book' = [book EXCEPT ![t].broker = "open"]
    /\ UNCHANGED <<bar, snapshot, pc, lastBar, account, at, turn, evalVars, moved,
                   judged>>

(* The EA refuses the signal, or the position is closed.                   *)
Finish(t) ==
    /\ AtBroker
    /\ book[t].broker \in {"sent", "open"}
    /\ book' = [book EXCEPT ![t].broker = "gone"]
    /\ UNCHANGED <<bar, snapshot, pc, lastBar, account, at, turn, evalVars, moved,
                   judged>>

PublishSnapshot ==
    /\ AtBroker
    /\ snapshot # Live
    /\ snapshot' = Live
    /\ UNCHANGED <<bar, book, pc, lastBar, account, at, turn, evalVars, moved,
                   judged>>

-----------------------------------------------------------------------------
(* The pass up to the candle.                                              *)

ConsumeFeedback ==
    /\ pc = "consume"
    /\ book' = [t \in Ids |-> [book[t] EXCEPT !.row =
                    IF book[t].broker = "open" THEN "EXECUTED_OPEN"
                    ELSE IF book[t].broker = "gone" THEN "CLOSED" ELSE @]]
    /\ pc' = "refresh"
    /\ UNCHANGED <<bar, snapshot, lastBar, account, at, turn, evalVars, moved,
                   judged>>

(* A usable snapshot, or the positions of the terminal.                    *)
UpdateAccountState ==
    /\ pc = "refresh"
    /\ \E seen \in {snapshot, Live}, streak \in Streaks :
          account' = [known |-> seen, open |-> SymbolsOf(seen), count |-> Cardinality(seen),
                      risk |-> RiskOf(seen), streak |-> streak,
                      reconciled |-> /\ SymbolsOf(seen) = SymbolsOf(OpenRows)
                                     /\ Cardinality(seen) = Cardinality(OpenRows)]
    /\ pc' = "candle"
    /\ UNCHANGED <<bar, brokerVars, lastBar, at, turn, evalVars, moved, judged>>

(* Mutant: the candle seen last counts as new.                             *)
NewCandles_NotNewer == {s \in Symbols : bar[s] >= lastBar[s]}

NewCandles == {s \in Symbols : bar[s] > lastBar[s]}

(* _is_new_m15_candle remembers the candle whether or not the cycle runs.  *)
CheckCandle ==
    /\ pc = "candle"
    /\ lastBar' = [s \in Symbols |-> IF s \in NewCandles THEN bar[s] ELSE lastBar[s]]
    /\ pc' = IF NewCandles # {} /\ account.reconciled THEN "cycle" ELSE "consume"
    /\ UNCHANGED <<bar, brokerVars, account, at, turn, evalVars, moved, judged>>

(* A stale calendar or a closed session ends the cycle.                    *)
Tradeable(now) ==
    CalendarFresh(now.minute, Calendar, Coverage) /\ ActiveSession(now) # "none"

SkipCycle ==
    /\ pc = "cycle"
    /\ \E now \in Clocks : ~Tradeable(now)
    /\ pc' = "consume"
    /\ UNCHANGED <<bar, brokerVars, lastBar, account, at, turn, evalVars, moved,
                   judged>>

BeginCycle ==
    /\ pc = "cycle"
    /\ \E now \in Clocks : Tradeable(now) /\ at' = now
    /\ turn' = 1 /\ pc' = "regime"
    /\ UNCHANGED <<bar, brokerVars, lastBar, account, evalVars, moved, judged>>

-----------------------------------------------------------------------------
(* _evaluate_symbol, one action from one fetch to the next.                *)

Log(events) == funnel' = funnel \o events
NextSymbol == pc' = "next"

RejectProposal(stage) ==
    /\ Log(<< <<stage, "REJECT">> >>)
    /\ proposal' = "REJECTED"
    /\ NextSymbol

InBlackout == NewsBlackout(Currencies[Sym], at.minute, Calendar)

EvaluateRegime ==
    /\ pc = "regime"
    /\ judged' = [judged EXCEPT ![Sym] = @ + 1]
    /\ \E h1 \in H1Views : LET r == RegimeOf(h1, Sym \in Relaxed) IN
       \/ /\ InBlackout
          /\ funnel' = << <<"SESSION", "PASS">>, <<"NEWS", "REJECT">> >>
          /\ NextSymbol
          /\ UNCHANGED signal
       \/ /\ ~InBlackout /\ r.regime \notin Trending
          /\ funnel' = << <<"SESSION", "PASS">>, <<"REGIME", "REJECT">>,
                          <<"TECHNICAL", "SKIP">> >>
          /\ NextSymbol
          /\ UNCHANGED signal
       \/ /\ ~InBlackout /\ r.regime \in Trending
          /\ funnel' = << <<"SESSION", "PASS">>, <<"REGIME", "PASS">> >>
          /\ signal' = [signal EXCEPT !.h1 = h1, !.regime = r]
          /\ pc' = "technical"
    /\ UNCHANGED <<bar, brokerVars, lastBar, account, at, turn, proposal, moved>>

EvaluateTechnical ==
    /\ pc = "technical"
    /\ \E h1 \in H1Views, h4 \in H4Views, m \in M15Views :
       \/ /\ Log(<< <<"TECHNICAL", "REJECT">> >>)
          /\ NextSymbol
          /\ UNCHANGED <<signal, moved>>
       \/ /\ TechnicalSignals(signal.regime, h1, h4, m, Buffer[Sym])
          /\ Log(<< <<"TECHNICAL", "PASS">> >>)
          /\ signal' = [signal EXCEPT !.direction = Direction(h1, h4)]
          /\ moved' = (h1 # signal.h1)
          /\ pc' = "adversarial"
    /\ UNCHANGED <<bar, brokerVars, lastBar, account, at, turn, proposal, judged>>

(* The session is read again, of the moment the agent is asked.            *)
(* open_usd_exposure_count is the number of positions: every pair of       *)
(* SYMBOLS is a dollar pair.                                               *)
EvaluateAdversarial ==
    /\ pc = "adversarial"
    /\ \E v \in RiskViews, now \in {c \in Clocks : c.minute >= at.minute} :
          LET modifier == RiskModifier(v, signal.direction, SpreadLimit[Sym],
                                       ActiveSession(now), account.count)
          IN  IF modifier = 0
              THEN RejectProposal("ADVERSARIAL") /\ UNCHANGED signal
              ELSE /\ Log(<< <<"ADVERSARIAL", "PASS">> >>)
                   /\ signal' = [signal EXCEPT !.risk =
                                    (DynamicRisk(signal.regime.ratio) * modifier) \div 100]
                   /\ pc' = "allocate"
                   /\ UNCHANGED proposal
    /\ UNCHANGED <<bar, brokerVars, lastBar, account, at, turn, moved, judged>>

(* PortfolioManager.evaluate: correlation, then the same symbol, then the  *)
(* count and the exposure, all of the account as last refreshed.           *)
CorrelatedWithOpen(s) ==
    \E u \in account.open \ {s} : Correlation[s][u] >= CorrelationThreshold

(* Mutant: any open position of another symbol is skipped.                 *)
PortfolioApproves_SameSymbolOnly(s, r) ==
    /\ s \notin account.open
    /\ account.count < MaxPositions
    /\ account.risk + r <= CombinedLimit

PortfolioApproves(s, r) ==
    /\ ~CorrelatedWithOpen(s)
    /\ s \notin account.open
    /\ account.count < MaxPositions
    /\ account.risk + r <= CombinedLimit

HardRiskApproves(r) ==
    /\ account.reconciled
    /\ account.streak < 3
    /\ account.count < MaxPositions
    /\ account.risk + (r * Throttle(account.streak)) \div 100 <= CombinedLimit

Allocate ==
    /\ pc = "allocate"
    /\ IF ~PortfolioApproves(Sym, signal.risk)
       THEN RejectProposal("PORTFOLIO") /\ UNCHANGED signal
       ELSE IF ~HardRiskApproves(signal.risk)
       THEN /\ Log(<< <<"PORTFOLIO", "PASS">>, <<"HARD_RISK", "REJECT">> >>)
            /\ proposal' = "REJECTED"
            /\ NextSymbol
            /\ UNCHANGED signal
       ELSE /\ Log(<< <<"PORTFOLIO", "PASS">>, <<"HARD_RISK", "PASS">> >>)
            /\ signal' = [signal EXCEPT !.risk = (@ * Throttle(account.streak)) \div 100]
            /\ pc' = "rank"
            /\ UNCHANGED proposal
    /\ UNCHANGED <<bar, brokerVars, lastBar, account, at, turn, moved, judged>>

(* The shadow is asked first, then the canary, then the ranker's own       *)
(* verdict: what the shadow says never changes that verdict.               *)
PrimaryRoute(config, low) == ~(config.ranker /\ low)

CanaryEvents(config, blocks) ==
    IF CanaryEnabled(config.policy, config.env) \/ config.env.killSwitch = "on"
    THEN << <<"ML_CANARY",
              IF blocks THEN "REJECT"
              ELSE IF CanaryEnforced(config.policy, config.env) THEN "PASS"
              ELSE "BYPASS">> >>
    ELSE <<>>

RankSignal ==
    /\ pc = "rank"
    /\ \E config \in Configs, low \in BOOLEAN, data \in {"ok", "missing"},
          probability \in {10, 90} :
          LET primary == PrimaryRoute(config, low)
              outcome == ShadowOutcome(ShadowEnabled(config.policy, config.env),
                                       config.model, data, probability, 50)
              blocks  == CanaryBlocks(config.policy, config.env, outcome, primary)
              canary  == CanaryEvents(config, blocks)
          IN  IF blocks
              THEN Log(canary) /\ proposal' = "REJECTED" /\ NextSymbol
              ELSE IF ~primary
              THEN /\ Log(canary \o << <<"ML_RANKER", "REJECT">> >>)
                   /\ proposal' = "REJECTED"
                   /\ NextSymbol
              ELSE /\ Log(canary \o
                          << <<"ML_RANKER", IF config.ranker THEN "PASS" ELSE "BYPASS">> >>)
                   /\ pc' = "reserve"
                   /\ UNCHANGED proposal
    /\ UNCHANGED <<bar, brokerVars, lastBar, account, at, turn, signal, moved, judged>>

(* reserve_and_route counts what the account shows and what is still       *)
(* pending; it looks at no symbol.                                         *)
HasCapacity ==
    /\ account.count + Cardinality(Pending) < MaxPositions
    /\ account.risk + RiskOf(Pending) + signal.risk <= CombinedLimit

Sent(row) ==
    [symbol |-> Sym, risk |-> signal.risk, broker |-> "sent", row |-> row,
     known |-> account.known]

(* The router took the signal: the event comes first, then the row.        *)
Route ==
    /\ HasCapacity
    /\ book' = Append(book, Sent("PENDING"))
    /\ Log(<< <<"ROUTER", "ROUTED">> >>)
    /\ proposal' = "PENDING"
    /\ NextSymbol

(* Mutant: the error of the router is logged and the pass goes on.         *)
RouterFails_GoesOn ==
    /\ HasCapacity
    /\ \/ UNCHANGED book
       \/ book' = Append(book, Sent("none"))
    /\ Log(<< <<"ROUTER", "REJECT">> >>)
    /\ NextSymbol
    /\ UNCHANGED proposal

(* SignalRouteError, before or after the EA may have seen the signal: in   *)
(* core_srs it is raised again once it is logged, leaves run and ends the  *)
(* process, and the proposal gets no row.                                  *)
RouterFails ==
    /\ HasCapacity
    /\ \/ UNCHANGED book
       \/ book' = Append(book, Sent("none"))
    /\ Log(<< <<"ROUTER", "REJECT">> >>)
    /\ pc' = "ended"
    /\ UNCHANGED proposal

ReserveAndRoute ==
    /\ pc = "reserve"
    /\ Len(book) < MaxRouted
    /\ \/ Route
       \/ RouterFails
       \/ ~HasCapacity /\ RejectProposal("RESERVATION") /\ UNCHANGED book
    /\ UNCHANGED <<bar, snapshot, lastBar, account, at, turn, signal, moved, judged>>

FinishSymbol ==
    /\ pc = "next"
    /\ IF turn = Len(Order)
       THEN pc' = "consume" /\ turn' = 1 /\ at' = Blank
       ELSE pc' = "regime" /\ turn' = turn + 1 /\ UNCHANGED at
    /\ signal' = NoSignal /\ funnel' = <<>> /\ proposal' = "none"
    /\ moved' = FALSE
    /\ UNCHANGED <<bar, brokerVars, lastBar, account, judged>>

Market ==
    \/ \E s \in Symbols : CloseBar(s)
    \/ \E t \in Ids : Fill(t) \/ Finish(t)
    \/ PublishSnapshot

Engine ==
    \/ ConsumeFeedback \/ UpdateAccountState \/ CheckCandle \/ SkipCycle \/ BeginCycle
    \/ EvaluateRegime \/ EvaluateTechnical \/ EvaluateAdversarial \/ Allocate
    \/ RankSignal \/ ReserveAndRoute \/ FinishSymbol

Next == Market \/ Engine

Spec == Init /\ [][Next]_vars
=============================================================================
