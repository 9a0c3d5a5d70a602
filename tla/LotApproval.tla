----------------------------- MODULE LotApproval -----------------------------
(***************************************************************************)
(* Money and lots: the broker facts preserve_10 must present before the    *)
(* engine starts (core/mt5_bridge.py, main.py), the two checks a trade of  *)
(* a fixed-dollar mode passes before it is published, and the lot the EA   *)
(* computes for it (mt5_ea/FX_Execution.mq5).                              *)
(*                                                                         *)
(* Account amounts are in hundredths of the account's currency, dollars in *)
(* cents, lots in thousandths, spreads in tenths of a pip.  A cent account *)
(* counts 100 units to the dollar.                                         *)
(***************************************************************************)
EXTENDS RuntimePolicy

LotSize == 10            \* PRESERVE_10_LOT_SIZE: 0.01 lots
ReferenceBalance == 1000 \* PRESERVE_10_REFERENCE_BALANCE_USD: $10
UnitsPerDollar == [USD |-> 1, USC |-> 100]

InCents(amount, account) == amount \div UnitsPerDollar[account.currency]
Smaller(a, b) == IF a < b THEN a ELSE b

-----------------------------------------------------------------------------
(* get_preserve_10_approval_facts: what makes the facts assessable.  A     *)
(* missing value reads as zero and fails like a zero one.                  *)
AccountAssessable(account) ==
    /\ account.currency \in DOMAIN UnitsPerDollar
    /\ account.leverage > 0

SymbolAssessable(s) ==
    /\ s.quote = "fresh"
    /\ \A f \in {"minLot", "lotStep", "maxLot", "pipValue", "margin"} : s[f] > 0
    /\ s.maxLot >= s.minLot
    /\ s.lotStep <= s.maxLot

FactsAssessable(facts) ==
    /\ AccountAssessable(facts.account)
    /\ \A x \in DOMAIN facts.symbols : SymbolAssessable(facts.symbols[x])

(* Mutant: the unit of the account is forgotten the wrong way round.       *)
PipCostWithinCent_Unscaled(s, account) ==
    s.pipValue * LotSize <= 1000 * 100

(* The cost of one pip on 0.01 lots and the margin of 0.01 lots, against   *)
(* their ceilings; every fraction is multiplied out.                       *)
PipCostWithinCent(s, account) ==
    s.pipValue * LotSize <= 1000 * UnitsPerDollar[account.currency]

MarginWithin(s, account, balance) ==
    s.margin * LotSize <= balance * s.minLot * UnitsPerDollar[account.currency]

CostBelowBudget(s, account, commission, budget) ==
    LET unit == UnitsPerDollar[account.currency]
    IN  s.pipValue * s.spread * LotSize + commission * unit * LotSize * 10
            < budget * unit * 10000

(* evaluate_preserve_10_startup_approval of assessable facts.              *)
Preserve10Approved(policy, facts, commission) ==
    LET account == facts.account
        balance == InCents(account.balance, account)
        target  == Smaller(balance, ReferenceBalance)
    IN  /\ account.tradeAllowed
        /\ balance > 0
        /\ commission \notin {Blank, Junk}
        /\ commission >= 0
        /\ \A x \in DOMAIN facts.symbols :
              LET s == facts.symbols[x]
              IN  /\ s.tradable
                  /\ s.minLot <= LotSize
                  /\ s.lotStep <= LotSize
                  /\ LotSize % s.lotStep = 0
                  /\ PipCostWithinCent(s, account)
                  /\ MarginWithin(s, account, target)
                  /\ CostBelowBudget(s, account, commission, policy.fixedRisk)

-----------------------------------------------------------------------------
(* AccountStatus.balance is in dollars; _virtual_balance divides it.       *)
EngineBalance(account) == InCents(account.balance, account)

VirtualBalance(policy, account) ==
    IF policy.divisor > 1 THEN EngineBalance(account) \div policy.divisor
                          ELSE EngineBalance(account)

(* _fixed_risk_percent scaled by a soft modifier in percent: the fraction  *)
(* of the balance put at risk.                                             *)
RiskFraction(policy, account, modifier) ==
    [num |-> policy.fixedRisk * modifier, den |-> EngineBalance(account) * 100]

(* The engine's raw limit: the lot a budget buys at a stop.                *)
RawLot(budget, stop, s) == (budget * 1000) \div (stop * s.pipValue)

(* evaluate_fixed_risk_eligibility: dollars against a pip value in units   *)
(* of the account.                                                         *)
Eligible(policy, stop, s) == RawLot(policy.fixedRisk, stop, s) >= s.minLot

(* Mutant: a budget too small for the smallest lot is estimated as one.    *)
FeasibleLot_RaisesToMinimum(policy, account, risk, stop, s) ==
    LET money == (VirtualBalance(policy, account) * risk.num) \div risk.den
        raw   == RawLot(money, stop, s)
        lot   == (raw \div s.lotStep) * s.lotStep
    IN  IF raw < s.minLot THEN s.minLot ELSE Smaller(lot, s.maxLot)

(* evaluate_trade_feasibility on the virtual balance, in dollars: its      *)
(* estimated lot, zero when it refuses.                                    *)
FeasibleLot(policy, account, risk, stop, s) ==
    LET money == (VirtualBalance(policy, account) * risk.num) \div risk.den
        raw   == RawLot(money, stop, s)
        lot   == (raw \div s.lotStep) * s.lotStep
    IN  IF raw < s.minLot THEN 0
        ELSE IF s.maxLot > 0 THEN Smaller(lot, s.maxLot) ELSE lot

-----------------------------------------------------------------------------
(* The money the EA puts at risk, in units of the account, and the lot it  *)
(* buys at the stop.                                                       *)
RiskAmount(account, risk) == (account.balance * risk.num) \div risk.den
RawLimit(account, risk, stop, s) ==
    (RiskAmount(account, risk) * 1000) \div (stop * s.pipValue)

(* NormalizeDouble(lot, 2).                                                *)
TwoDecimals(lot) == ((lot + 5) \div 10) * 10

(* Mutant: a risk too small for the smallest lot buys it all the same.     *)
EALot_RaisesToMinimum(account, risk, stop, s) ==
    LET raw == RawLimit(account, risk, stop, s)
        lot == (raw \div s.lotStep) * s.lotStep
    IN  IF raw < s.minLot THEN s.minLot
        ELSE TwoDecimals(IF lot > s.maxLot THEN s.maxLot ELSE lot)

(* CalculateLot of the EA: the whole balance in the account's own units,   *)
(* zero when it refuses, cut to the largest lot and rounded at the end.    *)
EALot(account, risk, stop, s) ==
    LET raw == RawLimit(account, risk, stop, s)
        lot == (raw \div s.lotStep) * s.lotStep
    IN  IF raw < s.minLot THEN 0
        ELSE TwoDecimals(IF lot > s.maxLot THEN s.maxLot ELSE lot)
=============================================================================
