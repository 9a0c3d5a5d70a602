-------------------------- MODULE StartupProperties --------------------------
(***************************************************************************)
(* What a started engine may rely on, whatever environment, command line   *)
(* and account it was started with.                                        *)
(***************************************************************************)
EXTENDS Startup

CONSTANTS
    Stops,      \* stop distances in pips
    Modifiers   \* soft risk modifiers in percent

ASSUME TradesAssumption == Stops \subseteq Nat \ {0} /\ Modifiers \subseteq 1..100

Raw == Int \cup {Blank}
Policies ==
    [mode : Modes, fixedRisk : Raw, maxSpread : Int, mlThreshold : Int,
     maxTrades : Nat, divisor : Nat, enabled : SUBSET Experiments]

(* Type correctness of the process.                                        *)
TypeOK ==
    /\ stage \in {"main", "engine"} /\ pc \in Steps
    /\ attempts \in 0..RetryCount
    /\ connected \in BOOLEAN /\ terminal \in BOOLEAN
    /\ policy = Blank \/ policy \in Policies
    /\ exitCode \in Codes
    /\ pc \in {"gate", "approve", "preserve", "build", "running"} => policy \in Policies
    /\ pc = "running" => engine # Blank

Running == pc = "running"
OnDemoAccount == useMock \/ account = "demo"

(* A research mode runs only with its explicit permission and only on the  *)
(* mock or a demo account: also when the account could not be read, and    *)
(* wherever the mode came from (evaluate_runtime_policy_approval).         *)
NonSrsNeverLive ==
    Running /\ policy.mode \in NonSrsModes => NonSrsAllowed(env) /\ OnDemoAccount

(* An experiment of the policy runs only for core_srs, in a demo run, on   *)
(* the mock or a demo account (_enforce_demo_only_experiment_account_gate, *)
(* apply_runtime_experiment_config).                                       *)
ExperimentsOnlyOnDemo ==
    Running /\ policy.enabled # {} =>
        policy.mode = "core_srs" /\ args.mode = "demo" /\ OnDemoAccount

(* The process as the operator sees it: before, during and after the run,  *)
(* and what it runs with.                                                  *)
GateStatus ==
    CASE Running                     -> "running"
      [] pc \in {"finally", "exited"} -> "stopped"
      [] OTHER                       -> "checking"
Grant == [mode |-> policy.mode, experiments |-> policy.enabled]

Gate == INSTANCE LaunchGate
    WITH demo <- OnDemoAccount, permission <- NonSrsAllowed(env),
         demoRun <- args.mode = "demo", status <- GateStatus,
         granted <- IF Running THEN {Grant} ELSE {}

(* Start-up implements the launch gate: what runs was granted, the grant   *)
(* does not change while it runs, and a process that was refused or has    *)
(* stopped never runs again.                                               *)
ImplementsLaunchGate == Gate!Spec

(* The environment cannot move a limit of core_srs, even one left behind   *)
(* by an earlier research run: the command line wins over it.              *)
CoreSrsKeepsItsLimits ==
    Running /\ policy.mode = "core_srs" =>
        \A f \in {"fixedRisk", "maxSpread", "mlThreshold", "maxTrades"} :
            policy[f] = CoreSrs[f]

(* What start-up reports of the spread limit is true: the technical and    *)
(* the adversarial agent judge by the same limit, though one is given the  *)
(* policy and the other reads the environment again, and it is the one the *)
(* mode is labelled with when the audit calls an override blocked or none. *)
AuditIsTruthful ==
    Running =>
        /\ engine.technicalSpread = engine.adversarialSpread
        /\ AuditState(env, env.maxSpread) # "requested" =>
               engine.technicalSpread = ModeConfig(policy.mode).maxSpread

-----------------------------------------------------------------------------
(* A fixed-dollar mode on this symbol of an account that holds at least    *)
(* its budget.                                                             *)
FixedRiskTrade(x) ==
    /\ Running /\ policy.mode \in NonSrsModes
    /\ FactsAssessable(facts)
    /\ EngineBalance(facts.account) >= policy.fixedRisk
InHundredths(s) == s.lotStep % LotSize = 0 /\ s.maxLot % LotSize = 0

(* The lot the EA computes from the fraction of the balance it is sent     *)
(* loses at the stop no more than the budget of the policy, whatever the   *)
(* unit of the account, when the broker's lots are in hundredths.          *)
FillWithinBudget ==
    \A x \in DOMAIN facts.symbols, stop \in Stops, modifier \in Modifiers :
        LET s == facts.symbols[x]
            a == facts.account
        IN  FixedRiskTrade(x) /\ InHundredths(s) =>
                EALot(a, RiskFraction(policy, a, modifier), stop, s) * stop * s.pipValue
                    <= policy.fixedRisk * UnitsPerDollar[a.currency] * 1000

(* What the engine's feasibility check lets through the EA fills, with at  *)
(* least the lot it estimated, although the engine counts in dollars of    *)
(* the virtual balance and the EA in units of the whole one; and the two   *)
(* agree, on what they refuse as well, on a dollar account with an         *)
(* undivided balance (_pre_route_feasibility, CalculateLot).               *)
FeasibleTradesFill ==
    \A x \in DOMAIN facts.symbols, stop \in Stops, modifier \in Modifiers :
        LET s        == facts.symbols[x]
            a        == facts.account
            risk     == RiskFraction(policy, a, modifier)
            estimate == FeasibleLot(policy, a, risk, stop, s)
            lot      == EALot(a, risk, stop, s)
        IN  FixedRiskTrade(x) /\ InHundredths(s) =>
                /\ estimate <= lot
                /\ a.currency = "USD" /\ policy.divisor = 1 => estimate = lot

(* An account preserve_10 approves can trade: at every stop of no more     *)
(* pips than the budget has cents, the budget buys the smallest lot.       *)
ApprovedCanTrade ==
    Running /\ policy.mode = "preserve_10" /\ facts.account.currency = "USD" =>
        \A x \in DOMAIN facts.symbols, stop \in Stops :
            stop <= policy.fixedRisk => Eligible(policy, stop, facts.symbols[x])
=============================================================================
