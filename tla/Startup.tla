------------------------------- MODULE Startup -------------------------------
(***************************************************************************)
(* One process of the engine from main() to Engine.run and to its end:     *)
(* credentials, connection, the policy of the environment and the command  *)
(* line, the gates that keep research modes and experiments off live       *)
(* accounts, which main() and Engine.__init__ both apply, and the parts    *)
(* Engine.__init__ builds from the result (main.py, core/mt5_bridge.py,    *)
(* core/bridge_utils.py).                                                  *)
(*                                                                         *)
(* The account stays the one of the credentials; each reading of it may    *)
(* fail.                                                                   *)
(***************************************************************************)
EXTENDS LotApproval

CONSTANTS
    Environments,   \* environments the process may be started in
    BrokerFacts,    \* what the broker may tell about account and symbols
    Commissions,    \* raw values of PRESERVE_10_COMMISSION_PER_LOT_USD
    RetryCount      \* connection attempts

ASSUME StartupAssumption == RetryCount \in Nat \ {0}
ASSUME EnvironmentsAssumption ==
    \A e \in Environments :
        /\ {"mode", "allow", "fixedRisk", "maxSpread", "mlThreshold", "divisor"}
              \subseteq DOMAIN e
        /\ e = [x \in DOMAIN e |-> e[x]]
        /\ {e.fixedRisk, e.maxSpread, e.mlThreshold, e.divisor} \subseteq Int \cup {Blank, Junk}

(* The balance is one that InCents converts exactly, as the code's         *)
(* multiplication by 0.01 does.                                            *)
ASSUME BrokerFactsAssumption ==
    \A b \in BrokerFacts :
        /\ b.account.balance \in Nat
        /\ b.account.currency \in DOMAIN UnitsPerDollar =>
              b.account.balance % UnitsPerDollar[b.account.currency] = 0
        /\ \A x \in DOMAIN b.symbols : LET s == b.symbols[x] IN
              {s.minLot, s.lotStep, s.maxLot, s.pipValue} \subseteq Int

VARIABLES
    env,        \* os.environ
    args,       \* --policy-mode and --mode
    useMock,    \* USE_MT5_MOCK
    account,    \* "demo" or "live"
    facts,      \* the broker's side of preserve_10's approval
    commission,
    stage,      \* who is checking: "main" or "engine" (Engine.__init__)
    pc,
    attempts,   \* connections tried
    connected,  \* bridge.connected
    terminal,   \* the process-wide connection of the MetaTrader5 package
    policy,
    engine,     \* what Engine.__init__ has built, or Blank
    exitCode

inputs == <<args, useMock, account, facts, commission>>
vars == <<env, inputs, stage, pc, attempts, connected, terminal, policy, engine, exitCode>>

Steps == {"credentials", "connect", "policy", "gate", "approve", "preserve",
          "build", "running", "finally", "exited"}
Codes == 0..4 \cup {Blank}

Init ==
    /\ env \in Environments
    /\ args \in [policyMode : Modes \cup {Blank}, mode : RunModes]
    /\ useMock \in BOOLEAN
    /\ account \in {"demo", "live"}
    /\ facts \in BrokerFacts
    /\ commission \in Commissions
    /\ stage = "main" /\ pc = "credentials"
    /\ attempts = 0
    /\ connected = FALSE /\ terminal = FALSE
    /\ policy = Blank /\ engine = Blank
    /\ exitCode = Blank

-----------------------------------------------------------------------------
(* Leave the try block of main(), whose finally shuts the bridge down.  An  *)
(* exception nobody catches ends the process with status 1.                *)
LeaveWith(code) == pc' = "finally" /\ exitCode' = code

(* load_mt5_credentials_from_env; the mock needs none.                     *)
LoadCredentials ==
    /\ pc = "credentials"
    /\ pc' = "connect"
    /\ UNCHANGED <<env, inputs, stage, attempts, connected, terminal, policy, engine, exitCode>>

MissingCredentials ==
    /\ pc = "credentials" /\ ~useMock
    /\ pc' = "exited" /\ exitCode' = 1
    /\ UNCHANGED <<env, inputs, stage, attempts, connected, terminal, policy, engine>>

(* MT5Connection.connect: RetryCount attempts; its failure returns before  *)
(* the try block.                                                          *)
Connect ==
    /\ pc = "connect"
    /\ connected' = TRUE /\ terminal' = TRUE
    /\ pc' = "policy"
    /\ UNCHANGED <<env, inputs, stage, attempts, policy, engine, exitCode>>

ConnectFails ==
    /\ pc = "connect" /\ ~useMock
    /\ attempts' = attempts + 1
    /\ IF attempts' = RetryCount
       THEN pc' = "exited" /\ exitCode' = 2
       ELSE UNCHANGED <<pc, exitCode>>
    /\ UNCHANGED <<env, inputs, stage, connected, terminal, policy, engine>>

(* Mutant: only the policy is built for the mode of the command line.      *)
CommandLineEnv_PolicyOnly == env

(* --policy-mode overwrites the environment before the policy is read, so  *)
(* that every later reader of the environment sees it too.                 *)
CommandLineEnv ==
    IF args.policyMode = Blank THEN env ELSE [env EXCEPT !.mode = args.policyMode]

ResolvePolicy ==
    /\ pc = "policy"
    /\ env' = CommandLineEnv
    /\ IF ModeSupported(env')
       THEN /\ policy' = WithExperiments(
                   PolicyConfig(IF args.policyMode = Blank
                                THEN ResolveMode(env') ELSE args.policyMode, env'),
                   args.mode, env')
            /\ pc' = "gate"
            /\ UNCHANGED exitCode
       ELSE /\ LeaveWith(1)
            /\ UNCHANGED policy
    /\ UNCHANGED <<inputs, stage, attempts, connected, terminal, engine>>

-----------------------------------------------------------------------------
(* is_demo_account: True, False or None.  _ensure_connected reconnects a   *)
(* lost terminal; when that fails, or the account cannot be read, None.    *)
ReadAccount(reading) ==
    \/ /\ useMock /\ reading = "demo"
       /\ UNCHANGED <<connected, terminal>>
    \/ /\ ~useMock /\ reading \in {account, "unknown"}
       /\ connected' = TRUE /\ terminal' = TRUE
    \/ /\ ~useMock /\ reading = "unknown"
       /\ ~terminal /\ connected' = FALSE /\ UNCHANGED terminal

(* Mutant: only a live account is refused, not an unreadable one.          *)
Gated_UnknownPasses(reading) ==
    IF reading \in {"demo", "unknown"} THEN policy
    ELSE [policy EXCEPT !.enabled = {}]

(* _enforce_demo_only_experiment_account_gate.                             *)
Gated(reading) ==
    IF reading = "demo" THEN policy ELSE [policy EXCEPT !.enabled = {}]

ExperimentGate ==
    /\ pc = "gate"
    /\ \/ /\ policy.enabled = {} \/ useMock
          /\ UNCHANGED <<policy, connected, terminal>>
       \/ /\ policy.enabled # {} /\ ~useMock
          /\ \E reading \in {"demo", "live", "unknown"} :
                ReadAccount(reading) /\ policy' = Gated(reading)
    /\ pc' = "approve"
    /\ UNCHANGED <<env, inputs, stage, attempts, engine, exitCode>>

(* Mutant: a failed reading counts as a demo account.                      *)
RuntimeApproved_UnknownPasses(reading) ==
    \/ policy.mode \notin NonSrsModes
    \/ NonSrsAllowed(env) /\ (useMock \/ reading \in {"demo", "unknown"})

(* evaluate_runtime_policy_approval.                                       *)
RuntimeApproved(reading) ==
    \/ policy.mode \notin NonSrsModes
    \/ NonSrsAllowed(env) /\ (useMock \/ reading = "demo")

(* main() returns 4; Engine.__init__ raises RuntimeError, for which main() *)
(* returns 2.                                                              *)
PolicyApproval ==
    /\ pc = "approve"
    /\ \E reading \in {"demo", "live", "unknown"} :
          /\ ReadAccount(reading)
          /\ IF RuntimeApproved(reading)
             THEN pc' = "preserve" /\ UNCHANGED exitCode
             ELSE LeaveWith(IF stage = "main" THEN 4 ELSE 2)
    /\ UNCHANGED <<env, inputs, stage, attempts, policy, engine>>

(* evaluate_preserve_10_startup_approval, in main() and again in           *)
(* Engine.__init__; reading the facts may fail.                            *)
Preserve10Approval ==
    /\ pc = "preserve"
    /\ \/ /\ policy.mode = "preserve_10" =>
                FactsAssessable(facts) /\ Preserve10Approved(policy, facts, commission)
          /\ IF stage = "main"
             THEN stage' = "engine" /\ pc' = "gate"
             ELSE pc' = "build" /\ UNCHANGED stage
          /\ UNCHANGED exitCode
       \/ /\ policy.mode = "preserve_10"
          /\ LeaveWith(IF stage = "main" THEN 3 ELSE 2)
          /\ UNCHANGED stage
    /\ UNCHANGED <<env, inputs, attempts, connected, terminal, policy, engine>>

(* The rest of Engine.__init__: get_mt5_bridge_path, which when it has to  *)
(* ask the terminal closes the process-wide connection behind it, and the  *)
(* parts.  A missing path or directory raises RuntimeError.                *)
BuildEngine ==
    /\ pc = "build"
    /\ \/ UNCHANGED terminal
       \/ ~useMock /\ terminal' = FALSE
    /\ \/ /\ engine' = [technicalSpread   |-> policy.maxSpread,
                        adversarialSpread |-> EnvironmentMaxSpread(env),
                        shadow            |-> ShadowEnabled(policy, env),
                        canary            |-> CanaryEnabled(policy, env),
                        stream            |-> <<policy.mode, useMock, policy.enabled>>]
          /\ pc' = "running"
          /\ UNCHANGED exitCode
       \/ LeaveWith(2) /\ UNCHANGED engine
    /\ UNCHANGED <<env, inputs, stage, attempts, connected, policy>>

(* Engine.run returns, or an exception leaves it.                          *)
EndRun ==
    /\ pc = "running"
    /\ \E code \in {0, 1} : LeaveWith(code)
    /\ UNCHANGED <<env, inputs, stage, attempts, connected, terminal, policy, engine>>

(* bridge.shutdown().                                                      *)
ShutDown ==
    /\ pc = "finally"
    /\ terminal' = (terminal /\ ~connected)
    /\ connected' = FALSE
    /\ pc' = "exited"
    /\ UNCHANGED <<env, inputs, stage, attempts, policy, engine, exitCode>>

(* The terminal closes or loses its account; a reader notices.             *)
LoseTerminal ==
    /\ terminal /\ ~useMock /\ pc \notin {"exited", "finally"}
    /\ terminal' = FALSE
    /\ UNCHANGED <<env, inputs, stage, pc, attempts, connected, policy, engine, exitCode>>

Next ==
    \/ LoadCredentials \/ MissingCredentials \/ Connect \/ ConnectFails
    \/ ResolvePolicy \/ ExperimentGate \/ PolicyApproval \/ Preserve10Approval
    \/ BuildEngine \/ EndRun \/ ShutDown \/ LoseTerminal

Spec == Init /\ [][Next]_vars
=============================================================================
