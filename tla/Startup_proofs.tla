---------------------------- MODULE Startup_proofs ----------------------------
(***************************************************************************)
(* For every set of environments, brokers and experiments: what start-up   *)
(* lets run was permitted, start-up implements the launch gate, the limits *)
(* of the run are those its mode and the audit name, and the lots of a     *)
(* fixed-dollar mode stay within its budget.                               *)
(*                                                                         *)
(* The invariant follows the gates along the way to the run.  It needs     *)
(* each fact before it is used: that the policy is still a policy from     *)
(* "gate" on, that its experiments belong to core_srs in a demo run from   *)
(* "gate" on and to a demo account from "approve" on, and that a research  *)
(* mode is permitted from "preserve" on.  A second one, LimitsInv, follows *)
(* the limits and the facts preserve_10 was approved with; the lots are    *)
(* arithmetic over what it says of the policy and the broker.              *)
(***************************************************************************)
EXTENDS StartupProperties, TLAPS

PolicyShape(p) ==
    /\ p = [mode |-> p.mode, fixedRisk |-> p.fixedRisk, maxSpread |-> p.maxSpread,
            mlThreshold |-> p.mlThreshold, maxTrades |-> p.maxTrades,
            divisor |-> p.divisor, enabled |-> p.enabled]
    /\ p.mode \in Modes
    /\ p.enabled \subseteq Experiments

InputsTyped ==
    /\ {"mode", "allow"} \subseteq DOMAIN env /\ env = [x \in DOMAIN env |-> env[x]]
    /\ args \in [policyMode : Modes \cup {Blank}, mode : RunModes]
    /\ useMock \in BOOLEAN
    /\ pc \in Steps

Gates == {"gate", "approve", "preserve", "build", "running"}

PolicyKnown == pc \in Gates => PolicyShape(policy)

ExperimentsRequested ==
    pc \in Gates /\ policy.enabled # {} => policy.mode = "core_srs" /\ args.mode = "demo"

ExperimentsGated == pc \in Gates \ {"gate"} /\ policy.enabled # {} => OnDemoAccount

NonSrsGated ==
    pc \in {"preserve", "build", "running"} /\ policy.mode \in NonSrsModes =>
        NonSrsAllowed(env) /\ OnDemoAccount

GateInv ==
    InputsTyped /\ PolicyKnown /\ ExperimentsRequested /\ ExperimentsGated /\ NonSrsGated

-----------------------------------------------------------------------------
(* The profile of a mode carries the mode and ships no experiment.         *)
LEMMA ProfileShape ==
    ASSUME NEW mode \in Modes
    PROVE  /\ PolicyShape(ModeConfig(mode))
           /\ ModeConfig(mode).mode = mode
           /\ ModeConfig(mode).enabled = {}
           /\ ModeConfig(mode).divisor \in Nat \ {0}
  <1>1. CASE mode = "core_srs"
    BY <1>1 DEF ModeConfig, CoreSrs, PolicyShape, Modes, NonSrsModes
  <1>2. CASE mode = "preserve_10"
    <2>1. ModeConfig(mode) = [mode |-> "preserve_10", fixedRisk |-> 50, maxSpread |-> 35,
                              mlThreshold |-> -100, maxTrades |-> 1, divisor |-> 100,
                              enabled |-> {}]
      BY <1>2 DEF ModeConfig, Preserve10, LegacyMicroCapital
    <2> QED
      BY <1>2, <2>1 DEF PolicyShape, Modes, NonSrsModes
  <1>3. CASE mode = "legacy_micro_capital"
    BY <1>3 DEF ModeConfig, LegacyMicroCapital, PolicyShape, Modes, NonSrsModes
  <1> QED
    BY <1>1, <1>2, <1>3 DEF Modes, NonSrsModes

(* Overrides of the environment keep the mode and switch nothing on, and   *)
(* the governed ones set the limits.                                       *)
LEMMA OverriddenShape ==
    ASSUME NEW p, PolicyShape(p), NEW e
    PROVE  LET q == ApplyOverrides(p, e)
           IN  /\ PolicyShape(q) /\ q.mode = p.mode /\ q.enabled = p.enabled
               /\ q.fixedRisk = GovernedOverride(e, e.fixedRisk, 1, p.fixedRisk)
               /\ q.maxSpread = GovernedOverride(e, e.maxSpread, 1, p.maxSpread)
               /\ q.mlThreshold = GovernedOverride(e, e.mlThreshold, Blank, p.mlThreshold)
               /\ q.maxTrades = p.maxTrades
               /\ e.divisor \in Int \cup {Blank, Junk} /\ p.divisor \in Nat \ {0} =>
                      q.divisor \in Nat \ {0}
  <1> DEFINE risk == GovernedOverride(e, e.fixedRisk, 1, p.fixedRisk)
             spread == GovernedOverride(e, e.maxSpread, 1, p.maxSpread)
             threshold == GovernedOverride(e, e.mlThreshold, Blank, p.mlThreshold)
             divisor == IF e.divisor \notin {Blank, Junk} /\ e.divisor >= 1
                        THEN e.divisor ELSE p.divisor
             p1 == [p EXCEPT !.fixedRisk = risk]
             p2 == [p1 EXCEPT !.maxSpread = spread]
             p3 == [p2 EXCEPT !.mlThreshold = threshold]
             p4 == [p3 EXCEPT !.divisor = divisor]
  <1>1. ApplyOverrides(p, e) = p4
    BY Zenon DEF ApplyOverrides
  <1> HIDE DEF risk, spread, threshold, divisor
  <1>2. p1 = [mode |-> p.mode, fixedRisk |-> risk, maxSpread |-> p.maxSpread,
              mlThreshold |-> p.mlThreshold, maxTrades |-> p.maxTrades,
              divisor |-> p.divisor, enabled |-> p.enabled]
    BY DEF PolicyShape
  <1> HIDE DEF p1
  <1>3. p2 = [mode |-> p.mode, fixedRisk |-> risk, maxSpread |-> spread,
              mlThreshold |-> p.mlThreshold, maxTrades |-> p.maxTrades,
              divisor |-> p.divisor, enabled |-> p.enabled]
    BY <1>2
  <1> HIDE DEF p2
  <1>4. p3 = [mode |-> p.mode, fixedRisk |-> risk, maxSpread |-> spread,
              mlThreshold |-> threshold, maxTrades |-> p.maxTrades, divisor |-> p.divisor,
              enabled |-> p.enabled]
    BY <1>3
  <1> HIDE DEF p3
  <1>5. p4 = [mode |-> p.mode, fixedRisk |-> risk, maxSpread |-> spread,
              mlThreshold |-> threshold, maxTrades |-> p.maxTrades, divisor |-> divisor,
              enabled |-> p.enabled]
    BY <1>4
  <1> HIDE DEF p4
  <1>6. LET q == ApplyOverrides(p, e)
        IN  /\ PolicyShape(q) /\ q.mode = p.mode /\ q.enabled = p.enabled
            /\ q.fixedRisk = risk /\ q.maxSpread = spread /\ q.mlThreshold = threshold
            /\ q.maxTrades = p.maxTrades /\ q.divisor = divisor
    BY <1>1, <1>5 DEF PolicyShape
  <1>7. e.divisor \in Int \cup {Blank, Junk} /\ p.divisor \in Nat \ {0} => divisor \in Nat \ {0}
    BY BlankAssumption DEF divisor
  <1> QED
    BY <1>6, <1>7 DEF risk, spread, threshold

(* Only core_srs in a demo run gets the experiments that were requested.   *)
LEMMA ExperimentsShape ==
    ASSUME NEW p, PolicyShape(p), p.enabled = {}, NEW runMode, NEW e
    PROVE  LET q == WithExperiments(p, runMode, e)
           IN  /\ PolicyShape(q)
               /\ q.enabled # {} => q.mode = "core_srs" /\ runMode = "demo"
  <1> DEFINE requested == {x \in Experiments : e.request[x] = "on"}
  <1>1. requested \subseteq Experiments
    OBVIOUS
  <1> HIDE DEF requested
  <1>2. WithExperiments(p, runMode, e) =
            [p EXCEPT !.enabled = IF p.mode = "core_srs" /\ runMode = "demo"
                                  THEN requested ELSE {}]
    BY DEF WithExperiments, requested
  <1> QED
    BY <1>1, <1>2 DEF PolicyShape

(* Dropping the experiments leaves a policy without any.                   *)
LEMMA DroppedShape ==
    ASSUME NEW p, PolicyShape(p)
    PROVE  LET q == [p EXCEPT !.enabled = {}]
           IN  PolicyShape(q) /\ q.mode = p.mode /\ q.enabled = {}
  BY DEF PolicyShape

(* The command line changes the mode of the environment and nothing else.  *)
LEMMA CommandLineKeepsPermission ==
    ASSUME InputsTyped
    PROVE  /\ {"mode", "allow"} \subseteq DOMAIN CommandLineEnv
           /\ CommandLineEnv = [x \in DOMAIN CommandLineEnv |-> CommandLineEnv[x]]
           /\ NonSrsAllowed(CommandLineEnv) = NonSrsAllowed(env)
  BY DEF InputsTyped, CommandLineEnv, NonSrsAllowed

-----------------------------------------------------------------------------
LEMMA GateInvInit == Init => GateInv
  BY EnvironmentsAssumption
  DEF Init, GateInv, InputsTyped, PolicyKnown, ExperimentsRequested, ExperimentsGated,
      NonSrsGated, Gates, Steps

LEMMA GateInvNext == GateInv /\ [Next]_vars => GateInv'
  <1> SUFFICES ASSUME GateInv, [Next]_vars PROVE GateInv'
    OBVIOUS
  <1> USE DEF GateInv
  <1>1. CASE LoadCredentials \/ MissingCredentials \/ Connect \/ ConnectFails
    BY <1>1 DEF LoadCredentials, MissingCredentials, Connect, ConnectFails, inputs,
        InputsTyped, PolicyKnown, ExperimentsRequested, ExperimentsGated, NonSrsGated,
        Gates, Steps
  <1>2. CASE ResolvePolicy
    <2>1. InputsTyped'
      BY <1>2, CommandLineKeepsPermission
      DEF ResolvePolicy, inputs, InputsTyped, LeaveWith, Steps
    <2>2. CASE ModeSupported(env')
      <3> DEFINE mode == IF args.policyMode = Blank THEN ResolveMode(env') ELSE args.policyMode
      <3>1. mode \in Modes
        BY <2>2 DEF InputsTyped, ModeSupported, ResolveMode, Modes, NonSrsModes
      <3> HIDE DEF mode
      <3>2. policy' = WithExperiments(PolicyConfig(mode, env'), args.mode, env') /\ pc' = "gate"
        BY <1>2, <2>2 DEF ResolvePolicy, mode
      <3>3. PolicyShape(PolicyConfig(mode, env')) /\ PolicyConfig(mode, env').enabled = {}
        BY <3>1, ProfileShape, OverriddenShape DEF PolicyConfig
      <3>4. /\ PolicyShape(policy')
            /\ policy'.enabled # {} => policy'.mode = "core_srs" /\ args.mode = "demo"
        BY <3>2, <3>3, ExperimentsShape
      <3>5. args' = args
        BY <1>2 DEF ResolvePolicy, inputs
      <3>6. PolicyKnown' /\ ExperimentsRequested' /\ ExperimentsGated' /\ NonSrsGated'
        BY <3>2, <3>4, <3>5
        DEF PolicyKnown, ExperimentsRequested, ExperimentsGated, NonSrsGated, PolicyShape, Gates
      <3> QED
        BY <2>1, <3>6
    <2>3. CASE ~ModeSupported(env')
      BY <1>2, <2>1, <2>3 DEF ResolvePolicy, LeaveWith, PolicyKnown, ExperimentsRequested,
          ExperimentsGated, NonSrsGated, Gates
    <2> QED
      BY <2>2, <2>3
  <1>3. CASE ExperimentGate
    <2>1. pc = "gate" /\ pc' = "approve" /\ PolicyShape(policy)
      BY <1>3 DEF ExperimentGate, PolicyKnown, Gates
    <2>2. \/ policy' = policy /\ (policy.enabled = {} \/ OnDemoAccount)
          \/ policy' = [policy EXCEPT !.enabled = {}]
      BY <1>3 DEF ExperimentGate, ReadAccount, Gated, OnDemoAccount, InputsTyped
    <2>3. UNCHANGED <<env, args, useMock, account>>
      BY <1>3 DEF ExperimentGate, inputs
    <2>4. /\ PolicyShape(policy')
          /\ policy'.enabled # {} => OnDemoAccount /\ policy' = policy
      BY <2>1, <2>2, DroppedShape
    <2>5. InputsTyped'
      BY <2>1, <2>3 DEF InputsTyped, Steps
    <2>6. PolicyKnown' /\ ExperimentsRequested' /\ ExperimentsGated' /\ NonSrsGated'
      BY <2>1, <2>3, <2>4 DEF PolicyKnown, ExperimentsRequested, ExperimentsGated,
          NonSrsGated, OnDemoAccount, Gates
    <2> QED
      BY <2>5, <2>6
  <1>4. CASE PolicyApproval
    <2>1. /\ pc = "approve" /\ pc' \in {"preserve", "finally"}
          /\ pc' = "preserve" /\ policy.mode \in NonSrsModes => NonSrsAllowed(env) /\ OnDemoAccount
      BY <1>4 DEF PolicyApproval, ReadAccount, RuntimeApproved, OnDemoAccount, LeaveWith,
          InputsTyped
    <2>2. UNCHANGED <<env, args, useMock, account, policy>>
      BY <1>4 DEF PolicyApproval, inputs
    <2> QED
      BY <2>1, <2>2 DEF InputsTyped, PolicyKnown, ExperimentsRequested, ExperimentsGated,
          NonSrsGated, OnDemoAccount, NonSrsAllowed, PolicyShape, Gates, Steps
  <1>5. CASE Preserve10Approval
    <2>1. pc = "preserve" /\ pc' \in {"gate", "build", "finally"}
      BY <1>5 DEF Preserve10Approval, LeaveWith
    <2>2. UNCHANGED <<env, args, useMock, account, policy>>
      BY <1>5 DEF Preserve10Approval, inputs
    <2> QED
      BY <2>1, <2>2 DEF InputsTyped, PolicyKnown, ExperimentsRequested, ExperimentsGated,
          NonSrsGated, OnDemoAccount, NonSrsAllowed, PolicyShape, Gates, Steps
  <1>6. CASE BuildEngine \/ EndRun \/ ShutDown \/ LoseTerminal
    <2>1. /\ pc' \in {pc, "running", "finally", "exited"} /\ pc' \in Steps
          /\ pc' = "running" => pc \in {"build", "running"}
      BY <1>6 DEF BuildEngine, EndRun, ShutDown, LoseTerminal, LeaveWith, InputsTyped, Steps
    <2>2. UNCHANGED <<env, args, useMock, account, policy>>
      BY <1>6 DEF BuildEngine, EndRun, ShutDown, LoseTerminal, inputs
    <2> QED
      BY <2>1, <2>2 DEF InputsTyped, PolicyKnown, ExperimentsRequested, ExperimentsGated,
          NonSrsGated, OnDemoAccount, NonSrsAllowed, PolicyShape, Gates, Steps
  <1>7. CASE UNCHANGED vars
    BY <1>7 DEF vars, inputs, InputsTyped, PolicyKnown, ExperimentsRequested,
        ExperimentsGated, NonSrsGated, OnDemoAccount, NonSrsAllowed, PolicyShape, Gates, Steps
  <1> QED
    BY <1>1, <1>2, <1>3, <1>4, <1>5, <1>6, <1>7 DEF Next

(* The gates hold along the whole way to the run.                          *)
THEOREM GateInvariant == Spec => []GateInv
  BY GateInvInit, GateInvNext, PTL DEF Spec

(* A research mode never runs without its permission or on a live account. *)
THEOREM NonSrsNeverLiveHolds == Spec => []NonSrsNeverLive
  <1>1. GateInv => NonSrsNeverLive
    BY DEF GateInv, NonSrsGated, NonSrsNeverLive, Running
  <1> QED
    BY <1>1, GateInvariant, PTL

(* An experiment of the policy never runs outside a demo run of core_srs   *)
(* on a demo account.                                                      *)
THEOREM ExperimentsOnlyOnDemoHolds == Spec => []ExperimentsOnlyOnDemo
  <1>1. GateInv => ExperimentsOnlyOnDemo
    BY DEF GateInv, ExperimentsRequested, ExperimentsGated, ExperimentsOnlyOnDemo, Running,
        Gates
  <1> QED
    BY <1>1, GateInvariant, PTL

-----------------------------------------------------------------------------
LEMMA GateInit == Init => Gate!Init
  BY DEF Init, Gate!Init, GateStatus, Running, OnDemoAccount, NonSrsAllowed

LEMMA GateNext == GateInv /\ [Next]_vars => [Gate!Next]_Gate!vars
  <1> SUFFICES ASSUME GateInv, [Next]_vars PROVE [Gate!Next]_Gate!vars
    OBVIOUS
  <1>1. InputsTyped /\ PolicyKnown /\ ExperimentsRequested /\ ExperimentsGated /\ NonSrsGated
    BY DEF GateInv
  <1>2. /\ NonSrsAllowed(env)' = NonSrsAllowed(env)
        /\ UNCHANGED <<OnDemoAccount, args>>
    <2>1. CASE ResolvePolicy
      <3>1. env' = CommandLineEnv /\ UNCHANGED <<args, useMock, account>>
        BY <2>1 DEF ResolvePolicy, inputs
      <3>2. NonSrsAllowed(env)' = NonSrsAllowed(CommandLineEnv)
        BY <3>1 DEF NonSrsAllowed
      <3> QED
        BY <1>1, <3>1, <3>2, CommandLineKeepsPermission DEF OnDemoAccount
    <2>2. CASE ~ResolvePolicy
      <3>1. UNCHANGED <<env, args, useMock, account>>
        BY <2>2 DEF Next, vars, inputs, LoadCredentials, MissingCredentials, Connect,
            ConnectFails, ExperimentGate, PolicyApproval, Preserve10Approval, BuildEngine,
            EndRun, ShutDown, LoseTerminal
      <3> QED
        BY <3>1 DEF OnDemoAccount, NonSrsAllowed
    <2> QED
      BY <2>1, <2>2
  <1>3. CASE BuildEngine
    <2>1. pc = "build" /\ policy' = policy
      BY <1>3 DEF BuildEngine
    <2>2. CASE pc' = "running"
      <3>1. Grant \in Gate!Grants /\ Grant' = Grant
        BY <1>1, <2>1 DEF PolicyKnown, PolicyShape, Gates, Grant, Gate!Grants
      <3>2. Gate!Permitted(Grant)
        BY <1>1, <2>1 DEF ExperimentsRequested, ExperimentsGated, NonSrsGated, Gates, Grant,
            Gate!Permitted, NonSrsModes
      <3> QED
        BY <1>2, <2>1, <2>2, <3>1, <3>2
        DEF Gate!Next, Gate!Launch, Gate!inputs, GateStatus, Running
    <2>3. CASE pc' # "running"
      <3>1. pc' = "finally"
        BY <1>3, <2>3 DEF BuildEngine, LeaveWith
      <3> QED
        BY <1>2, <2>1, <3>1 DEF Gate!Next, Gate!Refuse, Gate!inputs, GateStatus, Running
    <2> QED
      BY <2>2, <2>3
  <1>4. CASE EndRun
    BY <1>2, <1>4 DEF EndRun, LeaveWith, Gate!Next, Gate!Stop, Gate!inputs, GateStatus, Running
  <1>5. CASE ~BuildEngine /\ ~EndRun
    <2>1. \/ pc' = pc /\ policy' = policy
          \/ pc \notin {"running", "finally", "exited"} /\ pc' # "running"
          \/ pc \in {"finally", "exited"} /\ pc' \in {"finally", "exited"}
      BY <1>5 DEF Next, vars, LoadCredentials, MissingCredentials, Connect, ConnectFails,
          ResolvePolicy, ExperimentGate, PolicyApproval, Preserve10Approval, ShutDown,
          LoseTerminal, LeaveWith
    <2>2. CASE pc' = pc /\ policy' = policy
      BY <1>2, <2>2 DEF Gate!vars, Gate!inputs, GateStatus, Running, Grant
    <2>3. CASE pc \notin {"running", "finally", "exited"} /\ pc' # "running"
      BY <1>2, <2>3 DEF Gate!vars, Gate!Next, Gate!Refuse, Gate!inputs, GateStatus, Running
    <2>4. CASE pc \in {"finally", "exited"} /\ pc' \in {"finally", "exited"}
      BY <1>2, <2>4 DEF Gate!vars, Gate!inputs, GateStatus, Running
    <2> QED
      BY <2>1, <2>2, <2>3, <2>4
  <1> QED
    BY <1>3, <1>4, <1>5

(* Start-up implements the launch gate.                                    *)
THEOREM StartupImplementsLaunchGate == Spec => ImplementsLaunchGate
  BY GateInit, GateNext, GateInvariant, PTL DEF Spec, ImplementsLaunchGate, Gate!Spec

-----------------------------------------------------------------------------
(* The limits of the policy are those of its mode, as far as the           *)
(* environment may change them; and the environment is the one the policy  *)
(* was built in, with the mode of the command line.                        *)
Raws(e) == {e.fixedRisk, e.maxSpread, e.mlThreshold, e.divisor} \subseteq Int \cup {Blank, Junk}

LimitsOf(p, e) ==
    /\ p.mode = ResolveMode(e)
    /\ p.fixedRisk = GovernedOverride(e, e.fixedRisk, 1, ModeConfig(p.mode).fixedRisk)
    /\ p.maxSpread = GovernedOverride(e, e.maxSpread, 1, ModeConfig(p.mode).maxSpread)
    /\ p.mlThreshold = GovernedOverride(e, e.mlThreshold, Blank, ModeConfig(p.mode).mlThreshold)
    /\ p.maxTrades = ModeConfig(p.mode).maxTrades
    /\ p.divisor \in Nat \ {0}

LimitsInv ==
    /\ Raws(env)
    /\ pc \in Gates => LimitsOf(policy, env)
    /\ pc = "running" =>
          /\ engine.technicalSpread = policy.maxSpread
          /\ engine.adversarialSpread = EnvironmentMaxSpread(env)
    /\ facts \in BrokerFacts
    /\ pc \in {"build", "running"} /\ policy.mode = "preserve_10" =>
          FactsAssessable(facts) /\ Preserve10Approved(policy, facts, commission)

(* Switching experiments changes no limit.                                 *)
LEMMA ExperimentsKeepLimits ==
    ASSUME NEW p, PolicyShape(p), NEW S, NEW e
    PROVE  /\ LimitsOf([p EXCEPT !.enabled = S], e) <=> LimitsOf(p, e)
           /\ [p EXCEPT !.enabled = S].mode = p.mode
           /\ [p EXCEPT !.enabled = S].fixedRisk = p.fixedRisk
  <1> DEFINE q == [p EXCEPT !.enabled = S]
  <1>1. /\ q.mode = p.mode /\ q.fixedRisk = p.fixedRisk /\ q.maxSpread = p.maxSpread
        /\ q.mlThreshold = p.mlThreshold /\ q.maxTrades = p.maxTrades
        /\ q.divisor = p.divisor
    BY DEF PolicyShape
  <1> HIDE DEF q
  <1>2. LimitsOf(q, e) <=> LimitsOf(p, e)
    BY <1>1 DEF LimitsOf
  <1> QED  BY <1>1, <1>2 DEF q

LEMMA CommandLineMode ==
    ASSUME InputsTyped, Raws(env)
    PROVE  /\ Raws(CommandLineEnv)
           /\ args.policyMode # Blank => ResolveMode(CommandLineEnv) = args.policyMode
  <1>1. CASE args.policyMode = Blank
    BY <1>1 DEF CommandLineEnv
  <1>2. CASE args.policyMode # Blank
    <2>1. CommandLineEnv = [env EXCEPT !.mode = args.policyMode]
      BY <1>2 DEF CommandLineEnv
    <2>2. /\ CommandLineEnv.mode = args.policyMode
          /\ CommandLineEnv.fixedRisk = env.fixedRisk /\ CommandLineEnv.divisor = env.divisor
          /\ CommandLineEnv.maxSpread = env.maxSpread
          /\ CommandLineEnv.mlThreshold = env.mlThreshold
      BY <2>1 DEF InputsTyped
    <2> QED  BY <1>2, <2>2 DEF Raws, ResolveMode
  <1> QED  BY <1>1, <1>2

LEMMA LimitsInvInit == Init => LimitsInv
  BY EnvironmentsAssumption DEF Init, LimitsInv, Raws, Gates

LEMMA LimitsInvNext == GateInv /\ LimitsInv /\ [Next]_vars => LimitsInv'
  <1> SUFFICES ASSUME GateInv, LimitsInv, [Next]_vars PROVE LimitsInv'
    OBVIOUS
  <1>0. InputsTyped /\ PolicyKnown
    BY DEF GateInv
  <1>1. facts' \in BrokerFacts
    BY DEF LimitsInv, Next, vars, inputs, LoadCredentials, MissingCredentials, Connect,
        ConnectFails, ResolvePolicy, ExperimentGate, PolicyApproval, Preserve10Approval,
        BuildEngine, EndRun, ShutDown, LoseTerminal
  <1>2. ASSUME UNCHANGED <<env, policy, engine, facts, commission>>,
               pc' \in Gates => pc \in Gates,
               pc' = "running" => pc = "running",
               pc' \in {"build", "running"} => pc \in {"build", "running"}
        PROVE  LimitsInv'
    BY <1>2 DEF LimitsInv
  <1>3. CASE LoadCredentials \/ MissingCredentials \/ Connect \/ ConnectFails
    BY <1>2, <1>3 DEF LoadCredentials, MissingCredentials, Connect, ConnectFails, inputs, Gates
  <1>4. CASE ResolvePolicy
    <2>1. Raws(env') /\ env' = CommandLineEnv
      BY <1>0, <1>4, CommandLineMode DEF ResolvePolicy, LimitsInv
    <2>2. CASE ModeSupported(env')
      <3> DEFINE mode == IF args.policyMode = Blank THEN ResolveMode(env') ELSE args.policyMode
                 base == PolicyConfig(mode, env')
      <3>1. mode \in Modes
        BY <1>0, <2>2 DEF InputsTyped, ModeSupported, ResolveMode, Modes, NonSrsModes
      <3>2. mode = ResolveMode(env')
        BY <1>0, <2>1, CommandLineMode DEF LimitsInv
      <3> HIDE DEF mode
      <3>3. policy' = WithExperiments(base, args.mode, env') /\ pc' = "gate"
        BY <1>4, <2>2 DEF ResolvePolicy, mode
      <3>4. PolicyShape(base) /\ base.mode = mode
        BY <3>1, ProfileShape, OverriddenShape DEF PolicyConfig
      <3>5. /\ base.fixedRisk = GovernedOverride(env', env'.fixedRisk, 1, ModeConfig(mode).fixedRisk)
            /\ base.maxSpread = GovernedOverride(env', env'.maxSpread, 1, ModeConfig(mode).maxSpread)
            /\ base.mlThreshold
                  = GovernedOverride(env', env'.mlThreshold, Blank, ModeConfig(mode).mlThreshold)
            /\ base.maxTrades = ModeConfig(mode).maxTrades
            /\ base.divisor \in Nat \ {0}
        BY <2>1, <3>1, ProfileShape, OverriddenShape DEF PolicyConfig, Raws
      <3> HIDE DEF base
      <3>6. LimitsOf(base, env')
        BY <3>2, <3>4, <3>5, Zenon DEF LimitsOf
      <3>7. \E S : policy' = [base EXCEPT !.enabled = S]
        BY <3>3 DEF WithExperiments
      <3>8. LimitsOf(policy', env')
        BY <3>4, <3>6, <3>7, ExperimentsKeepLimits
      <3> QED  BY <1>1, <2>1, <3>3, <3>8 DEF LimitsInv, Gates
    <2>3. CASE ~ModeSupported(env')
      <3>1. pc' = "finally"
        BY <1>4, <2>3 DEF ResolvePolicy, LeaveWith
      <3> QED  BY <1>1, <2>1, <3>1 DEF LimitsInv, Gates
    <2> QED  BY <2>2, <2>3
  <1>5. CASE ExperimentGate
    <2>1. pc = "gate" /\ pc' = "approve" /\ PolicyShape(policy) /\ env' = env
      BY <1>0, <1>5 DEF ExperimentGate, PolicyKnown, Gates
    <2>2. policy' = policy \/ policy' = [policy EXCEPT !.enabled = {}]
      BY <1>5 DEF ExperimentGate, Gated
    <2>3. LimitsOf(policy, env) /\ Raws(env)
      BY <2>1 DEF LimitsInv, Gates
    <2>4. LimitsOf(policy', env)
      BY <2>1, <2>2, <2>3, ExperimentsKeepLimits
    <2> QED  BY <1>1, <2>1, <2>3, <2>4 DEF LimitsInv, Gates
  <1>6. CASE PolicyApproval
    <2>1. /\ pc = "approve" /\ pc' \in {"preserve", "finally"}
          /\ UNCHANGED <<env, policy, engine, facts, commission>>
      BY <1>6 DEF PolicyApproval, LeaveWith, inputs
    <2> QED  BY <2>1, <1>2 DEF Gates
  <1>7. CASE Preserve10Approval
    <2>1. /\ pc = "preserve" /\ pc' \in {"gate", "build", "finally"}
          /\ pc' = "build" /\ policy.mode = "preserve_10" =>
                FactsAssessable(facts) /\ Preserve10Approved(policy, facts, commission)
      BY <1>7 DEF Preserve10Approval, LeaveWith
    <2>2. UNCHANGED <<env, policy, engine, facts, commission>>
      BY <1>7 DEF Preserve10Approval, inputs
    <2> QED  BY <2>1, <2>2 DEF LimitsInv, Gates
  <1>8. CASE BuildEngine
    <2>1. /\ pc = "build" /\ pc' \in {"running", "finally"}
          /\ UNCHANGED <<env, policy, facts, commission>>
          /\ pc' = "running" => engine' = [technicalSpread   |-> policy.maxSpread,
                        adversarialSpread |-> EnvironmentMaxSpread(env),
                        shadow            |-> ShadowEnabled(policy, env),
                        canary            |-> CanaryEnabled(policy, env),
                        stream            |-> <<policy.mode, useMock, policy.enabled>>]
      BY <1>8 DEF BuildEngine, LeaveWith, inputs
    <2>2. pc' = "running" => /\ engine'.technicalSpread = policy.maxSpread
                             /\ engine'.adversarialSpread = EnvironmentMaxSpread(env)
      BY <2>1
    <2>3. EnvironmentMaxSpread(env') = EnvironmentMaxSpread(env)
      BY <2>1
    <2> QED  BY <2>1, <2>2, <2>3 DEF LimitsInv, Gates
  <1>9. CASE EndRun \/ ShutDown
    <2>1. pc' \in {"finally", "exited"} /\ UNCHANGED <<env, policy, engine, facts, commission>>
      BY <1>9 DEF EndRun, ShutDown, LeaveWith, inputs
    <2> QED  BY <2>1, <1>2 DEF Gates
  <1>10. CASE LoseTerminal \/ UNCHANGED vars
    BY <1>2, <1>10 DEF LoseTerminal, vars, inputs
  <1> QED
    BY <1>3, <1>4, <1>5, <1>6, <1>7, <1>8, <1>9, <1>10 DEF Next

LEMMA LimitsInvariant == Spec => [](GateInv /\ LimitsInv)
  BY GateInvInit, GateInvNext, LimitsInvInit, LimitsInvNext, PTL DEF Spec

(* Whatever the environment holds, core_srs runs with its own limits.      *)
THEOREM CoreSrsLimitsKept == Spec => []CoreSrsKeepsItsLimits
  <1>1. LimitsInv => CoreSrsKeepsItsLimits
    <2> SUFFICES ASSUME LimitsInv, pc = "running", policy.mode = "core_srs"
                 PROVE  \A f \in {"fixedRisk", "maxSpread", "mlThreshold", "maxTrades"} :
                            policy[f] = CoreSrs[f]
      BY DEF CoreSrsKeepsItsLimits, Running
    <2>1. LimitsOf(policy, env)
      BY DEF LimitsInv, Gates
    <2>2. ~OverridesEnabled(env)
      BY <2>1 DEF LimitsOf, OverridesEnabled, OverrideEnabledModes, NonSrsModes
    <2>3. ModeConfig(policy.mode) = CoreSrs
      BY DEF ModeConfig
    <2>4. /\ policy.fixedRisk = CoreSrs.fixedRisk /\ policy.maxSpread = CoreSrs.maxSpread
          /\ policy.mlThreshold = CoreSrs.mlThreshold /\ policy.maxTrades = CoreSrs.maxTrades
      BY <2>1, <2>2, <2>3 DEF LimitsOf, GovernedOverride
    <2> QED  BY <2>4
  <1> QED  BY <1>1, LimitsInvariant, PTL

(* Both agents judge by one spread limit, and by the labelled one unless   *)
(* the audit says that an override was requested.                          *)
THEOREM AuditsAreTruthful == Spec => []AuditIsTruthful
  <1>1. LimitsInv => AuditIsTruthful
    <2> SUFFICES ASSUME LimitsInv, pc = "running"
                 PROVE  /\ engine.technicalSpread = engine.adversarialSpread
                        /\ AuditState(env, env.maxSpread) # "requested" =>
                               engine.technicalSpread = ModeConfig(policy.mode).maxSpread
      BY DEF AuditIsTruthful, Running
    <2>1. LimitsOf(policy, env)
      BY DEF LimitsInv, Gates
    <2>2. engine.technicalSpread = engine.adversarialSpread
      BY <2>1, Zenon DEF LimitsInv, LimitsOf, EnvironmentMaxSpread
    <2>3. AuditState(env, env.maxSpread) # "requested" =>
              env.maxSpread = Blank \/ ~OverridesEnabled(env)
      BY DEF AuditState
    <2>4. AuditState(env, env.maxSpread) # "requested" =>
              policy.maxSpread = ModeConfig(policy.mode).maxSpread
      BY <2>1, <2>3 DEF LimitsOf, GovernedOverride
    <2> QED  BY <2>2, <2>4 DEF LimitsInv
  <1> QED  BY <1>1, LimitsInvariant, PTL

-----------------------------------------------------------------------------
(* Lots.                                                                   *)

(* A fixed-dollar mode has a budget of at least a cent.                    *)
LEMMA BudgetPositive ==
    ASSUME LimitsInv, pc = "running", policy.mode \in NonSrsModes
    PROVE  policy.fixedRisk \in Nat \ {0}
  <1>1. LimitsOf(policy, env) /\ env.fixedRisk \in Int \cup {Blank, Junk}
    BY DEF LimitsInv, Gates, Raws
  <1>2. ModeConfig(policy.mode).fixedRisk = 50
    BY DEF ModeConfig, Preserve10, LegacyMicroCapital, NonSrsModes
  <1>3. \/ policy.fixedRisk = 50
        \/ policy.fixedRisk = env.fixedRisk /\ env.fixedRisk \in Int /\ env.fixedRisk >= 1
    BY <1>1, <1>2, BlankAssumption DEF LimitsOf, GovernedOverride
  <1> QED  BY <1>3

LEMMA QuotientBound ==
    ASSUME NEW a \in Nat, NEW b \in Nat \ {0}
    PROVE  /\ a \div b \in Nat
           /\ (a \div b) * b <= a
  OBVIOUS

LEMMA QuotientMonotone ==
    ASSUME NEW a \in Nat, NEW b \in Nat, NEW c \in Nat \ {0}, a <= b
    PROVE  a \div c \in Nat /\ b \div c \in Nat /\ a \div c <= b \div c
  OBVIOUS

LEMMA ProductMonotone ==
    ASSUME NEW a \in Nat, NEW b \in Nat, NEW c \in Nat, a <= b
    PROVE  a * c <= b * c /\ a * c \in Nat /\ b * c \in Nat
  OBVIOUS

LEMMA ExactQuotient ==
    ASSUME NEW a \in Nat, NEW b \in Nat \ {0}
    PROVE  (a * b) \div b = a
  OBVIOUS

LEMMA CancelFactor ==
    ASSUME NEW a \in Nat, NEW b \in Nat, NEW c \in Nat \ {0}, a * c <= b * c
    PROVE  a <= b
  OBVIOUS

LEMMA QuotientAtLeast ==
    ASSUME NEW a \in Nat, NEW d \in Nat \ {0}, NEW n \in Nat, n * d <= a
    PROVE  n <= a \div d
  OBVIOUS

(* A multiple of a lot in hundredths is in hundredths, and the rounding of *)
(* the EA leaves such a lot as it is.                                      *)
LEMMA HundredthsMultiple ==
    ASSUME NEW a \in Nat, NEW step \in Nat, step % 10 = 0
    PROVE  a * step \in Nat /\ (a * step) % 10 = 0
  <1>1. PICK k \in Nat : step = 10 * k
    OBVIOUS
  <1>2. a * k \in Nat /\ a * step = 10 * (a * k)
    BY <1>1
  <1>3. PICK m \in Nat : a * step = 10 * m
    BY <1>2
  <1>4. (10 * m) % 10 = 0
    OBVIOUS
  <1> QED  BY <1>3, <1>4

LEMMA HundredthsKept ==
    ASSUME NEW lot \in Nat, lot % 10 = 0
    PROVE  ((lot + 5) \div 10) * 10 = lot
  OBVIOUS

(* What a symbol of assessable facts offers to the lot computation.        *)
SymbolKnown(s) ==
    {s.minLot, s.lotStep, s.maxLot, s.pipValue} \subseteq Nat \ {0}

LEMMA AssessableSymbol ==
    ASSUME facts \in BrokerFacts, FactsAssessable(facts), NEW x \in DOMAIN facts.symbols
    PROVE  SymbolKnown(facts.symbols[x])
  <1> DEFINE s == facts.symbols[x]
  <1>1. {s.minLot, s.lotStep, s.maxLot, s.pipValue} \subseteq Int
    BY BrokerFactsAssumption
  <1>2. SymbolAssessable(s)
    BY DEF FactsAssessable
  <1> HIDE DEF s
  <1>3. s.minLot > 0 /\ s.lotStep > 0 /\ s.maxLot > 0 /\ s.pipValue > 0
    BY <1>2 DEF SymbolAssessable
  <1>4. SymbolKnown(s)
    BY <1>1, <1>3 DEF SymbolKnown
  <1> QED  BY <1>4 DEF s

(* The lot on the grid that engine and EA both arrive at.                  *)
GridLot(raw, s) ==
    IF raw < s.minLot THEN 0 ELSE Smaller((raw \div s.lotStep) * s.lotStep, s.maxLot)

(* It is no more than what the budget buys, and in hundredths when the     *)
(* grid is.                                                                *)
LEMMA GridLotBound ==
    ASSUME NEW raw \in Nat, NEW s, SymbolKnown(s), InHundredths(s)
    PROVE  GridLot(raw, s) \in Nat /\ GridLot(raw, s) % 10 = 0 /\ GridLot(raw, s) <= raw
  <1> DEFINE onGrid == (raw \div s.lotStep) * s.lotStep
  <1>1. /\ s.minLot \in Nat \ {0} /\ s.lotStep \in Nat \ {0} /\ s.maxLot \in Nat \ {0}
        /\ s.lotStep % 10 = 0 /\ s.maxLot % 10 = 0
    BY DEF SymbolKnown, InHundredths, LotSize
  <1>2. raw \div s.lotStep \in Nat /\ onGrid <= raw
    BY <1>1, QuotientBound
  <1>3. onGrid \in Nat /\ onGrid % 10 = 0
    BY <1>1, <1>2, HundredthsMultiple
  <1>4. GridLot(raw, s)
            = IF raw < s.minLot THEN 0 ELSE IF onGrid < s.maxLot THEN onGrid ELSE s.maxLot
    BY DEF GridLot, Smaller
  <1> HIDE DEF onGrid
  <1> QED  BY <1>1, <1>2, <1>3, <1>4

(* More money buys no smaller lot.                                         *)
LEMMA GridLotMonotone ==
    ASSUME NEW low \in Nat, NEW high \in Nat, low <= high, NEW s, SymbolKnown(s)
    PROVE  GridLot(low, s) <= GridLot(high, s)
  <1> DEFINE l == low \div s.lotStep
             h == high \div s.lotStep
  <1>1. s.minLot \in Nat \ {0} /\ s.lotStep \in Nat \ {0} /\ s.maxLot \in Nat \ {0}
    BY DEF SymbolKnown
  <1>2. l \in Nat /\ h \in Nat /\ l <= h
    BY <1>1, QuotientMonotone
  <1> HIDE DEF l, h
  <1>3. l * s.lotStep <= h * s.lotStep /\ l * s.lotStep \in Nat /\ h * s.lotStep \in Nat
    BY <1>1, <1>2, ProductMonotone
  <1> DEFINE ls == l * s.lotStep
             hs == h * s.lotStep
  <1>4. /\ GridLot(low, s)
               = IF low < s.minLot THEN 0 ELSE IF ls < s.maxLot THEN ls ELSE s.maxLot
        /\ GridLot(high, s)
               = IF high < s.minLot THEN 0 ELSE IF hs < s.maxLot THEN hs ELSE s.maxLot
    BY DEF GridLot, Smaller, l, h
  <1>5. ls <= hs /\ ls \in Nat /\ hs \in Nat
    BY <1>3
  <1> HIDE DEF ls, hs
  <1> QED  BY <1>1, <1>4, <1>5

(* The fraction of a balance comes to no more than the budget of the       *)
(* policy in units of the account.                                         *)
LEMMA FractionWithinBudget ==
    ASSUME NEW dollars \in Nat \ {0}, NEW unit \in Nat \ {0}, NEW budget \in Nat \ {0},
           NEW modifier \in 1..100
    PROVE  LET money == ((dollars * unit) * (budget * modifier)) \div (dollars * 100)
           IN  money \in Nat /\ money <= budget * unit
  <1> DEFINE den == dollars * 100
             num == (dollars * unit) * (budget * modifier)
             money == num \div den
             full == budget * unit
  <1>1. den \in Nat \ {0} /\ full \in Nat
    OBVIOUS
  <1>2. budget * modifier \in Nat /\ budget * modifier <= budget * 100
    OBVIOUS
  <1>3. dollars * unit \in Nat
    OBVIOUS
  <1>4. \A a, b, c \in Nat : b <= c => a * b \in Nat /\ a * c \in Nat /\ a * b <= a * c
    OBVIOUS
  <1>5. num \in Nat /\ num <= (dollars * unit) * (budget * 100)
    BY <1>2, <1>3, <1>4
  <1>6. (dollars * unit) * (budget * 100) = full * den
    OBVIOUS
  <1> HIDE DEF num, den, full
  <1>7. money \in Nat /\ money * den <= num
    BY <1>1, <1>5, QuotientBound
  <1> HIDE DEF money
  <1>8. money * den <= full * den
    BY <1>1, <1>5, <1>6, <1>7
  <1>9. money <= full
    BY <1>1, <1>7, <1>8, CancelFactor
  <1> QED  BY <1>7, <1>9 DEF money, full, num, den

(* The parts of a fixed-dollar trade.                                      *)
LEMMA TradeFacts ==
    ASSUME LimitsInv, NEW x, FixedRiskTrade(x)
    PROVE  LET a == facts.account
           IN  /\ policy.fixedRisk \in Nat \ {0}
               /\ a.currency \in {"USD", "USC"}
               /\ UnitsPerDollar[a.currency] \in {1, 100}
               /\ a.currency = "USD" => UnitsPerDollar[a.currency] = 1
               /\ EngineBalance(a) \in Nat \ {0}
               /\ a.balance = EngineBalance(a) * UnitsPerDollar[a.currency]
  <1> DEFINE a == facts.account
             unit == UnitsPerDollar[a.currency]
  <1>1. policy.fixedRisk \in Nat \ {0}
    BY BudgetPositive DEF FixedRiskTrade, Running
  <1>2. AccountAssessable(a) /\ EngineBalance(a) >= policy.fixedRisk
    BY DEF FixedRiskTrade, FactsAssessable
  <1>3. a.balance \in Nat /\ (a.currency \in DOMAIN UnitsPerDollar => a.balance % unit = 0)
    BY BrokerFactsAssumption DEF LimitsInv
  <1>4. a.currency \in DOMAIN UnitsPerDollar
    BY <1>2 DEF AccountAssessable
  <1>5. EngineBalance(a) = a.balance \div unit
    BY DEF EngineBalance, InCents
  <1> HIDE DEF a
  <1>6. a.currency \in {"USD", "USC"} /\ unit \in {1, 100} /\ (a.currency = "USD" => unit = 1)
    BY <1>4 DEF UnitsPerDollar
  <1> HIDE DEF unit
  <1>7. EngineBalance(a) \in Nat /\ a.balance = EngineBalance(a) * unit
    BY <1>3, <1>4, <1>5, <1>6
  <1>8. EngineBalance(a) # 0
    BY <1>1, <1>2, <1>7
  <1> QED  BY <1>1, <1>6, <1>7, <1>8 DEF a, unit

(* The money the EA risks at the stop, what the engine puts in its place,  *)
(* and the lots the two buy with them.                                     *)
LEMMA TradeLot ==
    ASSUME LimitsInv, NEW x \in DOMAIN facts.symbols, FixedRiskTrade(x),
           InHundredths(facts.symbols[x]), NEW stop \in Stops, NEW modifier \in Modifiers
    PROVE  LET s     == facts.symbols[x]
               a     == facts.account
               risk  == RiskFraction(policy, a, modifier)
               money == RiskAmount(a, risk)
               raw   == RawLimit(a, risk, stop, s)
           IN  /\ money \in Nat /\ money <= policy.fixedRisk * UnitsPerDollar[a.currency]
               /\ raw \in Nat /\ raw * (stop * s.pipValue) <= money * 1000
               /\ EALot(a, risk, stop, s) = GridLot(raw, s)
  <1> DEFINE s == facts.symbols[x]
             a == facts.account
             risk == RiskFraction(policy, a, modifier)
             money == RiskAmount(a, risk)
             raw == RawLimit(a, risk, stop, s)
             cost == stop * s.pipValue
             unit == UnitsPerDollar[a.currency]
             dollars == EngineBalance(a)
             onGrid == (raw \div s.lotStep) * s.lotStep
             lot == IF onGrid > s.maxLot THEN s.maxLot ELSE onGrid
  <1>1. stop \in Nat \ {0} /\ modifier \in 1..100
    BY TradesAssumption
  <1>2. /\ policy.fixedRisk \in Nat \ {0} /\ unit \in Nat \ {0} /\ dollars \in Nat \ {0}
        /\ a.balance = dollars * unit
    BY TradeFacts
  <1>3. SymbolKnown(s) /\ InHundredths(s)
    BY AssessableSymbol DEF LimitsInv, FixedRiskTrade
  <1>4. risk.num = policy.fixedRisk * modifier /\ risk.den = dollars * 100
    BY DEF RiskFraction
  <1>5. EALot(a, risk, stop, s) = IF raw < s.minLot THEN 0 ELSE ((lot + 5) \div 10) * 10
    BY Zenon DEF EALot, TwoDecimals
  <1>6. money = (a.balance * risk.num) \div risk.den /\ raw = (money * 1000) \div cost
    BY DEF RiskAmount, RawLimit
  <1> HIDE DEF s, a, risk, unit, dollars, money, raw
  <1>7. money = ((dollars * unit) * (policy.fixedRisk * modifier)) \div (dollars * 100)
    BY <1>2, <1>4, <1>6
  <1>8. money \in Nat /\ money <= policy.fixedRisk * unit
    BY <1>1, <1>2, <1>7, FractionWithinBudget
  <1>9. cost \in Nat \ {0}
    BY <1>1, <1>3 DEF SymbolKnown
  <1> HIDE DEF cost
  <1>10. raw \in Nat /\ raw * cost <= money * 1000
    BY <1>6, <1>8, <1>9, QuotientBound
  <1>11. onGrid \in Int /\ s.maxLot \in Int /\ raw \in Int /\ s.minLot \in Int
    BY <1>3, <1>10 DEF SymbolKnown
  <1>12. GridLot(raw, s) = IF raw < s.minLot THEN 0 ELSE lot
    <2> HIDE DEF onGrid
    <2>1. lot = Smaller(onGrid, s.maxLot)
      BY <1>11 DEF Smaller
    <2> HIDE DEF lot
    <2> QED  BY <2>1 DEF GridLot, onGrid
  <1>13. GridLot(raw, s) \in Nat /\ GridLot(raw, s) % 10 = 0
    BY <1>3, <1>10, GridLotBound
  <1> HIDE DEF onGrid, lot
  <1>14. EALot(a, risk, stop, s) = GridLot(raw, s)
    <2>1. CASE raw < s.minLot
      BY <1>5, <1>12, <2>1
    <2>2. CASE ~(raw < s.minLot)
      <3>1. lot = GridLot(raw, s)
        BY <1>12, <2>2
      <3> QED  BY <1>5, <1>13, <2>2, <3>1, HundredthsKept
    <2> QED  BY <2>1, <2>2
  <1> QED  BY <1>8, <1>10, <1>14 DEF money, raw, cost, s, a, risk, unit

(* No trade of a fixed-dollar mode loses more at its stop than the budget  *)
(* of the policy.                                                          *)
THEOREM FillsWithinBudget == Spec => []FillWithinBudget
  <1>1. LimitsInv => FillWithinBudget
    <2> SUFFICES ASSUME LimitsInv,
                        NEW x \in DOMAIN facts.symbols, NEW stop \in Stops, NEW modifier \in Modifiers,
                        FixedRiskTrade(x), InHundredths(facts.symbols[x])
                 PROVE  LET s == facts.symbols[x]
                            a == facts.account
                        IN  EALot(a, RiskFraction(policy, a, modifier), stop, s) * stop * s.pipValue
                               <= policy.fixedRisk * UnitsPerDollar[a.currency] * 1000
      BY DEF FillWithinBudget
    <2> DEFINE s == facts.symbols[x]
               a == facts.account
               risk == RiskFraction(policy, a, modifier)
               money == RiskAmount(a, risk)
               raw == RawLimit(a, risk, stop, s)
               unit == UnitsPerDollar[a.currency]
               cost == stop * s.pipValue
               lot == GridLot(raw, s)
               full == policy.fixedRisk * unit
    <2>1. /\ money \in Nat /\ money <= full
          /\ raw \in Nat /\ raw * cost <= money * 1000
          /\ EALot(a, risk, stop, s) = lot
      BY TradeLot
    <2>2. policy.fixedRisk \in Nat /\ unit \in Nat
      BY TradeFacts
    <2>3. SymbolKnown(s) /\ InHundredths(s)
      BY AssessableSymbol DEF LimitsInv, FixedRiskTrade
    <2>4. stop \in Nat /\ s.pipValue \in Nat
      BY <2>3, TradesAssumption DEF SymbolKnown
    <2> HIDE DEF s, a, risk, money, raw, unit
    <2>5. lot \in Nat /\ lot <= raw
      BY <2>1, <2>3, GridLotBound
    <2>6. full \in Nat /\ cost \in Nat
      BY <2>2, <2>4
    <2>7. lot * stop * s.pipValue = lot * cost
      BY <2>4, <2>5
    <2> HIDE DEF lot, full, cost
    <2>8. lot * cost <= raw * cost /\ lot * cost \in Nat /\ raw * cost \in Nat
      BY <2>1, <2>5, <2>6, ProductMonotone
    <2>9. lot * cost <= full * 1000
      BY <2>1, <2>6, <2>8
    <2> QED  BY <2>1, <2>7, <2>9 DEF s, a, risk, unit, full
  <1> QED  BY <1>1, LimitsInvariant, PTL

(* What the engine's feasibility check lets through the EA fills with at   *)
(* least the lot the check estimated, whatever the unit of the account and *)
(* the divisor; undivided and in dollars the two lots are the same.        *)
THEOREM FeasibleTradesAreFilled == Spec => []FeasibleTradesFill
  <1>1. LimitsInv => FeasibleTradesFill
    <2> SUFFICES ASSUME LimitsInv, Running, policy.divisor \in Nat \ {0},
                        NEW x \in DOMAIN facts.symbols, NEW stop \in Stops, NEW modifier \in Modifiers,
                        FixedRiskTrade(x), InHundredths(facts.symbols[x])
                 PROVE  LET s        == facts.symbols[x]
                            a        == facts.account
                            risk     == RiskFraction(policy, a, modifier)
                            estimate == FeasibleLot(policy, a, risk, stop, s)
                            lot      == EALot(a, risk, stop, s)
                        IN  /\ estimate <= lot
                            /\ a.currency = "USD" /\ policy.divisor = 1 => estimate = lot
      BY DEF FeasibleTradesFill, FixedRiskTrade, Running, LimitsInv, LimitsOf, Gates
    <2> DEFINE s == facts.symbols[x]
               a == facts.account
               risk == RiskFraction(policy, a, modifier)
               virtual == VirtualBalance(policy, a)
               dollars == EngineBalance(a)
               part == (virtual * risk.num) \div risk.den
               whole == RiskAmount(a, risk)
               low == RawLot(part, stop, s)
               high == RawLimit(a, risk, stop, s)
               cost == stop * s.pipValue
               unit == UnitsPerDollar[a.currency]
    <2>1. /\ whole \in Nat /\ high \in Nat
          /\ EALot(a, risk, stop, s) = GridLot(high, s)
      BY TradeLot
    <2>2. /\ dollars \in Nat \ {0} /\ a.balance = dollars * unit
          /\ unit \in {1, 100} /\ (a.currency = "USD" => unit = 1)
          /\ policy.fixedRisk \in Nat \ {0}
      BY TradeFacts
    <2>3. SymbolKnown(s) /\ stop \in Nat \ {0} /\ modifier \in Nat \ {0}
      BY AssessableSymbol, TradesAssumption DEF LimitsInv, FixedRiskTrade
    <2>4. risk.num \in Nat /\ risk.den \in Nat \ {0}
      BY <2>2, <2>3 DEF RiskFraction
    <2>5. /\ whole = (a.balance * risk.num) \div risk.den
          /\ low = (part * 1000) \div cost /\ high = (whole * 1000) \div cost
      BY DEF RiskAmount, RawLimit, RawLot
    <2>6. virtual \in Nat /\ virtual <= dollars /\ (policy.divisor = 1 => virtual = dollars)
      BY <2>2 DEF VirtualBalance
    <2>7. a.balance \in Nat /\ dollars <= a.balance /\ (unit = 1 => dollars = a.balance)
      BY <2>2
    <2>8. FeasibleLot(policy, a, risk, stop, s) = GridLot(low, s)
      BY <2>3 DEF FeasibleLot, GridLot, SymbolKnown
    <2>9. cost \in Nat \ {0}
      BY <2>3 DEF SymbolKnown
    <2> HIDE DEF s, a, risk, virtual, dollars, whole, low, high, cost, unit
    <2>10. part \in Nat /\ part <= whole
      <3>1. virtual <= a.balance
        BY <2>2, <2>6, <2>7
      <3>2. /\ virtual * risk.num \in Nat /\ a.balance * risk.num \in Nat
            /\ virtual * risk.num <= a.balance * risk.num
        BY <2>4, <2>6, <2>7, <3>1, ProductMonotone
      <3> QED  BY <2>4, <2>5, <3>2, QuotientMonotone
    <2>11. unit = 1 /\ policy.divisor = 1 => part = whole
      BY <2>5, <2>6, <2>7
    <2> HIDE DEF part
    <2>12. low \in Nat /\ low <= high
      <3>1. part * 1000 \in Nat /\ whole * 1000 \in Nat /\ part * 1000 <= whole * 1000
        BY <2>1, <2>10
      <3> QED  BY <2>5, <2>9, <3>1, QuotientMonotone
    <2>13. GridLot(low, s) <= GridLot(high, s)
      BY <2>1, <2>3, <2>12, GridLotMonotone
    <2>14. unit = 1 /\ policy.divisor = 1 => low = high
      BY <2>5, <2>11
    <2> QED  BY <2>1, <2>2, <2>8, <2>13, <2>14 DEF s, a, risk, low, high
  <1> QED  BY <1>1, LimitsInvariant, PTL

(* A dollar account preserve_10 starts on can pay for the smallest lot at  *)
(* every stop of no more pips than its budget has cents.                   *)
THEOREM ApprovedAccountsTrade == Spec => []ApprovedCanTrade
  <1>1. LimitsInv => ApprovedCanTrade
    <2> SUFFICES ASSUME LimitsInv, pc = "running", policy.mode = "preserve_10",
                        facts.account.currency = "USD",
                        NEW x \in DOMAIN facts.symbols, NEW stop \in Stops,
                        stop <= policy.fixedRisk
                 PROVE  Eligible(policy, stop, facts.symbols[x])
      BY DEF ApprovedCanTrade, Running
    <2> DEFINE s == facts.symbols[x]
               budget == policy.fixedRisk
    <2>1. /\ facts \in BrokerFacts /\ FactsAssessable(facts)
          /\ Preserve10Approved(policy, facts, commission)
      BY DEF LimitsInv
    <2>2. budget \in Nat \ {0} /\ stop \in Nat \ {0} /\ stop <= budget
      BY BudgetPositive, TradesAssumption DEF NonSrsModes
    <2>3. s.minLot \in Nat \ {0} /\ s.pipValue \in Nat \ {0}
      BY <2>1, AssessableSymbol DEF SymbolKnown
    <2>4. s.minLot <= 10 /\ PipCostWithinCent(s, facts.account)
      BY <2>1 DEF Preserve10Approved, LotSize
    <2>5. UnitsPerDollar[facts.account.currency] = 1
      BY DEF UnitsPerDollar
    <2> HIDE DEF s, budget
    <2>6. s.pipValue <= 100
      BY <2>3, <2>4, <2>5 DEF PipCostWithinCent, LotSize
    <2>7. stop * s.pipValue \in Nat \ {0} /\ stop * s.pipValue <= stop * 100
      BY <2>2, <2>3, <2>6
    <2>8. 10 * (stop * s.pipValue) <= budget * 1000
      <3> DEFINE cost == stop * s.pipValue
      <3>1. cost \in Nat /\ cost <= stop * 100
        BY <2>7
      <3> HIDE DEF cost
      <3> QED  BY <2>2, <3>1 DEF cost
    <2>9. budget * 1000 \in Nat
      BY <2>2
    <2>10. 10 <= (budget * 1000) \div (stop * s.pipValue)
      BY <2>7, <2>8, <2>9, QuotientAtLeast
    <2>11. RawLot(budget, stop, s) >= s.minLot
      <3> DEFINE raw == (budget * 1000) \div (stop * s.pipValue)
      <3>1. raw \in Nat /\ raw >= 10
        BY <2>7, <2>9, <2>10, QuotientBound
      <3> HIDE DEF raw
      <3>2. raw >= s.minLot
        BY <2>3, <2>4, <3>1
      <3> QED  BY <3>2 DEF raw, RawLot
    <2> QED  BY <2>11 DEF Eligible, s, budget
  <1> QED  BY <1>1, LimitsInvariant, PTL
=============================================================================
