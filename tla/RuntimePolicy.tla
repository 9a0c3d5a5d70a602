---------------------------- MODULE RuntimePolicy ----------------------------
(***************************************************************************)
(* The runtime policy profiles and how the environment of the process may  *)
(* change them (config_microcapital.py), and the second, separate way in   *)
(* which the environment configures the meta-labeler                       *)
(* (ml/meta_labeler/shadow_runtime.py).                                    *)
(*                                                                         *)
(* Money is in cents, spreads in tenths of a pip, probabilities in         *)
(* hundredths.  A raw environment value is Blank, Junk (not a number) or   *)
(* an integer; a switch is "on", "off" or "unset".                         *)
(***************************************************************************)
EXTENDS Integers

CONSTANTS
    Blank,        \* the variable is unset or empty; also Python's None
    Junk,         \* the variable holds something float() refuses
    Experiments,  \* the keys of EXPERIMENTS
    Shadow,       \* META_LABELER_SHADOW
    Canary        \* META_LABELER_CANARY

ASSUME ExperimentsAssumption == {Shadow, Canary} \subseteq Experiments

(* What is unset, or not a number, is no number.                           *)
ASSUME BlankAssumption == Blank \notin Int /\ Junk \notin Int

NonSrsModes == {"legacy_micro_capital", "preserve_10"}
Modes == {"core_srs"} \cup NonSrsModes
OverrideEnabledModes == NonSrsModes
RunModes == {"smoke", "demo"}
Switches == {"on", "off", "unset"}

(* The labelled profiles.  preserve_10 is legacy_micro_capital with a      *)
(* divisor.                                                                *)
CoreSrs ==
    [mode |-> "core_srs", fixedRisk |-> Blank, maxSpread |-> 20, mlThreshold |-> 0,
     maxTrades |-> 2, divisor |-> 1, enabled |-> {}]
LegacyMicroCapital ==
    [mode |-> "legacy_micro_capital", fixedRisk |-> 50, maxSpread |-> 35,
     mlThreshold |-> -100, maxTrades |-> 1, divisor |-> 1, enabled |-> {}]
Preserve10 == [LegacyMicroCapital EXCEPT !.mode = "preserve_10", !.divisor = 100]
ModeConfig(mode) ==
    CASE mode = "core_srs"    -> CoreSrs
      [] mode = "preserve_10" -> Preserve10
      [] OTHER                -> LegacyMicroCapital

-----------------------------------------------------------------------------
(* resolve_policy_mode, non_srs_policy_allowed.  An unknown mode raises:   *)
(* it is the caller's guard ModeSupported.                                 *)
ModeSupported(env) == env.mode \in Modes \cup {Blank}
ResolveMode(env) == IF env.mode = Blank THEN "core_srs" ELSE env.mode
NonSrsAllowed(env) == env.allow = "on"

(* Mutant: the overrides only need an explicit mode.                       *)
OverridesEnabled_Ungoverned(env) ==
    env.mode # Blank /\ ResolveMode(env) \in Modes

(* _mode_allows_runtime_overrides looks at the environment's mode, not at  *)
(* the mode of the policy being built.                                     *)
OverridesEnabled(env) ==
    ResolveMode(env) \in OverrideEnabledModes /\ NonSrsAllowed(env)

(* _read_governed_float_override.                                          *)
GovernedOverride(env, raw, minimum, default) ==
    IF /\ raw \notin {Blank, Junk}
       /\ OverridesEnabled(env)
       /\ minimum = Blank \/ raw >= minimum
    THEN raw
    ELSE default

(* apply_policy_overrides.  The divisor is not governed.                   *)
ApplyOverrides(policy, env) ==
    [policy EXCEPT
        !.fixedRisk   = GovernedOverride(env, env.fixedRisk, 1, policy.fixedRisk),
        !.maxSpread   = GovernedOverride(env, env.maxSpread, 1, policy.maxSpread),
        !.mlThreshold = GovernedOverride(env, env.mlThreshold, Blank, policy.mlThreshold),
        !.divisor     = IF env.divisor \notin {Blank, Junk} /\ env.divisor >= 1
                        THEN env.divisor ELSE policy.divisor]

(* get_policy_config of a mode, and of the environment's mode.             *)
PolicyConfig(mode, env) == ApplyOverrides(ModeConfig(mode), env)

(* read_max_spread_pips without a policy, as AdversarialAgent calls it.    *)
EnvironmentMaxSpread(env) ==
    GovernedOverride(env, env.maxSpread, 1,
                     ModeConfig(ResolveMode(env)).maxSpread)

(* apply_runtime_experiment_config.  Every profile ships its experiments   *)
(* disabled, so a request is what enables one.                             *)
WithExperiments(policy, runMode, env) ==
    [policy EXCEPT !.enabled =
        IF policy.mode = "core_srs" /\ runMode = "demo"
        THEN {x \in Experiments : env.request[x] = "on"}
        ELSE {}]

(* collect_runtime_override_audit: what startup reports of one field.      *)
AuditState(env, raw) ==
    CASE raw = Blank           -> "default"
      [] OverridesEnabled(env) -> "requested"
      [] OTHER                 -> "blocked"
-----------------------------------------------------------------------------
(* resolve_shadow_runtime_config and resolve_canary_runtime_config: the    *)
(* policy's experiment, unless the environment says otherwise.             *)
Switched(default, switch) ==
    IF switch = "unset" THEN default ELSE switch = "on"

ShadowEnabled(policy, env) == Switched(Shadow \in policy.enabled, env.shadow)

CanaryMode(env) == IF env.canaryMode = Blank THEN "soft" ELSE env.canaryMode
CanaryEnabled(policy, env) ==
    /\ Switched(Canary \in policy.enabled, env.canary)
    /\ CanaryMode(env) # "off"
    /\ env.killSwitch # "on"

(* evaluate_canary_decision of a canary whose stage is the default: is it   *)
(* in force, and does it block a route the primary gates allow?            *)
CanaryEnforced(policy, env) == CanaryEnabled(policy, env) /\ ShadowEnabled(policy, env)

CanaryBlocks(policy, env, shadowOutcome, primaryRoute) ==
    /\ CanaryEnforced(policy, env)
    /\ CanaryMode(env) = "strict"
    /\ primaryRoute
    /\ shadowOutcome = "REJECT"
=============================================================================
