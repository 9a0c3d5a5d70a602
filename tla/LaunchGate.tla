------------------------------ MODULE LaunchGate ------------------------------
(***************************************************************************)
(* What the governance of runtime modes promises the operator, whatever    *)
(* start-up does to keep it: one process launches at most once, it never   *)
(* comes back after a refusal or a stop, and while it runs it holds a      *)
(* grant, a mode with a set of experiments, that permission, account and   *)
(* kind of run allowed.  Nothing it does later widens the grant.           *)
(***************************************************************************)
CONSTANTS Modes, NonSrsModes, Experiments

VARIABLES
    demo,       \* the account is a demo account, or simulated
    permission, \* the operator allows research modes
    demoRun,    \* the run is a demo run, not a smoke test
    status,     \* "checking", "running" or "stopped"
    granted     \* the grant of the running process, none otherwise

inputs == <<demo, permission, demoRun>>
vars == <<inputs, status, granted>>

Grants == [mode : Modes, experiments : SUBSET Experiments]

Init ==
    /\ demo \in BOOLEAN /\ permission \in BOOLEAN /\ demoRun \in BOOLEAN
    /\ status = "checking"
    /\ granted = {}

Permitted(g) ==
    /\ g.mode \in NonSrsModes => permission /\ demo
    /\ g.experiments # {} => g.mode \notin NonSrsModes /\ demoRun /\ demo

Launch ==
    /\ status = "checking"
    /\ status' = "running"
    /\ \E g \in Grants : Permitted(g) /\ granted' = {g}
    /\ UNCHANGED inputs

Refuse ==
    /\ status = "checking"
    /\ status' = "stopped"
    /\ UNCHANGED <<inputs, granted>>

Stop ==
    /\ status = "running"
    /\ status' = "stopped"
    /\ granted' = {}
    /\ UNCHANGED inputs

Next == Launch \/ Refuse \/ Stop

Spec == Init /\ [][Next]_vars
=============================================================================
