-------------------------- MODULE Supervision_proofs --------------------------
(***************************************************************************)
(* For any number of processes, instances of the watchdog, faults and      *)
(* intervals, any zone and either engine task: the engines the watchdog    *)
(* can see are bounded by its instances and the kills it was denied, and   *)
(* at or east of UTC a running engine is never killed on its own account.  *)
(***************************************************************************)
EXTENDS Supervision, FiniteSetTheorems, TLAPS

EngineFields ==
    [state : States, by : {"task", "watchdog", Blank}, serves : BOOLEAN,
     age : 0..MaxAge \cup {Blank}]

LEMMA GoneIsAnEngine == Gone \in EngineFields /\ Gone.state = "absent" /\ Gone.age = Blank
  BY DEF Gone, Engine, EngineFields, States

(* What any step of an engine process or of time leaves of it.             *)
LEMMA Engines ==
    ASSUME TypeOK
    PROVE  /\ engines = [p \in Processes |-> engines[p]]
           /\ \A p \in Processes : engines[p] \in EngineFields
  BY DEF TypeOK, EngineFields

-----------------------------------------------------------------------------
(* Type correctness, action by action.                                     *)
LEMMA TypeInit == Init => TypeOK
<1> SUFFICES ASSUME Init PROVE TypeOK
  OBVIOUS
<1>1. engines \in [Processes -> EngineFields]
  BY GoneIsAnEngine DEF Init
<1>. QED
  BY <1>1, SupervisionAssumption DEF Init, TypeOK, EngineFields, Checks

(* An engine that goes on keeps the process that started it; it beats when *)
(* it enters its loop.                                                     *)
LEMMA EngineGoesOn ==
    ASSUME TypeOK, NEW p \in Processes, BindHealth(p) \/ EnterLoop(p) \/ Hang(p)
    PROVE  /\ Alive(p) /\ engines[p].state # "hung"
           /\ \E e \in EngineFields :
                 /\ engines' = [engines EXCEPT ![p] = e]
                 /\ e.by = engines[p].by
                 /\ \/ e.state = "connecting" /\ e.age = engines[p].age
                       /\ engines[p].state = "starting"
                    \/ e.state = "running" /\ e.age = 0
                    \/ e.state = "hung"
<1>1. Alive(p) /\ engines[p].state # "hung"
  BY DEF BindHealth, EnterLoop, Hang, Alive
<1>2. engines[p] \in EngineFields
  BY Engines
<1>3. CASE BindHealth(p)
  <2>1. PICK bound \in BOOLEAN : engines' = [engines EXCEPT ![p].state = "connecting",
                                                            ![p].serves = bound]
    BY <1>3 DEF BindHealth
  <2>. DEFINE e == [engines[p] EXCEPT !.state = "connecting", !.serves = bound]
  <2>2. engines' = [engines EXCEPT ![p] = e]
    BY <2>1, Engines
  <2>3. e \in EngineFields /\ e.by = engines[p].by /\ e.age = engines[p].age
        /\ e.state = "connecting" /\ engines[p].state = "starting"
    BY <1>2, <1>3 DEF BindHealth, EngineFields, States
  <2>. HIDE DEF e
  <2>. QED
    BY <1>1, <2>2, <2>3
<1>4. CASE EnterLoop(p)
  <2>. DEFINE e == [engines[p] EXCEPT !.state = "running", !.age = 0]
  <2>1. engines' = [engines EXCEPT ![p] = e]
    BY <1>4, Engines DEF EnterLoop
  <2>2. 0 \in 0..MaxAge \cup {Blank}
    BY SupervisionAssumption
  <2>3. e \in EngineFields /\ e.by = engines[p].by /\ e.state = "running" /\ e.age = 0
    BY <1>2, <2>2 DEF EngineFields, States
  <2>. HIDE DEF e
  <2>. QED
    BY <1>1, <2>1, <2>3
<1>5. CASE Hang(p)
  <2>. DEFINE e == [engines[p] EXCEPT !.state = "hung"]
  <2>1. engines' = [engines EXCEPT ![p] = e]
    BY <1>5, Engines DEF Hang
  <2>2. e \in EngineFields /\ e.by = engines[p].by /\ e.state = "hung"
    BY <1>2 DEF EngineFields, States
  <2>. HIDE DEF e
  <2>. QED
    BY <1>1, <2>1, <2>2
<1>. QED
  BY <1>3, <1>4, <1>5

LEMMA EngineTypes ==
    ASSUME TypeOK, NEW p \in Processes,
           EngineTaskFires(p) \/ BindHealth(p) \/ EnterLoop(p) \/ Hang(p)
    PROVE  TypeOK'
<1>1. engines' \in [Processes -> EngineFields]
  <2>1. CASE EngineTaskFires(p)
    BY <2>1, Engines DEF EngineTaskFires, Launch, Engine, EngineFields, States
  <2>2. CASE BindHealth(p) \/ EnterLoop(p) \/ Hang(p)
    BY <2>2, Engines, EngineGoesOn
  <2>. QED
    BY <2>1, <2>2
<1>2. UNCHANGED <<watchdog, health, spared, due, terminal, engineTask, utcOffset>>
  BY DEF EngineTaskFires, BindHealth, EnterLoop, Hang, setup
<1>3. taskPending' \in BOOLEAN /\ faults' \in 0..MaxFaults
  <2>1. CASE Hang(p)
    BY <2>1, SupervisionAssumption DEF Hang, Fault, TypeOK
  <2>2. CASE EngineTaskFires(p) \/ BindHealth(p) \/ EnterLoop(p)
    <3>1. faults' = faults /\ taskPending' \in {taskPending, FALSE}
      BY <2>2 DEF EngineTaskFires, BindHealth, EnterLoop
    <3>. QED
      BY <3>1 DEF TypeOK
  <2>. QED
    BY <2>1, <2>2
<1>. QED
  BY <1>1, <1>2, <1>3 DEF TypeOK, EngineFields

(* The memory of an instance after processes have ended.                   *)
LEMMA RememberedType ==
    ASSUME NEW h \in Answered \cup {Blank},
           NEW gone
    PROVE  /\ Remembered(h, gone)
                \in Answered \cup {Blank}
           /\ Remembered(h, gone) = Blank <=> h = Blank
           /\ h # Blank => /\ Remembered(h, gone).age = h.age
                           /\ Remembered(h, gone).of \in {h.of, Blank}
                           /\ Remembered(h, gone).of \notin gone \/ Remembered(h, gone).of = Blank
<1>1. CASE h = Blank \/ h.of \notin gone
  BY <1>1 DEF Remembered, Answered
<1>2. CASE h # Blank /\ h.of \in gone
  <2>1. Remembered(h, gone) = [h EXCEPT !.of = Blank]
    BY <1>2 DEF Remembered
  <2>2. [h EXCEPT !.of = Blank] = [of |-> Blank, age |-> h.age]
    BY <1>2 DEF Answered
  <2>3. [of |-> Blank, age |-> h.age] \in Answered
    BY <1>2 DEF Answered
  <2>. QED
    BY <1>2, <2>1, <2>2, <2>3, SupervisionAssumption
<1>. QED
  BY <1>1, <1>2

(* The steps that end processes.                                           *)
LEMMA EndTypes ==
    ASSUME TypeOK, NEW gone \in SUBSET Processes, End(gone)
    PROVE  /\ engines' \in [Processes -> EngineFields]
           /\ \A p \in gone : engines'[p] = Gone
           /\ \A p \in Processes \ gone : engines'[p] = engines[p]
  BY Engines, GoneIsAnEngine DEF End

LEMMA ExitTypes ==
    ASSUME TypeOK, NEW p \in Processes, Exit(p) PROVE TypeOK'
<1>1. engines' \in [Processes -> EngineFields]
  BY EndTypes DEF Exit
<1>2. health' \in [Watchdogs -> Answered \cup {Blank}]
  BY RememberedType DEF Exit, TypeOK
<1>3. UNCHANGED <<watchdog, spared, due, terminal, taskPending, engineTask, utcOffset>>
  BY DEF Exit, setup
<1>4. faults' \in 0..MaxFaults
  BY SupervisionAssumption DEF Exit, Fault, TypeOK
<1>. QED
  BY <1>1, <1>2, <1>3, <1>4 DEF TypeOK, EngineFields

LEMMA AgedType ==
    ASSUME NEW e \in EngineFields
    PROVE  /\ Aged(e) \in EngineFields
           /\ Aged(e).state = e.state /\ Aged(e).by = e.by
           /\ e.state = "running" /\ e.age \in {Blank, 0} => Aged(e).age \in {Blank, 0}
           /\ e.age = Blank => Aged(e).age = Blank
<1>1. CASE e.age = Blank
  BY <1>1 DEF Aged
<1>2. CASE e.age # Blank
  <2>1. PICK a \in 0..MaxAge : Aged(e) = [e EXCEPT !.age = a] /\ (e.state = "running" => a = 0)
    <3>1. e.age \in 0..MaxAge /\ 0 \in 0..MaxAge
      BY <1>2, SupervisionAssumption DEF EngineFields
    <3>2. CASE e.state = "running"
      BY <1>2, <3>1, <3>2 DEF Aged, EngineFields
    <3>3. CASE e.state # "running" /\ e.age < MaxAge
      <4>1. e.age + 1 \in 0..MaxAge
        BY <3>1, <3>3, SupervisionAssumption
      <4>. QED
        BY <1>2, <3>1, <3>3, <4>1, SupervisionAssumption DEF Aged, EngineFields
    <3>4. CASE e.state # "running" /\ ~(e.age < MaxAge)
      BY <1>2, <3>1, <3>4, SupervisionAssumption DEF Aged, EngineFields
    <3>. QED
      BY <3>2, <3>3, <3>4
  <2>. QED
    BY <1>2, <2>1 DEF EngineFields
<1>. QED
  BY <1>1, <1>2

LEMMA IntervalTypes ==
    ASSUME TypeOK, IntervalPasses PROVE TypeOK'
<1>1. engines' \in [Processes -> EngineFields]
  BY Engines, AgedType DEF IntervalPasses
<1>2. due' \subseteq Watchdogs /\ watchdog' \in [Watchdogs -> Checks]
  BY DEF IntervalPasses, Asleep, Unborn, TypeOK, Checks
<1>3. UNCHANGED <<health, spared, terminal, engineTask, utcOffset, faults>>
  BY DEF IntervalPasses, setup
<1>4. taskPending' \in BOOLEAN
  BY DEF IntervalPasses
<1>. QED
  BY <1>1, <1>2, <1>3, <1>4 DEF TypeOK, EngineFields

LEMMA KillTypes ==
    ASSUME TypeOK, NEW w \in Watchdogs, KillStale(w) \/ KillDenied(w) PROVE TypeOK'
<1>1. PICK survivors : Kill(w, survivors)
  BY DEF KillStale, KillDenied
<1>. DEFINE gone == {p \in Processes : Visible(p)} \ survivors
<1>2. engines' \in [Processes -> EngineFields]
  BY <1>1, EndTypes DEF Kill
<1>3. health' \in [Watchdogs -> Answered \cup {Blank}]
  BY <1>1, RememberedType DEF Kill, TypeOK
<1>4. /\ watchdog' = [watchdog EXCEPT ![w] = "start"]
      /\ UNCHANGED <<due, terminal, taskPending, engineTask, utcOffset>>
  BY <1>1 DEF Kill, Goto, setup
<1>5. spared' \in Nat /\ faults' \in 0..MaxFaults
  <2>1. CASE KillStale(w)
    BY <2>1 DEF KillStale, TypeOK
  <2>2. CASE KillDenied(w)
    BY <2>2, SupervisionAssumption DEF KillDenied, Fault, TypeOK
  <2>. QED
    BY <2>1, <2>2
<1>. QED
  BY <1>2, <1>3, <1>4, <1>5 DEF TypeOK, EngineFields, Checks

LEMMA AnswerType ==
    ASSUME TypeOK, NEW answer \in Answers \cup {Blank}
    PROVE  answer \in Answered \cup {Blank}
  BY Engines DEF Answers, Serving, Answered, EngineFields

LEMMA CheckTypes ==
    ASSUME TypeOK, NEW w \in Watchdogs,
           \/ Wake(w) \/ EnsureTerminal(w) \/ TerminalStaysDown(w) \/ GetHealth(w)
           \/ HealthTimesOut(w) \/ Probe(w) \/ StartEngine(w) \/ CheckFails(w) \/ WatchdogDies(w)
    PROVE  TypeOK'
<1>1. engines' \in [Processes -> EngineFields]
  <2>1. CASE StartEngine(w)
    BY <2>1, Engines DEF StartEngine, Launch, Engine, EngineFields, States
  <2>2. CASE ~StartEngine(w)
    <3>1. engines' = engines
      BY <2>2 DEF Wake, EnsureTerminal, TerminalStaysDown, GetHealth, HealthTimesOut, Probe,
                  CheckFails, WatchdogDies
    <3>. QED
      BY <3>1, Engines
  <2>. QED
    BY <2>1, <2>2
<1>2. watchdog' \in [Watchdogs -> Checks]
  <2>1. PICK step \in Checks : Goto(w, step)
    BY DEF Wake, EnsureTerminal, TerminalStaysDown, GetHealth, HealthTimesOut, Probe, StartEngine,
           CheckFails, WatchdogDies, Act, Verdict, Checks
  <2>. QED
    BY <2>1 DEF Goto, TypeOK
<1>3. health' \in [Watchdogs -> Answered \cup {Blank}]
  <2>1. CASE GetHealth(w) \/ HealthTimesOut(w)
    <3>1. PICK answer \in Answers \cup {Blank} : Act(w, answer)
      BY <2>1 DEF GetHealth, HealthTimesOut
    <3>. QED
      BY <3>1, AnswerType DEF Act, TypeOK
  <2>2. CASE CheckFails(w) \/ WatchdogDies(w)
    BY <2>2 DEF CheckFails, WatchdogDies, TypeOK
  <2>3. CASE Wake(w) \/ EnsureTerminal(w) \/ TerminalStaysDown(w) \/ Probe(w) \/ StartEngine(w)
    BY <2>3 DEF Wake, EnsureTerminal, TerminalStaysDown, Probe, StartEngine, TypeOK
  <2>. QED
    BY <2>1, <2>2, <2>3
<1>4. terminal' \in [running : BOOLEAN, saved : BOOLEAN]
  <2>1. CASE EnsureTerminal(w)
    BY <2>1 DEF EnsureTerminal, TerminalEnsured, TypeOK
  <2>2. CASE ~EnsureTerminal(w)
    BY <2>2 DEF Wake, TerminalStaysDown, GetHealth, HealthTimesOut, Probe, StartEngine, CheckFails,
                WatchdogDies, TypeOK
  <2>. QED
    BY <2>1, <2>2
<1>5. /\ due' \subseteq due
      /\ UNCHANGED <<spared, taskPending, engineTask, utcOffset>>
  BY DEF Wake, EnsureTerminal, TerminalStaysDown, GetHealth, HealthTimesOut, Probe, StartEngine,
         CheckFails, WatchdogDies, setup
<1>6. faults' \in 0..MaxFaults
  <2>1. faults' = faults \/ Fault
    BY DEF Wake, EnsureTerminal, TerminalStaysDown, GetHealth, HealthTimesOut, Probe, StartEngine,
           CheckFails, WatchdogDies
  <2>. QED
    BY <2>1, SupervisionAssumption DEF Fault, TypeOK
<1>. QED
  BY <1>1, <1>2, <1>3, <1>4, <1>5, <1>6 DEF TypeOK, EngineFields

LEMMA TypeNext ==
    ASSUME TypeOK, [Next]_vars PROVE TypeOK'
<1>1. CASE \E p \in Processes : EngineTaskFires(p) \/ Startup(p) \/ Hang(p)
  BY <1>1, EngineTypes DEF Startup
<1>2. CASE \E p \in Processes : Exit(p)
  BY <1>2, ExitTypes
<1>3. CASE TerminalDies
  <2>1. /\ terminal' \in [running : BOOLEAN, saved : BOOLEAN]
        /\ UNCHANGED <<health, spared, engines, watchdog, due, taskPending, engineTask, utcOffset>>
    BY <1>3 DEF TerminalDies, TypeOK, setup
  <2>2. faults' \in 0..MaxFaults
    BY <1>3, SupervisionAssumption DEF TerminalDies, Fault, TypeOK
  <2>. QED
    BY <2>1, <2>2 DEF TypeOK
<1>4. CASE IntervalPasses
  BY <1>4, IntervalTypes
<1>5. CASE \E w \in Watchdogs : KillStale(w) \/ KillDenied(w)
  BY <1>5, KillTypes
<1>6. CASE \E w \in Watchdogs :
              \/ Wake(w) \/ EnsureTerminal(w) \/ TerminalStaysDown(w) \/ GetHealth(w)
              \/ HealthTimesOut(w) \/ Probe(w) \/ StartEngine(w) \/ CheckFails(w)
              \/ WatchdogDies(w)
  BY <1>6, CheckTypes
<1>7. CASE UNCHANGED vars
  BY <1>7 DEF vars, setup, TypeOK
<1>. QED
  BY <1>1, <1>2, <1>3, <1>4, <1>5, <1>6, <1>7 DEF Next, Check

-----------------------------------------------------------------------------
(* The bound on visible engines is kept because an instance about to start *)
(* one is counted already: it saw no engine when it came to its start, or  *)
(* was denied a kill.  An engine task that is not late fires before there  *)
(* is any instance.                                                        *)
Starts == {w \in Watchdogs : watchdog[w] = "start"}
Late == IF LateTask THEN 1 ELSE 0
Pending == IF LateTask /\ taskPending THEN 1 ELSE 0

StartsBounded ==
    Cardinality(Sighted) + Cardinality(Starts) + Pending
        <= Cardinality(Watchdogs) + spared + Late

NothingBeforeTask ==
    taskPending /\ ~LateTask => /\ \A p \in Processes : ~Alive(p)
                               /\ \A w \in Watchdogs : watchdog[w] = "unborn"

BoundInv == StartsBounded /\ NothingBeforeTask

LEMMA Counts ==
    /\ IsFiniteSet(Sighted) /\ Cardinality(Sighted) \in Nat
    /\ IsFiniteSet(Starts) /\ Cardinality(Starts) \in Nat
    /\ Cardinality(Starts) <= Cardinality(Watchdogs)
    /\ IsFiniteSet(Watchdogs) /\ Cardinality(Watchdogs) \in Nat \ {0}
<1>1. Sighted \subseteq Processes /\ Starts \subseteq Watchdogs
  BY DEF Sighted, Starts
<1>2. IsFiniteSet(Processes) /\ IsFiniteSet(Watchdogs) /\ Watchdogs # {}
  BY SupervisionAssumption
<1>. QED
  BY <1>1, <1>2, FS_Subset, FS_CardinalityType, FS_EmptySet

(* One element more, and one less.                                         *)
LEMMA OneMore ==
    ASSUME NEW S, NEW T, NEW x, IsFiniteSet(S), T \subseteq S \cup {x}
    PROVE  IsFiniteSet(T) /\ Cardinality(T) <= Cardinality(S) + 1
<1>1. IsFiniteSet(S \cup {x}) /\ Cardinality(S \cup {x}) <= Cardinality(S) + 1
  <2>1. Cardinality(S) \in Nat
    BY FS_CardinalityType
  <2>2. /\ IsFiniteSet(S \cup {x})
        /\ Cardinality(S \cup {x}) = IF x \in S THEN Cardinality(S) ELSE Cardinality(S) + 1
    BY FS_AddElement
  <2>. QED
    BY <2>1, <2>2
<1>2. IsFiniteSet(T) /\ Cardinality(T) <= Cardinality(S \cup {x})
  BY <1>1, FS_Subset
<1>. QED
  BY <1>1, <1>2, FS_CardinalityType

LEMMA BoundInit == Init => BoundInv
<1> SUFFICES ASSUME Init PROVE BoundInv
  OBVIOUS
<1>1. engines = [p \in Processes |-> Gone] /\ watchdog = [w \in Watchdogs |-> "unborn"]
  BY DEF Init
<1>2. \A p \in Processes : ~Alive(p)
  BY <1>1, GoneIsAnEngine DEF Alive
<1>3. Sighted = {} /\ Starts = {}
  BY <1>1, <1>2 DEF Sighted, Visible, Starts
<1>4. spared = 0
  BY DEF Init
<1>. QED
  BY <1>1, <1>2, <1>3, <1>4, Counts, FS_EmptySet
  DEF BoundInv, StartsBounded, NothingBeforeTask, Pending, Late

(* Steps after which nothing more is visible or about to start.            *)
LEMMA NothingAppears ==
    ASSUME TypeOK, StartsBounded, Sighted' \subseteq Sighted, Starts' \subseteq Starts,
           taskPending' => taskPending, spared' = spared
    PROVE  StartsBounded'
<1>1. Cardinality(Sighted') <= Cardinality(Sighted) /\ Cardinality(Starts') <= Cardinality(Starts)
  BY Counts, FS_Subset
<1>2. Cardinality(Sighted') \in Nat /\ Cardinality(Starts') \in Nat
  BY Counts, FS_Subset, FS_CardinalityType
<1>3. Pending' <= Pending /\ Pending \in Nat /\ Pending' \in Nat
  BY DEF Pending
<1>. QED
  BY <1>1, <1>2, <1>3, Counts DEF StartsBounded, TypeOK, Late

(* An instance comes to its start and sees no engine.                      *)
LEMMA NoneSeen ==
    ASSUME TypeOK', Sighted' = {} PROVE StartsBounded'
<1>1. Cardinality(Starts') <= Cardinality(Watchdogs) /\ Cardinality(Starts') \in Nat
  BY SupervisionAssumption, FS_Subset, FS_CardinalityType DEF Starts
<1>2. Cardinality(Sighted') = 0
  BY FS_EmptySet
<1>. QED
  BY <1>1, <1>2, Counts DEF StartsBounded, TypeOK, Pending, Late

LEMMA EngineBound ==
    ASSUME TypeOK, BoundInv, NEW p \in Processes,
           BindHealth(p) \/ EnterLoop(p) \/ Hang(p) \/ Exit(p)
    PROVE  BoundInv'
<1>1. UNCHANGED <<watchdog, taskPending, engineTask, spared>>
  BY DEF BindHealth, EnterLoop, Hang, Exit, setup
<1>2. \A q \in Processes : Alive(q)' => Alive(q) /\ engines'[q].by = engines[q].by
  <2>1. CASE Exit(p)
    BY <2>1, EndTypes, GoneIsAnEngine DEF Exit, Alive
  <2>2. CASE BindHealth(p) \/ EnterLoop(p) \/ Hang(p)
    BY <2>2, EngineGoesOn, Engines DEF Alive
  <2>. QED
    BY <2>1, <2>2
<1>3. Sighted' \subseteq Sighted
  BY <1>1, <1>2 DEF Sighted, Visible
<1>4. Starts' = Starts
  BY <1>1 DEF Starts
<1>. QED
  BY <1>1, <1>2, <1>3, <1>4, NothingAppears DEF BoundInv, NothingBeforeTask

(* The engine task fires: in time into an empty system, or counted as late.*)
LEMMA TaskBound ==
    ASSUME TypeOK, TypeOK', BoundInv, NEW p \in Processes, EngineTaskFires(p)
    PROVE  BoundInv'
<1>1. /\ taskPending /\ ~taskPending' /\ UNCHANGED <<watchdog, spared, engineTask>>
      /\ engines' = [engines EXCEPT ![p] = Engine("starting", "task")]
  BY DEF EngineTaskFires, Launch, setup
<1>2. Sighted' \subseteq Sighted \cup {p} /\ Starts' = Starts
  BY <1>1, Engines DEF Sighted, Visible, Alive, Starts
<1>3. Cardinality(Sighted') <= Cardinality(Sighted) + 1 /\ Cardinality(Sighted') \in Nat
  BY <1>2, OneMore, Counts, FS_CardinalityType
<1>4. CASE LateTask
  <2>1. Pending = 1 /\ Pending' = 0
    BY <1>1, <1>4 DEF Pending
  <2>2. StartsBounded'
    BY <1>1, <1>2, <1>3, <2>1, Counts DEF BoundInv, StartsBounded, TypeOK, Late
  <2>. QED
    BY <1>1, <2>2 DEF BoundInv, NothingBeforeTask
<1>5. CASE ~LateTask
  <2>1. Sighted = {} /\ Starts = {}
    BY <1>1, <1>5 DEF BoundInv, NothingBeforeTask, Sighted, Visible, Starts
  <2>2. Cardinality(Sighted) = 0 /\ Cardinality(Starts) = 0
    BY <2>1, FS_EmptySet
  <2>3. StartsBounded'
    BY <1>1, <1>2, <1>3, <1>5, <2>2, Counts DEF StartsBounded, TypeOK, Late, Pending
  <2>. QED
    BY <1>1, <2>3 DEF BoundInv, NothingBeforeTask
<1>. QED
  BY <1>4, <1>5

LEMMA IntervalBound ==
    ASSUME TypeOK, BoundInv, IntervalPasses PROVE BoundInv'
<1>1. /\ engines' = [p \in Processes |-> Aged(engines[p])]
      /\ UNCHANGED <<engineTask, spared>>
  BY DEF IntervalPasses, setup
<1>2. taskPending' => taskPending /\ LateTask
  BY DEF IntervalPasses
<1>3. Starts' \subseteq Starts
  BY DEF IntervalPasses, Starts, TypeOK
<1>4. Sighted' \subseteq Sighted
  BY <1>1, Engines, AgedType DEF Sighted, Visible, Alive
<1>. QED
  BY <1>1, <1>2, <1>3, <1>4, NothingAppears DEF BoundInv, NothingBeforeTask

(* An instance has acted: the task has fired or is late.                   *)
LEMMA Born ==
    ASSUME BoundInv, NEW w \in Watchdogs, watchdog[w] # "unborn", taskPending' = taskPending
    PROVE  NothingBeforeTask'
  BY DEF BoundInv, NothingBeforeTask

LEMMA KillBound ==
    ASSUME TypeOK, TypeOK', BoundInv, NEW w \in Watchdogs, KillStale(w) \/ KillDenied(w)
    PROVE  BoundInv'
<1>1. PICK survivors : Kill(w, survivors) /\ (survivors = {} \/ KillDenied(w))
  BY DEF KillStale, KillDenied
<1>. DEFINE gone == {p \in Processes : Visible(p)} \ survivors
<1>2. /\ watchdog[w] = "kill" /\ watchdog' = [watchdog EXCEPT ![w] = "start"]
      /\ UNCHANGED <<taskPending, engineTask>>
  BY <1>1 DEF Kill, At, Goto, setup
<1>3. NothingBeforeTask'
  BY <1>2, Born
<1>4. /\ \A p \in gone : engines'[p] = Gone
      /\ \A p \in Processes \ gone : engines'[p] = engines[p]
  BY <1>1, EndTypes DEF Kill
<1>5. Sighted' \subseteq Sighted \cap survivors
  BY <1>2, <1>4, GoneIsAnEngine DEF Sighted, Visible, Alive
<1>6. CASE survivors = {}
  BY <1>3, <1>5, <1>6, NoneSeen DEF BoundInv
<1>7. CASE KillDenied(w)
  <2>1. spared' = spared + 1
    BY <1>7 DEF KillDenied
  <2>2. Starts' \subseteq Starts \cup {w}
    BY <1>2 DEF Starts, TypeOK
  <2>3. Cardinality(Starts') <= Cardinality(Starts) + 1 /\ Cardinality(Starts') \in Nat
    BY <2>2, OneMore, Counts, FS_CardinalityType
  <2>4. Cardinality(Sighted') <= Cardinality(Sighted) /\ Cardinality(Sighted') \in Nat
    BY <1>5, Counts, FS_Subset, FS_CardinalityType
  <2>5. Pending' = Pending /\ Pending \in Nat
    BY <1>2 DEF Pending
  <2>. QED
    BY <1>3, <2>1, <2>3, <2>4, <2>5, Counts DEF BoundInv, StartsBounded, TypeOK, Late
<1>. QED
  BY <1>1, <1>6, <1>7

LEMMA StartBound ==
    ASSUME TypeOK, BoundInv, NEW w \in Watchdogs, StartEngine(w) PROVE BoundInv'
<1>1. /\ watchdog[w] = "start" /\ watchdog' = [watchdog EXCEPT ![w] = "asleep"]
      /\ UNCHANGED <<taskPending, engineTask, spared>>
  BY DEF StartEngine, At, Goto, setup
<1>2. PICK p \in Processes : engines' = [engines EXCEPT ![p] = Engine("starting", "watchdog")]
  BY DEF StartEngine, Launch
<1>3. Sighted' \subseteq Sighted \cup {p}
  BY <1>1, <1>2, Engines DEF Sighted, Visible, Alive
<1>4. Cardinality(Sighted') <= Cardinality(Sighted) + 1 /\ Cardinality(Sighted') \in Nat
  BY <1>3, OneMore, Counts, FS_CardinalityType
<1>5. Starts' = Starts \ {w} /\ w \in Starts
  BY <1>1 DEF Starts, TypeOK
<1>6. Cardinality(Starts') = Cardinality(Starts) - 1
  BY <1>5, Counts, FS_RemoveElement
<1>7. StartsBounded'
  BY <1>1, <1>4, <1>6, Counts DEF BoundInv, StartsBounded, TypeOK, Pending, Late
<1>. QED
  BY <1>1, <1>7, Born DEF BoundInv

LEMMA CheckBound ==
    ASSUME TypeOK, TypeOK', BoundInv, NEW w \in Watchdogs,
           \/ Wake(w) \/ EnsureTerminal(w) \/ TerminalStaysDown(w) \/ GetHealth(w)
           \/ HealthTimesOut(w) \/ Probe(w) \/ CheckFails(w) \/ WatchdogDies(w)
    PROVE  BoundInv'
<1>1. UNCHANGED <<engines, taskPending, engineTask, spared>> /\ watchdog[w] # "unborn"
  BY DEF Wake, EnsureTerminal, TerminalStaysDown, GetHealth, HealthTimesOut, Probe, CheckFails,
         WatchdogDies, At, setup
<1>2. NothingBeforeTask'
  BY <1>1, Born
<1>3. Sighted' = Sighted
  BY <1>1 DEF Sighted, Visible, Alive
<1>4. CASE Probe(w) /\ ~EngineIsRunning
  <2>1. Sighted' = {}
    BY <1>3, <1>4 DEF EngineIsRunning, Sighted
  <2>. QED
    BY <1>2, <2>1, NoneSeen DEF BoundInv
<1>5. CASE ~(Probe(w) /\ ~EngineIsRunning)
  <2>1. PICK step : Goto(w, step) /\ step # "start"
    BY <1>5 DEF Wake, EnsureTerminal, TerminalStaysDown, GetHealth, HealthTimesOut, Probe,
                CheckFails, WatchdogDies, Act, Verdict
  <2>2. Starts' \subseteq Starts
    BY <2>1 DEF Goto, Starts, TypeOK
  <2>. QED
    BY <1>1, <1>2, <1>3, <2>2, NothingAppears DEF BoundInv
<1>. QED
  BY <1>4, <1>5

LEMMA BoundNext ==
    ASSUME TypeOK, TypeOK', BoundInv, [Next]_vars PROVE BoundInv'
<1>1. CASE \E p \in Processes : EngineTaskFires(p)
  BY <1>1, TaskBound
<1>2. CASE \E p \in Processes : Startup(p) \/ Exit(p) \/ Hang(p)
  BY <1>2, EngineBound DEF Startup
<1>3. CASE TerminalDies \/ UNCHANGED vars
  <2>1. UNCHANGED <<engines, watchdog, taskPending, engineTask, spared>>
    BY <1>3 DEF TerminalDies, vars, setup
  <2>. QED
    BY <2>1 DEF BoundInv, StartsBounded, NothingBeforeTask, Sighted, Visible, Alive, Starts, Pending,
                Late
<1>4. CASE IntervalPasses
  BY <1>4, IntervalBound
<1>5. CASE \E w \in Watchdogs : KillStale(w) \/ KillDenied(w)
  BY <1>5, KillBound
<1>6. CASE \E w \in Watchdogs : StartEngine(w)
  BY <1>6, StartBound
<1>7. CASE \E w \in Watchdogs :
              \/ Wake(w) \/ EnsureTerminal(w) \/ TerminalStaysDown(w) \/ GetHealth(w)
              \/ HealthTimesOut(w) \/ Probe(w) \/ CheckFails(w) \/ WatchdogDies(w)
  BY <1>7, CheckBound
<1>. QED
  BY <1>1, <1>2, <1>3, <1>4, <1>5, <1>6, <1>7 DEF Next, Check

(* Through any crashes, hangs, failed checks, denied kills and instances   *)
(* of the watchdog started in parallel, the engines it can see are never   *)
(* more than its instances, the kills it was denied and a late engine task *)
(* (watchdog.py, _engine_is_running, main and _start_engine).              *)
THEOREM EnginesBoundedHolds == Spec => []EnginesBounded
<1>1. TypeOK /\ BoundInv => EnginesBounded
  BY Counts DEF BoundInv, StartsBounded, EnginesBounded, TypeOK, Late, Pending
<1>2. Init => TypeOK /\ BoundInv
  BY TypeInit, BoundInit
<1>3. TypeOK /\ BoundInv /\ [Next]_vars => (TypeOK /\ BoundInv)'
  BY TypeNext, BoundNext
<1>. QED
  BY <1>1, <1>2, <1>3, PTL DEF Spec

-----------------------------------------------------------------------------
(* Only the heartbeat of a hung engine grows old, and a hung engine stays  *)
(* hung: an instance about to kill on a stale answer was answered by an    *)
(* engine that hangs, has ended, or had not beaten yet.                    *)
OnlyHungAge ==
    \A p \in Processes :
        /\ engines[p].state \in {"absent", "starting", "connecting"} => engines[p].age = Blank
        /\ engines[p].state = "running" => engines[p].age \in {Blank, 0}

KillsJustified ==
    \A w \in Watchdogs : watchdog[w] = "kill" =>
        /\ health[w] # Blank
        /\ health[w].age # Blank =>
              /\ health[w].age > StaleAfter
              /\ health[w].of \in Processes => engines[health[w].of].state = "hung"

KillInv == OnlyHungAge /\ KillsJustified

LEMMA KillInvInit == Init => KillInv
  BY GoneIsAnEngine DEF Init, KillInv, OnlyHungAge, KillsJustified

(* Steps of an engine: none but a crash changes what an instance was told. *)
LEMMA EngineKill ==
    ASSUME TypeOK, KillInv, NEW p \in Processes,
           EngineTaskFires(p) \/ BindHealth(p) \/ EnterLoop(p) \/ Hang(p)
    PROVE  KillInv'
<1>1. UNCHANGED <<health, watchdog>>
  BY DEF EngineTaskFires, BindHealth, EnterLoop, Hang
<1>2. engines[p].state # "hung"
  BY EngineGoesOn, GoneIsAnEngine DEF EngineTaskFires, Launch
<1>3. \A q \in Processes : q # p => engines'[q] = engines[q]
  BY EngineGoesOn, Engines DEF EngineTaskFires, Launch
<1>4. OnlyHungAge'
  <2>1. CASE EngineTaskFires(p)
    BY <1>3, <2>1, Engines DEF EngineTaskFires, Launch, Engine, KillInv, OnlyHungAge
  <2>2. CASE BindHealth(p) \/ EnterLoop(p) \/ Hang(p)
    BY <1>3, <2>2, EngineGoesOn, Engines DEF KillInv, OnlyHungAge
  <2>. QED
    BY <2>1, <2>2
<1>. QED
  BY <1>1, <1>2, <1>3, <1>4 DEF KillInv, KillsJustified

(* Processes end: an instance that goes on to its kill has forgotten them. *)
LEMMA EndKill ==
    ASSUME TypeOK, KillInv, NEW gone \in SUBSET Processes, End(gone),
           \A w \in Watchdogs : watchdog'[w] = "kill" =>
              watchdog[w] = "kill" /\ health'[w] = Remembered(health[w], gone)
    PROVE  KillInv'
<1>1. OnlyHungAge'
  BY EndTypes, GoneIsAnEngine DEF KillInv, OnlyHungAge
<1>2. ASSUME NEW w \in Watchdogs, watchdog'[w] = "kill"
      PROVE  /\ health'[w] # Blank
             /\ health'[w].age # Blank =>
                   /\ health'[w].age > StaleAfter
                   /\ health'[w].of \in Processes => engines'[health'[w].of].state = "hung"
  <2>1. watchdog[w] = "kill" /\ health'[w] = Remembered(health[w], gone)
    BY <1>2
  <2>2. /\ health[w] \in Answered /\ health[w] # Blank
        /\ health[w].age # Blank =>
              /\ health[w].age > StaleAfter
              /\ health[w].of \in Processes => engines[health[w].of].state = "hung"
    BY <2>1 DEF KillInv, KillsJustified, TypeOK
  <2>3. /\ health'[w] # Blank /\ health'[w].age = health[w].age
        /\ health'[w].of \in {health[w].of, Blank}
        /\ health'[w].of \notin gone \/ health'[w].of = Blank
    BY <2>1, <2>2, RememberedType
  <2>4. Blank \notin Processes
    BY SupervisionAssumption
  <2>. QED
    BY <2>2, <2>3, <2>4, EndTypes
<1>. QED
  BY <1>1, <1>2 DEF KillInv, KillsJustified

LEMMA ExitKill ==
    ASSUME TypeOK, KillInv, NEW p \in Processes, Exit(p) PROVE KillInv'
  BY EndKill DEF Exit

LEMMA DeniedKill ==
    ASSUME TypeOK, KillInv, NEW w \in Watchdogs, KillStale(w) \/ KillDenied(w) PROVE KillInv'
<1>1. PICK survivors : Kill(w, survivors)
  BY DEF KillStale, KillDenied
<1>. DEFINE gone == {p \in Processes : Visible(p)} \ survivors
<1>2. End(gone) /\ gone \in SUBSET Processes
  BY <1>1 DEF Kill
<1>3. /\ watchdog' = [watchdog EXCEPT ![w] = "start"]
      /\ \A v \in Watchdogs : v # w => health'[v] = Remembered(health[v], gone)
  BY <1>1 DEF Kill, Goto
<1>. HIDE DEF gone
<1>. QED
  BY <1>2, <1>3, EndKill DEF TypeOK

LEMMA IntervalKill ==
    ASSUME TypeOK, KillInv, IntervalPasses PROVE KillInv'
<1>1. engines' = [p \in Processes |-> Aged(engines[p])]
  BY DEF IntervalPasses
<1>2. \A w \in Watchdogs : watchdog'[w] # "kill"
  BY DEF IntervalPasses, Asleep, Unborn, TypeOK
<1>3. OnlyHungAge'
  BY <1>1, AgedType, Engines DEF KillInv, OnlyHungAge
<1>. QED
  BY <1>2, <1>3 DEF KillInv, KillsJustified

(* A check, at or east of UTC: a stale answer with a stamp comes from an   *)
(* engine that hangs.                                                      *)
LEMMA CheckKill ==
    ASSUME TypeOK, KillInv, NEW w \in Watchdogs, utcOffset >= 0,
           \/ Wake(w) \/ EnsureTerminal(w) \/ TerminalStaysDown(w) \/ GetHealth(w)
           \/ HealthTimesOut(w) \/ Probe(w) \/ StartEngine(w) \/ CheckFails(w) \/ WatchdogDies(w)
    PROVE  KillInv'
<1>1. CASE StartEngine(w)
  <2>1. PICK p \in Processes : /\ engines[p] = Gone
                               /\ engines' = [engines EXCEPT ![p] = Engine("starting", "watchdog")]
    BY <1>1 DEF StartEngine, Launch
  <2>2. health' = health /\ watchdog' = [watchdog EXCEPT ![w] = "asleep"]
    BY <1>1 DEF StartEngine, Goto
  <2>3. OnlyHungAge'
    BY <2>1, Engines DEF Engine, KillInv, OnlyHungAge
  <2>. QED
    BY <2>1, <2>2, <2>3, GoneIsAnEngine, Engines DEF KillInv, KillsJustified, TypeOK
<1>2. CASE ~StartEngine(w)
  <2>1. engines' = engines
    BY <1>2 DEF Wake, EnsureTerminal, TerminalStaysDown, GetHealth, HealthTimesOut, Probe,
                CheckFails, WatchdogDies
  <2>2. CASE GetHealth(w) \/ HealthTimesOut(w)
    <3>1. PICK answer \in Answers \cup {Blank} : Act(w, answer)
      BY <2>2 DEF GetHealth, HealthTimesOut
    <3>2. /\ \A v \in Watchdogs : v # w => health'[v] = health[v] /\ watchdog'[v] = watchdog[v]
          /\ watchdog'[w] = Verdict(answer)
          /\ Verdict(answer) = "kill" => health'[w] = answer
      BY <3>1 DEF Act, Goto, TypeOK
    <3>3. ASSUME Verdict(answer) = "kill", answer.age # Blank
          PROVE  answer.age > StaleAfter /\ engines[answer.of].state = "hung"
      <4>1. answer # Blank /\ Stale(answer.age)
        BY <3>3 DEF Verdict
      <4>2. answer.of \in Processes /\ answer.age = engines[answer.of].age
        BY <4>1 DEF Answers, Serving
      <4>3. answer.age \in Nat /\ utcOffset \in Int
        <5>1. engines[answer.of].age \in 0..MaxAge \cup {Blank}
          BY <4>2, Engines DEF EngineFields
        <5>2. utcOffset \in Int
          BY SupervisionAssumption DEF TypeOK
        <5>. QED
          BY <3>3, <4>2, <5>1, <5>2
      <4>4. answer.age > StaleAfter
        BY <3>3, <4>1, <4>3 DEF Stale, StaleAfter
      <4>5. engines[answer.of].state \in States
        BY <4>2, Engines DEF EngineFields
      <4>. QED
        BY <3>3, <4>2, <4>4, <4>5 DEF KillInv, OnlyHungAge, States, StaleAfter
    <3>4. Verdict(answer) = "kill" => answer # Blank
      BY DEF Verdict
    <3>. QED
      BY <2>1, <3>2, <3>3, <3>4 DEF KillInv, KillsJustified, OnlyHungAge
  <2>3. CASE ~(GetHealth(w) \/ HealthTimesOut(w))
    <3>1. PICK step : Goto(w, step) /\ step # "kill"
      BY <1>2, <2>3 DEF Wake, EnsureTerminal, TerminalStaysDown, Probe, CheckFails, WatchdogDies
    <3>2. \A v \in Watchdogs : v # w => health'[v] = health[v]
      BY <1>2, <2>3 DEF Wake, EnsureTerminal, TerminalStaysDown, Probe, CheckFails, WatchdogDies,
                        TypeOK
    <3>. QED
      BY <2>1, <3>1, <3>2 DEF Goto, TypeOK, KillInv, KillsJustified, OnlyHungAge
  <2>. QED
    BY <2>2, <2>3
<1>. QED
  BY <1>1, <1>2

LEMMA KillInvNext ==
    ASSUME TypeOK, KillInv, utcOffset >= 0, [Next]_vars PROVE KillInv'
<1>1. CASE \E p \in Processes : EngineTaskFires(p) \/ Startup(p) \/ Hang(p)
  BY <1>1, EngineKill DEF Startup
<1>2. CASE \E p \in Processes : Exit(p)
  BY <1>2, ExitKill
<1>3. CASE TerminalDies \/ UNCHANGED vars
  <2>1. UNCHANGED <<engines, watchdog, health>>
    BY <1>3 DEF TerminalDies, vars
  <2>. QED
    BY <2>1 DEF KillInv, OnlyHungAge, KillsJustified
<1>4. CASE IntervalPasses
  BY <1>4, IntervalKill
<1>5. CASE \E w \in Watchdogs : KillStale(w) \/ KillDenied(w)
  BY <1>5, DeniedKill
<1>6. CASE \E w \in Watchdogs :
              \/ Wake(w) \/ EnsureTerminal(w) \/ TerminalStaysDown(w) \/ GetHealth(w)
              \/ HealthTimesOut(w) \/ Probe(w) \/ StartEngine(w) \/ CheckFails(w)
              \/ WatchdogDies(w)
  BY <1>6, CheckKill
<1>. QED
  BY <1>1, <1>2, <1>3, <1>4, <1>5, <1>6 DEF Next, Check

(* Where local time is not behind UTC, no instance of the watchdog, however *)
(* many run and whatever kills were denied, ends a running engine on that  *)
(* engine's own stamp (_is_health_stale, main): what it acts on is ten     *)
(* minutes of silence of another engine, or an engine asked before its     *)
(* first beat.                                                             *)
THEOREM RunningEnginesSpared ==
    (\A o \in UtcOffsets : o >= 0) /\ Spec => RunningSpared
<1> SUFFICES ASSUME \A o \in UtcOffsets : o >= 0 PROVE Spec => RunningSpared
  OBVIOUS
<1>1. Init => TypeOK /\ KillInv
  BY TypeInit, KillInvInit
<1>2. TypeOK /\ KillInv /\ [Next]_vars => (TypeOK /\ KillInv)'
  BY TypeNext, KillInvNext DEF TypeOK
<1>3. ASSUME TypeOK, KillInv, NEW w \in Watchdogs, NEW p \in Processes,
             engines[p].state = "running", engines'[p] = Gone, KillStale(w) \/ KillDenied(w)
      PROVE  /\ health[w] # Blank
             /\ \/ health[w].age = Blank
                \/ health[w].age > StaleAfter /\ health[w].of # p
  <2>1. watchdog[w] = "kill"
    BY <1>3 DEF KillStale, KillDenied, Kill, At
  <2>. QED
    BY <1>3, <2>1 DEF KillInv, KillsJustified
<1>4. TypeOK /\ KillInv =>
          [\A w \in Watchdogs, p \in Processes :
             engines[p].state = "running" /\ engines'[p] = Gone /\ (KillStale(w) \/ KillDenied(w))
             => /\ health[w] # Blank
                /\ \/ health[w].age = Blank
                   \/ health[w].age > StaleAfter /\ health[w].of # p]_vars
  BY <1>3
<1>. QED
  BY <1>1, <1>2, <1>4, PTL DEF Spec, RunningSpared
=============================================================================
