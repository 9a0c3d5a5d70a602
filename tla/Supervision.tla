----------------------------- MODULE Supervision -----------------------------
(***************************************************************************)
(* Who keeps the engine alive: the scheduled tasks of setup/, the loop of  *)
(* watchdog.py and the health endpoint every engine process offers         *)
(* (core/health.py).                                                       *)
(*                                                                         *)
(* A check runs every CHECK_INTERVAL_SECONDS; time is counted in these     *)
(* intervals.  What an engine takes to start (three attempts of at most    *)
(* sixteen seconds, an alert of ten) is less than one of them, and so is   *)
(* a round of its loop.  An engine that hangs stays hung.                  *)
(***************************************************************************)
EXTENDS Integers, FiniteSets

CONSTANTS
    Processes,      \* process ids engines may get
    Watchdogs,      \* instances of watchdog.py there may be at a time
    EngineTasks,    \* how the engine task names main.py: "relative", "absolute"
    LateTask,       \* may it run after the watchdog's (no network at logon)?
    UtcOffsets,     \* hours local time is ahead of UTC, in intervals
    MaxFaults,      \* crashes, hangs and failed calls in a behaviour
    MaxAge,         \* largest silence counted
    Blank

StaleAfter == 2     \* 600 seconds

(* The answer of an engine: the process, Blank once it has ended, and the  *)
(* intervals since its last heartbeat, Blank before the first.             *)
Answered == [of : Processes \cup {Blank}, age : 0..MaxAge \cup {Blank}]

ASSUME SupervisionAssumption ==
    /\ EngineTasks \subseteq {"relative", "absolute"} /\ LateTask \in BOOLEAN
    /\ Processes \subseteq Nat /\ IsFiniteSet(Processes) /\ Blank \notin Nat \cup Answered
    /\ IsFiniteSet(Watchdogs) /\ Watchdogs # {}
    /\ UtcOffsets \subseteq Int
    /\ MaxFaults \in Nat
    /\ MaxAge \in Nat /\ \A o \in UtcOffsets : MaxAge > StaleAfter + o

VARIABLES
    engines,    \* the engine processes
    watchdog,   \* the instances of the watchdog and the step they are at
    health,     \* the stale answer each of them is about to act on, or Blank
    spared,     \* rounds of kills that left an engine alive
    due,        \* instances whose sleep has ended
    terminal,   \* terminal64.exe runs; .mt5_path holds its path
    engineTask, \* the command of the installed engine task
    taskPending,\* it has still to run
    utcOffset,
    faults

setup == <<engineTask, utcOffset>>
vars == <<engines, watchdog, health, spared, due, terminal, taskPending, setup, faults>>

States == {"absent", "starting", "connecting", "running", "hung"}
Checks == {"unborn", "asleep", "terminal", "health", "probe", "kill", "start"}

(* serves: this process answers on HEALTH_PORT; age: intervals since its   *)
(* last heartbeat, Blank before the first.                                 *)
Engine(state, by) == [state |-> state, by |-> by, serves |-> FALSE, age |-> Blank]
Gone == Engine("absent", Blank)

Alive(p) == engines[p].state # "absent"
(* The path of main.py the watchdog looks for is absolute: it is in the    *)
(* command line the watchdog itself writes, and not in the one of          *)
(* windows_task_engine.xml, which is relative.                             *)
Visible(p) == Alive(p) /\ (engines[p].by = "watchdog" \/ engineTask = "absolute")
Serving == {p \in Processes : engines[p].serves}

Init ==
    /\ engines = [p \in Processes |-> Gone]
    /\ watchdog = [w \in Watchdogs |-> "unborn"]
    /\ health = [w \in Watchdogs |-> Blank]
    /\ spared = 0
    /\ due = {}
    /\ terminal \in [running : BOOLEAN, saved : BOOLEAN]
    /\ engineTask \in EngineTasks
    /\ taskPending \in BOOLEAN
    /\ utcOffset \in UtcOffsets
    /\ faults = 0

-----------------------------------------------------------------------------
(* Engine processes.                                                       *)
(* Process ids are interchangeable: the lowest free one is taken.          *)
Launch(p, by) ==
    /\ engines[p] = Gone
    /\ \A q \in Processes : engines[q] = Gone => p <= q
    /\ engines' = [engines EXCEPT ![p] = Engine("starting", by)]

(* windows_task_engine.xml: once, a minute after logon and a minute before *)
(* the watchdog unless the network was missing.                            *)
EngineTaskFires(p) ==
    /\ taskPending
    /\ Launch(p, "task")
    /\ taskPending' = FALSE
    /\ UNCHANGED <<health, spared, watchdog, due, terminal, setup, faults>>

(* start_health_api: HTTPServer asks to reuse the address.  Whether a port *)
(* another engine holds can then be shared depends on the system; if not,  *)
(* this engine is without the endpoint for good.                           *)
BindHealth(p) ==
    /\ engines[p].state = "starting"
    /\ \E bound \in BOOLEAN :
          /\ Serving = {} => bound
          /\ engines' = [engines EXCEPT ![p].state = "connecting", ![p].serves = bound]
    /\ UNCHANGED <<health, spared, watchdog, due, terminal, taskPending, setup, faults>>

(* The connection, the approvals and Engine.__init__ succeed: the loop     *)
(* begins with its first heartbeat.                                        *)
EnterLoop(p) ==
    /\ engines[p].state = "connecting"
    /\ engines' = [engines EXCEPT ![p].state = "running", ![p].age = 0]
    /\ UNCHANGED <<health, spared, watchdog, due, terminal, taskPending, setup, faults>>

Fault == faults < MaxFaults /\ faults' = faults + 1

(* The processes gone answer for nothing any more: what an instance was    *)
(* told stays, of whom is forgotten with the process.                      *)
End(gone) ==
    engines' = [p \in Processes |-> IF p \in gone THEN Gone ELSE engines[p]]
Remembered(h, gone) == IF h # Blank /\ h.of \in gone THEN [h EXCEPT !.of = Blank] ELSE h

(* A refused startup or a crash.                                           *)
Exit(p) ==
    /\ Alive(p) /\ Fault
    /\ End({p})
    /\ health' = [w \in Watchdogs |-> Remembered(health[w], {p})]
    /\ UNCHANGED <<spared, watchdog, due, terminal, taskPending, setup>>

(* The loop blocks; the thread of the health endpoint goes on answering.   *)
Hang(p) ==
    /\ engines[p].state = "running" /\ Fault
    /\ engines' = [engines EXCEPT ![p].state = "hung"]
    /\ UNCHANGED <<health, spared, watchdog, due, terminal, taskPending, setup>>

TerminalDies ==
    /\ terminal.running /\ Fault
    /\ terminal' = [terminal EXCEPT !.running = FALSE]
    /\ UNCHANGED <<health, spared, engines, watchdog, due, taskPending, setup>>

-----------------------------------------------------------------------------
(* Five minutes pass: running engines have beaten, the sleeping instances  *)
(* wake, and the trigger of windows_task_watchdog.xml starts another one,  *)
(* MultipleInstancesPolicy being Parallel.                                 *)
Aged(e) ==
    IF e.age = Blank THEN e
    ELSE [e EXCEPT !.age = CASE e.state = "running" -> 0
                             [] e.state # "running" /\ @ < MaxAge -> @ + 1
                             [] e.state # "running" /\ @ >= MaxAge -> @]

Asleep == {w \in Watchdogs : watchdog[w] = "asleep"}
Unborn == {w \in Watchdogs : watchdog[w] = "unborn"}

Settled(p) == engines[p].by = "watchdog" => engines[p].state \notin {"starting", "connecting"}

IntervalPasses ==
    /\ Asleep \cup Unborn = Watchdogs /\ due = {}
    /\ \A p \in Processes : Settled(p)
    /\ engines' = [p \in Processes |-> Aged(engines[p])]
    /\ \/ /\ Unborn = {}
          /\ due' = Watchdogs
          /\ UNCHANGED watchdog
       \/ \E w \in Unborn :
             /\ due' = Asleep \cup {w}
             /\ watchdog' = [watchdog EXCEPT ![w] = "asleep"]
    /\ taskPending' = (taskPending /\ LateTask)
    /\ UNCHANGED <<health, spared, terminal, setup, faults>>

At(w, step) == watchdog[w] = step
Goto(w, step) == watchdog' = [watchdog EXCEPT ![w] = step]

Wake(w) ==
    /\ At(w, "asleep") /\ w \in due
    /\ due' = due \ {w}
    /\ Goto(w, "terminal")
    /\ UNCHANGED <<health, spared, engines, terminal, taskPending, setup, faults>>

(* Mutant: the file is opened for writing before the path is known.        *)
TerminalEnsured_ForgetsPath == [running |-> terminal.running, saved |-> terminal.running]

(* _ensure_mt5_running: remember the path of a running terminal, start one *)
(* from the path remembered.                                               *)
TerminalEnsured == [running |-> terminal.running \/ terminal.saved,
                    saved |-> terminal.running \/ terminal.saved]

EnsureTerminal(w) ==
    /\ At(w, "terminal")
    /\ terminal' = TerminalEnsured
    /\ Goto(w, "health")
    /\ UNCHANGED <<health, spared, engines, due, taskPending, setup, faults>>

(* The path remembered is gone, or Popen fails: an error is logged.        *)
TerminalStaysDown(w) ==
    /\ At(w, "terminal") /\ terminal.saved /\ ~terminal.running /\ Fault
    /\ Goto(w, "health")
    /\ UNCHANGED <<health, spared, engines, due, terminal, taskPending, setup>>

(* Mutant: the age of the heartbeat is not looked at.                      *)
Stale_MissingOnly(age) == age = Blank

(* _is_health_stale: the engine stamps local time without a zone and the   *)
(* watchdog reads it as UTC.                                               *)
Stale(age) == age = Blank \/ age - utcOffset > StaleAfter

(* _get_health: whoever holds the port answers, one of those that share it. *)
(* The start_time of the answer tells which.                               *)
Answers == IF Serving = {} THEN {Blank}
           ELSE {[of |-> p, age |-> engines[p].age] : p \in Serving}

(* Mutant: an engine that does not answer is treated as stale at once.     *)
Verdict_SilentIsStale(answer) == IF answer = Blank \/ Stale(answer.age)
                                 THEN "kill" ELSE "asleep"

(* The branch main() takes.                                                *)
Verdict(answer) == IF answer = Blank THEN "probe"
                   ELSE IF Stale(answer.age) THEN "kill" ELSE "asleep"

(* Only an answer that leads to a kill is of use later.                    *)
Act(w, answer) ==
    /\ health' = [health EXCEPT ![w] = IF Verdict(answer) = "kill" THEN answer ELSE Blank]
    /\ Goto(w, Verdict(answer))

GetHealth(w) ==
    /\ At(w, "health")
    /\ \E answer \in Answers : Act(w, answer)
    /\ UNCHANGED <<engines, spared, due, terminal, taskPending, setup, faults>>

(* The request takes longer than five seconds.                             *)
HealthTimesOut(w) ==
    /\ At(w, "health") /\ Fault
    /\ Act(w, Blank)
    /\ UNCHANGED <<engines, spared, due, terminal, taskPending, setup>>

(* Mutant: only a process that entered its loop counts.                    *)
EngineIsRunning_LoopOnly == \E p \in Processes : Visible(p) /\ engines[p].state = "hung"

(* _engine_is_running.                                                     *)
EngineIsRunning == \E p \in Processes : Visible(p)

Probe(w) ==
    /\ At(w, "probe")
    /\ Goto(w, IF EngineIsRunning THEN "asleep" ELSE "start")
    /\ UNCHANGED <<engines, health, spared, due, terminal, taskPending, setup, faults>>

(* The engines the loop over the processes ends, but for those it could    *)
(* not: AccessDenied and NoSuchProcess are passed over, and what follows    *)
(* is the start all the same.                                              *)
Kill(w, survivors) ==
    LET gone == {p \in Processes : Visible(p)} \ survivors
    IN  /\ At(w, "kill")
        /\ End(gone)
        /\ health' = [v \in Watchdogs |-> IF v = w THEN Blank ELSE Remembered(health[v], gone)]
        /\ Goto(w, "start")
        /\ UNCHANGED <<due, terminal, taskPending, setup>>

KillStale(w) == Kill(w, {}) /\ UNCHANGED <<spared, faults>>

KillDenied(w) ==
    /\ Fault
    /\ \E survivors \in SUBSET {p \in Processes : Visible(p)} \ {{}} : Kill(w, survivors)
    /\ spared' = spared + 1

(* _start_engine; with --mode demo and nothing of the earlier command line.*)
StartEngine(w) ==
    /\ At(w, "start")
    /\ \E p \in Processes : Launch(p, "watchdog")
    /\ Goto(w, "asleep")
    /\ UNCHANGED <<health, spared, due, terminal, taskPending, setup, faults>>

(* An exception ends the check, not the loop.                              *)
CheckFails(w) ==
    /\ watchdog[w] \notin {"unborn", "asleep"} /\ Fault
    /\ Goto(w, "asleep")
    /\ health' = [health EXCEPT ![w] = Blank]
    /\ UNCHANGED <<spared, engines, due, terminal, taskPending, setup>>

(* The instance itself ends; the trigger brings the next.                  *)
WatchdogDies(w) ==
    /\ watchdog[w] # "unborn" /\ Fault
    /\ Goto(w, "unborn")
    /\ due' = due \ {w}
    /\ health' = [health EXCEPT ![w] = Blank]
    /\ UNCHANGED <<spared, engines, terminal, taskPending, setup>>

-----------------------------------------------------------------------------
Check(w) == \/ Wake(w) \/ EnsureTerminal(w) \/ GetHealth(w) \/ Probe(w)
            \/ KillStale(w) \/ StartEngine(w)
Startup(p) == BindHealth(p) \/ EnterLoop(p)

Next ==
    \/ \E p \in Processes : EngineTaskFires(p) \/ Startup(p) \/ Exit(p) \/ Hang(p)
    \/ TerminalDies
    \/ IntervalPasses
    \/ \E w \in Watchdogs :
          \/ Check(w) \/ TerminalStaysDown(w) \/ HealthTimesOut(w) \/ KillDenied(w)
          \/ CheckFails(w) \/ WatchdogDies(w)

(* Time passes, the operating system runs every process, and startup ends. *)
Fairness ==
    /\ WF_vars(IntervalPasses)
    /\ \A w \in Watchdogs : WF_vars(Check(w))
    /\ \A p \in Processes : WF_vars(Startup(p))

Spec == Init /\ [][Next]_vars /\ Fairness

-----------------------------------------------------------------------------
(* Type correctness (every action).                                        *)
TypeOK ==
    /\ engines \in [Processes -> [state : States, by : {"task", "watchdog", Blank},
                                  serves : BOOLEAN, age : 0..MaxAge \cup {Blank}]]
    /\ watchdog \in [Watchdogs -> Checks]
    /\ health \in [Watchdogs -> Answered \cup {Blank}]
    /\ spared \in Nat
    /\ due \subseteq Watchdogs
    /\ terminal \in [running : BOOLEAN, saved : BOOLEAN]
    /\ taskPending \in BOOLEAN
    /\ engineTask \in EngineTasks
    /\ utcOffset \in UtcOffsets
    /\ faults \in 0..MaxFaults

(* Of the engines the watchdog can recognise there are never more than     *)
(* the instances of the watchdog, one more for every round of kills that   *)
(* was denied an engine and one for an engine task that ran late: no       *)
(* sequence of crashes, hangs, failed checks and restarts piles them up    *)
(* (_engine_is_running before _start_engine).  An engine more than one     *)
(* trades the same account on the same ledger.                             *)
Sighted == {p \in Processes : Visible(p)}
EnginesBounded ==
    Cardinality(Sighted) <= Cardinality(Watchdogs) + spared + (IF LateTask THEN 1 ELSE 0)

(* A running engine is never killed on its own account: the engine that    *)
(* answered the instance had been silent for more than ten minutes and was *)
(* another, or it had not beaten yet (_is_health_stale, main).             *)
RunningSpared ==
    [][\A w \in Watchdogs, p \in Processes :
         engines[p].state = "running" /\ engines'[p] = Gone /\ (KillStale(w) \/ KillDenied(w))
         => /\ health[w] # Blank
            /\ \/ health[w].age = Blank
               \/ health[w].age > StaleAfter /\ health[w].of # p]_vars

(* Once faults stop, some engine runs for good: one that crashed, refused  *)
(* to start or hangs is replaced.  The exceptions are an engine that hangs *)
(* and that the watchdog cannot see, which may keep the port so that each  *)
(* check kills the engine the last one started, and one that hangs without *)
(* the port, which no check tells from an engine that is starting.         *)
HungUnnoticed(p) ==
    engines[p].state = "hung" /\ (~Visible(p) \/ ~engines[p].serves)
EngineReturns ==
    <>[](\E p \in Processes : engines[p].state = "running" \/ HungUnnoticed(p))

(* A terminal whose path the watchdog has seen is started again.           *)
TerminalReturns == terminal.saved ~> terminal.running
=============================================================================
