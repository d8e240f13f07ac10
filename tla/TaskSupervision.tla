--------------------------- MODULE TaskSupervision ---------------------------
(***************************************************************************)
(* The services monitor: a task that gives the application StableTime      *)
(* ticks to report that it is up, and from then on looks every CheckRate   *)
(* ticks for a service that has not kicked its software watchdog, and      *)
(* cancels its thread.  Against it run the main thread (OranRrhAppControl, *)
(* AppServices), which starts the services and reports, and the services.  *)
(*                                                                         *)
(* Only services run for ever, so the task list's other entries, which     *)
(* both scans skip, are left out; so are mServiceDied and mServiceStuck,   *)
(* which are only logged, and allRunning with them.                        *)
(*                                                                         *)
(* Time: a period of the monitor is a second.  A service kicks once in     *)
(* each of its loops, and how long a loop takes is the service's own       *)
(* affair (Service.cpp takes any timer period and complains above 5 s):    *)
(* of a service that is well, at most Pace[s] ends of the monitor's        *)
(* periods fall between two kicks.  That is 1 for the 100 ms of            *)
(* YangMgrService and 2 for the 1000 ms of NetopeerMonService.             *)
(*                                                                         *)
(* The names are disjoint from ServiceControl's, which models one of the   *)
(* services from the inside: ServiceProofs extends both.                   *)
(***************************************************************************)
EXTENDS Integers, Sequences, FiniteSets

CONSTANTS
  Service,
  List,       \* the services in the order of the task list
  Started,    \* the services in the order of AppServices::mServices
  StableTime, \* APPLICATION_STABLE_TIME
  CheckRate,  \* SERVICE_CHECK_RATE
  Pace,       \* per service: the periods its loop may take
  None

(* Each service is once in each order. *)
ASSUME SupervisionAssumption ==
  /\ None \notin Service
  /\ \A order \in {List, Started} :
       /\ order \in Seq(Service)
       /\ \A s \in Service : \E i \in 1 .. Len(order) : order[i] = s
       /\ \A i, j \in 1 .. Len(order) : order[i] = order[j] => i = j
  /\ StableTime \in Nat \ {0}
  /\ CheckRate \in Nat \ {0}
  /\ Pace \in [Service -> Nat \ {0}]

VARIABLES
  main,       \* the main thread: monitor, starting, running
  next,       \* the next of Started to start
  mThread,    \* per service: none (0), live, dead (cancelled)
  health,     \* per service: well, blocked (where it can be cancelled), hog
  kicked,     \* per service: mKickCount differs from the entry's last one
  cancelled,  \* the services whose thread was sent a cancellation
  monitor,    \* the monitor's thread: none, start, wait, tick, late, check, cancel
  victim,     \* what checkStuckTask returned
  startup,    \* mStartupPhase
  stableCount,\* mApplicationStableCount
  checkCount, \* mServiceCheckCount
  appState,   \* mAppState
  notified, monitorWaiter, \* the monitor's mNotify
  quiet,      \* time: per service, the ends of periods since its last kick
  late,       \* history: the count ran out before the application was up
  faulty      \* history: the services that were ever not well

services == <<mThread, health, kicked, cancelled>>
app      == <<main, next>>
phase    == <<startup, stableCount, appState>>
wakeup   == <<notified, monitorWaiter>>
history  == <<late, faulty>>
supervision ==
  <<app, services, monitor, victim, phase, checkCount, wakeup, quiet, history>>

mMonitorNotify == INSTANCE TimedConditional WITH flag <- notified, waiter <- monitorWaiter

SupervisionInit ==
  /\ main = "monitor" /\ next = 1
  /\ mThread = [s \in Service |-> "none"]
  /\ health = [s \in Service |-> "well"]
  /\ kicked = [s \in Service |-> FALSE]
  /\ cancelled = {}
  /\ monitor = "none" /\ victim = None
  /\ startup = TRUE /\ stableCount = StableTime /\ appState = "INITIALISING"
  /\ checkCount = 0
  /\ mMonitorNotify!Initial
  /\ quiet = [s \in Service |-> 0]
  /\ late = FALSE /\ faulty = {}
-----------------------------------------------------------------------------
(* The main thread *)

(* Task::start: pthread_create may fail, which nobody is told. *)
StartMonitoring ==
  /\ main = "monitor" /\ main' = "starting"
  /\ monitor' \in {"start", "none"}
  /\ UNCHANGED <<next, services, victim, phase, checkCount, wakeup, quiet, history>>

(* Service::start, which does not look at what Task::start returns:        *)
(* pthread_create stores mThread before the thread runs, or fails.         *)
StartService ==
  /\ main = "starting" /\ next <= Len(Started)
  /\ \E thread \in {"live", "none"} :
       mThread' = [mThread EXCEPT ![Started[next]] = thread]
  /\ quiet' = [quiet EXCEPT ![Started[next]] = 0]
  /\ next' = next + 1
  /\ UNCHANGED <<main, health, kicked, cancelled, monitor, victim, phase, checkCount,
                 wakeup, history>>

ApplicationStable ==
  /\ main = "starting" /\ next > Len(Started)
  /\ main' = "running"
  /\ appState' = "STABLE"
  /\ startup' = FALSE
  /\ mMonitorNotify!Signal
  /\ UNCHANGED <<next, services, monitor, victim, stableCount, checkCount, quiet, history>>
-----------------------------------------------------------------------------
(* The services *)

(* Service::run's kickSoftwareWatchdog, once a loop. *)
Kick(s) ==
  /\ mThread[s] = "live" /\ health[s] = "well"
  /\ kicked' = [kicked EXCEPT ![s] = TRUE]
  /\ quiet' = [quiet EXCEPT ![s] = 0]
  /\ UNCHANGED <<app, mThread, health, cancelled, monitor, victim, phase, checkCount,
                 wakeup, history>>

(* service() does not come back, or does after all. *)
Fault(s, h) ==
  /\ mThread[s] = "live" /\ health[s] = "well"
  /\ health' = [health EXCEPT ![s] = h]
  /\ faulty' = faulty \union {s}
  /\ UNCHANGED <<app, mThread, kicked, cancelled, monitor, victim, phase, checkCount,
                 wakeup, quiet, late>>

Recover(s) ==
  /\ mThread[s] = "live" /\ health[s] # "well"
  /\ health' = [health EXCEPT ![s] = "well"]
  /\ quiet' = [quiet EXCEPT ![s] = 0]
  /\ UNCHANGED <<app, mThread, kicked, cancelled, monitor, victim, phase, checkCount,
                 wakeup, history>>

(* run() ends: Task::exit clears mThread. *)
Ends(s) ==
  /\ mThread[s] = "live" /\ health[s] = "well"
  /\ mThread' = [mThread EXCEPT ![s] = "none"]
  /\ UNCHANGED <<app, health, kicked, cancelled, monitor, victim, phase, checkCount,
                 wakeup, quiet, history>>

(* The thread meets its cancellation: Task::cancel leaves mThread. *)
Dies(s) ==
  /\ mThread[s] = "live" /\ s \in cancelled /\ health[s] # "hog"
  /\ mThread' = [mThread EXCEPT ![s] = "dead"]
  /\ UNCHANGED <<app, health, kicked, cancelled, monitor, victim, phase, checkCount,
                 wakeup, quiet, history>>
-----------------------------------------------------------------------------
(* The monitor *)

Steps(from, to) == monitor = from /\ monitor' = to

Begin ==
  /\ Steps("start", "wait")
  /\ UNCHANGED <<app, services, victim, phase, checkCount, wakeup, quiet, history>>

(* The period is over, which no service that is well outlasts. *)
Looping == {s \in Service : mThread[s] = "live" /\ health[s] = "well"}

PeriodOver ==
  /\ \A s \in Looping : quiet[s] < Pace[s]
  /\ quiet' = [s \in Service |-> IF s \in Looping THEN quiet[s] + 1 ELSE quiet[s]]

AwaitTick ==
  /\ \/ mMonitorNotify!Block /\ Steps("wait", "wait") /\ UNCHANGED quiet
     \/ mMonitorNotify!Expire /\ PeriodOver /\ Steps("wait", "wait")
     \/ mMonitorNotify!GiveUp /\ Steps("wait", "tick") /\ UNCHANGED quiet
     \/ /\ mMonitorNotify!Pass \/ mMonitorNotify!Wake
        /\ Steps("wait", "tick")
        /\ UNCHANGED quiet
  /\ UNCHANGED <<app, services, victim, phase, checkCount, history>>

StartupTick ==
  /\ startup
  /\ stableCount' = stableCount - 1
  /\ Steps("tick", IF stableCount' <= 0 THEN "late" ELSE "wait")
  /\ UNCHANGED <<app, services, victim, startup, appState, checkCount, wakeup, quiet,
                 history>>

(* Faulty: the start-up phase goes on. *)
KeepCountingOut ==
  /\ Steps("late", "wait")
  /\ appState' = "FAILED"
  /\ late' = (late \/ main # "running")
  /\ UNCHANGED <<app, services, victim, startup, stableCount, checkCount, wakeup, quiet,
                 faulty>>

(* The assignments that follow, without mNotify's lock. *)
CountRunsOut ==
  /\ Steps("late", "wait")
  /\ startup' = FALSE
  /\ appState' = "FAILED"
  /\ late' = (late \/ main # "running")
  /\ UNCHANGED <<app, services, victim, stableCount, checkCount, wakeup, quiet, faulty>>

(* Faulty: every tick is a check. *)
HastyMonitorServices ==
  /\ ~startup
  /\ checkCount' = 0
  /\ Steps("tick", "check")
  /\ UNCHANGED <<app, services, victim, phase, wakeup, quiet, history>>

MonitorServices ==
  /\ ~startup
  /\ checkCount' = IF checkCount + 1 = CheckRate THEN 0 ELSE checkCount + 1
  /\ Steps("tick", IF checkCount + 1 = CheckRate THEN "check" ELSE "wait")
  /\ UNCHANGED <<app, services, victim, phase, wakeup, quiet, history>>

(* checkStuckTask stops at the first service that looks alive and has not  *)
(* kicked; up to there the last counts are brought up to date.  For a      *)
(* thread that is dead, pthread_kill may answer either way.                *)
Stuck(alive) == {i \in 1 .. Len(List) : List[i] \in alive /\ ~kicked[List[i]]}

(* Faulty: the last count is not brought up to date. *)
ForgetfulCheck(alive, i) == UNCHANGED kicked

CheckKickCount(alive, i) ==
  kicked' = [s \in Service |->
    kicked[s] /\ ~\E j \in 1 .. i - 1 : List[j] = s /\ s \in alive]

CheckStuckTask ==
  /\ \E ghosts \in SUBSET {s \in Service : mThread[s] = "dead"} :
       LET alive == ghosts \union {s \in Service : mThread[s] = "live"}
       IN \/ /\ Stuck(alive) = {}
             /\ CheckKickCount(alive, Len(List) + 1)
             /\ UNCHANGED victim
             /\ Steps("check", "wait")
          \/ \E i \in Stuck(alive) :
               /\ \A j \in Stuck(alive) : i <= j
               /\ CheckKickCount(alive, i)
               /\ victim' = List[i]
               /\ Steps("check", "cancel")
  /\ UNCHANGED <<app, mThread, health, cancelled, phase, checkCount, wakeup, quiet, history>>

(* pthread_cancel, after the list's lock is released: to no thread if it   *)
(* is gone by then.                                                        *)
Cancel ==
  /\ Steps("cancel", "wait")
  /\ cancelled' = IF mThread[victim] = "live" THEN cancelled \union {victim} ELSE cancelled
  /\ victim' = None
  /\ UNCHANGED <<app, mThread, health, kicked, phase, checkCount, wakeup, quiet, history>>

MonitorStep ==
  \/ Begin \/ AwaitTick \/ StartupTick \/ CountRunsOut \/ MonitorServices \/ CheckStuckTask
  \/ Cancel

SupervisionNext ==
  \/ StartMonitoring \/ StartService \/ ApplicationStable
  \/ \E s \in Service :
       Kick(s) \/ Fault(s, "blocked") \/ Fault(s, "hog") \/ Recover(s) \/ Ends(s) \/ Dies(s)
  \/ MonitorStep

(* The monitor's thread, of the highest priority, runs and its waits end;  *)
(* so do the services' loops while they are well.  The main thread may     *)
(* hang in a service's start.                                              *)
SupervisionSpec ==
  /\ SupervisionInit /\ [][SupervisionNext]_supervision
  /\ WF_supervision(StartMonitoring)
  /\ WF_supervision(MonitorStep)
  /\ \A s \in Service : WF_supervision(Kick(s)) /\ WF_supervision(Dies(s))
-----------------------------------------------------------------------------
(* Types; a cancellation has a victim, and the counters stay in range. *)
SupervisionTypeOK ==
  /\ main \in {"monitor", "starting", "running"}
  /\ next \in 1 .. Len(Started) + 1
  /\ mThread \in [Service -> {"none", "live", "dead"}]
  /\ health \in [Service -> {"well", "blocked", "hog"}]
  /\ kicked \in [Service -> BOOLEAN]
  /\ cancelled \subseteq Service
  /\ monitor \in {"none", "start", "wait", "tick", "late", "check", "cancel"}
  /\ victim \in IF monitor = "cancel" THEN Service ELSE {None}
  /\ startup \in BOOLEAN
  /\ stableCount \in 0 .. StableTime
  /\ checkCount \in 0 .. CheckRate - 1
  /\ appState \in {"INITIALISING", "STABLE", "FAILED"}
  /\ mMonitorNotify!Type
  /\ quiet \in [Service -> Nat] /\ \A s \in Service : quiet[s] <= Pace[s]
  /\ late \in BOOLEAN
  /\ faulty \subseteq Service

(* No service whose loop is short enough is cancelled for being slow to    *)
(* start or for the moment at which it is checked: unless the application  *)
(* was late, only one that once failed to come back from service() is.     *)
(* The kick count of a new entry equals its last count, so this rests on   *)
(* the start-up phase, on CheckRate and on the reset of the counts.  Of    *)
(* the CheckRate ticks before a check one was perhaps under way when the   *)
(* counts were last seen and one comes of applicationStable's signal; the  *)
(* others end periods, and one of these the period in which the last kick  *)
(* came.  The code's rate of 5 leaves a loop two: enough for 1000 ms, not  *)
(* for the 5000 ms that Service's constructor takes without complaint.     *)
HealthySpared ==
  late \/ \A s \in cancelled : s \in faulty \/ Pace[s] + 3 > CheckRate

(* A service that hangs where it can be cancelled does not stay so, if the *)
(* monitor has its thread and those before it in the task list are in      *)
(* order.                                                                  *)
HangingIsCancelled ==
  \A i \in 1 .. Len(List) :
    ~<>[](/\ monitor # "none"
          /\ mThread[List[i]] = "live" /\ health[List[i]] = "blocked"
          /\ \A j \in 1 .. i - 1 :
               \/ mThread[List[j]] = "none"
               \/ mThread[List[j]] = "live" /\ health[List[j]] = "well")
=============================================================================
