---------------------------- MODULE ServiceProofs ----------------------------
(***************************************************************************)
(* Proofs about the services: about their monitor (TaskSupervision), for   *)
(* any services, any length of their loops and every check rate, that it   *)
(* cancels none that is well and quick enough for the rate; and about any  *)
(* one of them (ServiceControl): the mailbox mControl and the service's    *)
(* state agree wherever the threads of the two sides may be cut, so a late *)
(* control is never carried out in a state it does not belong to.          *)
(***************************************************************************)
EXTENDS ServiceControl, TaskSupervision, TLAPS
-----------------------------------------------------------------------------
(* The services monitor *)

(* The main thread against the monitor: unless the application was late,   *)
(* the start-up phase ends with all services started, and no check is      *)
(* counted before.                                                         *)
Phases ==
  /\ main = "monitor" => monitor = "none"
  /\ main = "running" => ~startup
  /\ ~startup => late \/ main = "running"
  /\ startup => checkCount = 0 /\ monitor \notin {"check", "cancel"}
  /\ startup /\ monitor # "late" => stableCount >= 1
  /\ monitor \in {"check", "cancel"} => checkCount = 0
  /\ monitorWaiter # "away" => monitor = "wait"

(* The services that may count on the monitor. *)
Spared == {s \in Service \ faulty : Pace[s] + 3 <= CheckRate}

(* Who may be cancelled, from the check that finds it to its end.          *)
Suspects ==
  /\ \A s \in Service : health[s] # "well" => s \in faulty
  /\ \A s \in Service : mThread[s] = "dead" => s \in cancelled
  /\ monitor = "cancel" => late \/ victim \notin Spared

(* The ticks that come without the end of a period: the one under way and  *)
(* the one of applicationStable's signal.                                  *)
FreeTicks ==
  (IF monitor = "tick" \/ monitorWaiter = "expired" THEN 1 ELSE 0)
  + (IF notified THEN 1 ELSE 0)

(* The ends of periods before the next check. *)
PeriodsLeft == CheckRate - checkCount - FreeTicks

(* A healthy service that has not kicked since the last check is given the *)
(* rest of its loop before the next one, and the end of a period more.     *)
InTime ==
  ~startup /\ ~late =>
    \A s \in Spared :
      mThread[s] = "live" /\ ~kicked[s] =>
        /\ monitor # "check"
        /\ PeriodsLeft >= Pace[s] + 1 - quiet[s]

SupervisionInv == SupervisionTypeOK /\ Phases /\ Suspects /\ InTime /\ HealthySpared
-----------------------------------------------------------------------------
LEMMA Orders == List \in Seq(Service) /\ Started \in Seq(Service)
  BY SupervisionAssumption

LEMMA Rates == /\ CheckRate \in Nat /\ CheckRate >= 1
               /\ \A s \in Service : Pace[s] \in Nat /\ Pace[s] >= 1
               /\ StableTime \in Nat /\ StableTime >= 1
  BY SupervisionAssumption

LEMMA SupervisionBegins == SupervisionInit => SupervisionInv
<1> SUFFICES ASSUME SupervisionInit PROVE SupervisionInv
  OBVIOUS
<1>1. SupervisionTypeOK
  <2>1. /\ 1 \in 1 .. Len(Started) + 1
        /\ StableTime \in 0 .. StableTime /\ 0 \in 0 .. CheckRate - 1
    BY Orders, Rates
  <2>2. quiet \in [Service -> Nat] /\ \A s \in Service : quiet[s] <= Pace[s]
    BY Rates DEF SupervisionInit
  <2> QED
    BY <2>1, <2>2
    DEF SupervisionInit, SupervisionTypeOK, mMonitorNotify!Initial,
        mMonitorNotify!Type
<1> QED
  BY <1>1, Rates
  DEF SupervisionInv, SupervisionInit, Phases, Suspects, Spared, InTime, HealthySpared,
      mMonitorNotify!Initial

(* The main thread; applicationStable leaves all periods but two.          *)
LEMMA MainKeeps ==
  ASSUME SupervisionInv, StartMonitoring \/ StartService \/ ApplicationStable
  PROVE  SupervisionInv'
<1> USE DEF SupervisionInv
<1>1. CASE StartMonitoring
  <2>1. SupervisionTypeOK'
    BY <1>1
    DEF StartMonitoring, SupervisionTypeOK, Phases, mMonitorNotify!Type, services,
        phase, wakeup, history
  <2> QED
    BY <1>1, <2>1, Rates
    DEF StartMonitoring, Phases, Suspects, Spared, InTime, PeriodsLeft, FreeTicks,
        HealthySpared, services, phase, wakeup, history
<1>2. CASE StartService
  <2>1. Started[next] \in Service /\ next \in Nat /\ next + 1 \in 1 .. Len(Started) + 1
    BY <1>2, Orders DEF StartService, SupervisionTypeOK
  <2>2. SupervisionTypeOK'
    BY <1>2, <2>1, Rates
    DEF StartService, SupervisionTypeOK, mMonitorNotify!Type, phase, wakeup, history
  <2>3. startup \/ late
    BY <1>2 DEF StartService, Phases
  <2> QED
    BY <1>2, <2>1, <2>2, <2>3, Rates
    DEF StartService, SupervisionTypeOK, Phases, Suspects, Spared, InTime, HealthySpared,
        phase, wakeup, history
<1>3. CASE ApplicationStable
  <2>1. SupervisionTypeOK'
    BY <1>3
    DEF ApplicationStable, SupervisionTypeOK, mMonitorNotify!Signal,
        mMonitorNotify!Type, services, history
  <2>2. InTime'
    <3>1. CASE late
      BY <1>3, <3>1 DEF ApplicationStable, InTime, history
    <3>2. CASE ~late
      <4>1. checkCount' = 0 /\ monitor' # "check" /\ CheckRate \in Nat
        BY <1>3, <3>2, Rates DEF ApplicationStable, Phases
      <4>2. PeriodsLeft' \in Int /\ PeriodsLeft' >= CheckRate - 2
        BY <4>1, Rates DEF PeriodsLeft, FreeTicks
      <4> QED
        BY <4>1, <4>2, <2>1, Rates DEF InTime, Spared, SupervisionTypeOK
    <3> QED
      BY <3>1, <3>2
  <2> QED
    BY <1>3, <2>1, <2>2
    DEF ApplicationStable, Phases, Suspects, Spared, HealthySpared, mMonitorNotify!Signal,
        services, history
<1> QED
  BY <1>1, <1>2, <1>3

(* The services: a kick settles what a service owes.                       *)
LEMMA ServicesKeep ==
  ASSUME SupervisionInv, NEW s \in Service,
         \/ Kick(s) \/ Fault(s, "blocked") \/ Fault(s, "hog") \/ Recover(s)
         \/ Ends(s) \/ Dies(s)
  PROVE  SupervisionInv'
<1> USE DEF SupervisionInv, app, phase, wakeup, history
<1>1. CASE Kick(s)
  <2>1. SupervisionTypeOK'
    BY <1>1, Rates DEF Kick, SupervisionTypeOK, mMonitorNotify!Type
  <2> QED
    BY <1>1, <2>1, Rates
    DEF Kick, SupervisionTypeOK, Phases, Suspects, Spared, InTime, PeriodsLeft, FreeTicks,
        HealthySpared
<1>2. CASE \E h \in {"blocked", "hog"} : Fault(s, h)
  <2>1. SupervisionTypeOK'
    BY <1>2 DEF Fault, SupervisionTypeOK, mMonitorNotify!Type
  <2> QED
    BY <1>2, <2>1, Rates
    DEF Fault, SupervisionTypeOK, Phases, Suspects, Spared, InTime, PeriodsLeft, FreeTicks,
        HealthySpared
<1>3. CASE Recover(s)
  <2>1. SupervisionTypeOK'
    BY <1>3, Rates DEF Recover, SupervisionTypeOK, mMonitorNotify!Type
  <2> QED
    BY <1>3, <2>1, Rates
    DEF Recover, SupervisionTypeOK, Phases, Suspects, Spared, InTime, PeriodsLeft,
        FreeTicks, HealthySpared
<1>4. CASE Ends(s) \/ Dies(s)
  <2>1. SupervisionTypeOK'
    BY <1>4, Rates DEF Ends, Dies, SupervisionTypeOK, mMonitorNotify!Type
  <2>2. InTime'
    <3>1. PeriodsLeft' = PeriodsLeft
      BY <1>4 DEF Ends, Dies, PeriodsLeft, FreeTicks
    <3>2. /\ UNCHANGED <<kicked, monitor, quiet, startup, late, faulty>>
          /\ \A v \in Service : mThread'[v] = "live" => mThread[v] = "live"
      BY <1>4 DEF Ends, Dies, SupervisionTypeOK
    <3> QED
      BY <3>1, <3>2 DEF InTime, Spared
  <2> QED
    BY <1>4, <2>1, <2>2
    DEF Ends, Dies, SupervisionTypeOK, Phases, Suspects, Spared, HealthySpared
<1> QED
  BY <1>1, <1>2, <1>3, <1>4

(* The monitor's wait: with every period that ends, the healthy services   *)
(* come closer to their kick.                                              *)
LEMMA AwaitKeeps == ASSUME SupervisionInv, AwaitTick PROVE SupervisionInv'
<1> USE DEF SupervisionInv, Steps
<1>1. UNCHANGED <<app, services, victim, phase, checkCount, history>>
  BY DEF AwaitTick
<1> PeriodOver =>
        quiet' \in [Service -> Nat] /\ \A s \in Service : quiet'[s] <= Pace[s]
  BY Rates DEF SupervisionTypeOK, PeriodOver, Looping
<1>2. SupervisionTypeOK'
  BY <1>1
  DEF AwaitTick, SupervisionTypeOK, app, services, phase, history,
      mMonitorNotify!Type, mMonitorNotify!Block, mMonitorNotify!Expire,
      mMonitorNotify!GiveUp, mMonitorNotify!Pass, mMonitorNotify!Wake
<1>3. Phases' /\ Suspects' /\ HealthySpared'
  BY <1>1
  DEF AwaitTick, SupervisionTypeOK, Phases, Suspects, Spared, HealthySpared, app, services,
      phase, history, mMonitorNotify!Block, mMonitorNotify!Expire,
      mMonitorNotify!GiveUp, mMonitorNotify!Pass, mMonitorNotify!Wake
<1>4. InTime'
  <2>1. CASE mMonitorNotify!Expire /\ PeriodOver /\ Steps("wait", "wait")
    <3>1. /\ monitor' = "wait" /\ checkCount \in Int
          /\ PeriodsLeft \in Int /\ PeriodsLeft' = PeriodsLeft - 1
      BY <1>1, <2>1, Rates
      DEF SupervisionTypeOK, mMonitorNotify!Type, PeriodsLeft, FreeTicks,
          mMonitorNotify!Expire
    <3>2. \A s \in Spared : mThread[s] = "live" => s \in Looping
      BY DEF SupervisionTypeOK, Suspects, Spared, Looping
    <3>3. \A s \in Looping : quiet'[s] = quiet[s] + 1
      BY <2>1 DEF PeriodOver, Looping
    <3>4. UNCHANGED <<mThread, kicked, startup, late>> /\ Spared' = Spared
      BY <1>1 DEF Spared, services, phase, history
    <3>5. ASSUME NEW s \in Spared, mThread[s] = "live", ~kicked[s], ~startup, ~late
          PROVE  PeriodsLeft' >= Pace[s] + 1 - quiet'[s]
      <4>1. PeriodsLeft >= Pace[s] + 1 - quiet[s]
        BY <3>5 DEF InTime
      <4>2. s \in Service /\ quiet'[s] = quiet[s] + 1
        BY <3>2, <3>3, <3>5 DEF Spared
      <4>3. quiet[s] \in Nat /\ Pace[s] \in Nat
        BY <4>2, Rates DEF SupervisionTypeOK
      <4> QED
        BY <3>1, <4>1, <4>2, <4>3
    <3> QED
      BY <3>1, <3>4, <3>5 DEF InTime
  <2>2. CASE /\ UNCHANGED quiet
             /\ \/ mMonitorNotify!Block /\ Steps("wait", "wait")
                \/ mMonitorNotify!GiveUp /\ Steps("wait", "tick")
                \/ (mMonitorNotify!Pass \/ mMonitorNotify!Wake) /\ Steps("wait", "tick")
    <3>1. PeriodsLeft \in Int /\ PeriodsLeft' \in Int /\ PeriodsLeft' >= PeriodsLeft
      BY <1>1, <2>2, Rates
      DEF SupervisionTypeOK, mMonitorNotify!Type, PeriodsLeft, FreeTicks,
          mMonitorNotify!Block, mMonitorNotify!GiveUp, mMonitorNotify!Pass,
          mMonitorNotify!Wake
    <3> QED
      BY <1>1, <1>2, <2>2, <3>1, Rates
      DEF SupervisionTypeOK, InTime, Spared, services, phase, history
  <2> QED
    BY <2>1, <2>2 DEF AwaitTick
<1> QED
  BY <1>2, <1>3, <1>4

(* A tick: the start-up count, or one of the ticks before a check.         *)
LEMMA TickKeeps ==
  ASSUME SupervisionInv, Begin \/ StartupTick \/ CountRunsOut \/ MonitorServices
  PROVE  SupervisionInv'
<1> USE DEF SupervisionInv, Steps, app, services, phase, wakeup, history
<1>1. CASE Begin
  <2>1. SupervisionTypeOK'
    BY <1>1, Rates DEF Begin, SupervisionTypeOK, mMonitorNotify!Type
  <2> QED
    BY <1>1, <2>1, Rates
    DEF Begin, SupervisionTypeOK, Phases, Suspects, Spared, InTime, PeriodsLeft, FreeTicks,
        HealthySpared
<1>2. CASE StartupTick
  <2>1. stableCount' \in 0 .. StableTime /\ (stableCount' <= 0 \/ stableCount' >= 1)
    BY <1>2, SupervisionAssumption DEF StartupTick, SupervisionTypeOK, Phases
  <2>2. SupervisionTypeOK'
    BY <1>2, <2>1 DEF StartupTick, SupervisionTypeOK, mMonitorNotify!Type
  <2> QED
    BY <1>2, <2>1, <2>2
    DEF StartupTick, SupervisionTypeOK, Phases, Suspects, Spared, InTime, HealthySpared
<1>3. CASE CountRunsOut
  <2>1. SupervisionTypeOK'
    BY <1>3, Rates DEF CountRunsOut, SupervisionTypeOK, mMonitorNotify!Type
  <2> QED
    BY <1>3, <2>1, Rates
    DEF CountRunsOut, SupervisionTypeOK, Phases, Suspects, Spared, InTime, PeriodsLeft,
        FreeTicks, HealthySpared
<1>4. CASE MonitorServices
  <2>1. SupervisionTypeOK'
    <3>1. checkCount' \in 0 .. CheckRate - 1
      BY <1>4, Rates DEF MonitorServices, SupervisionTypeOK
    <3>2. monitor' \in {"check", "wait"} /\ victim' = None
      BY <1>4, Rates DEF MonitorServices, SupervisionTypeOK
    <3> QED
      BY <1>4, <3>1, <3>2 DEF MonitorServices, SupervisionTypeOK, mMonitorNotify!Type
  <2>2. InTime'
    <3>1. CASE checkCount + 1 = CheckRate
      <4>1. PeriodsLeft \in Int /\ PeriodsLeft <= 0
        BY <1>4, <3>1, Rates
        DEF MonitorServices, PeriodsLeft, FreeTicks, SupervisionTypeOK
      <4> QED
        BY <1>4, <4>1, Rates DEF MonitorServices, InTime, Spared, SupervisionTypeOK
    <3>2. CASE checkCount + 1 # CheckRate
      <4>1. /\ monitor' = "wait"
            /\ PeriodsLeft \in Int /\ PeriodsLeft' \in Int /\ PeriodsLeft' >= PeriodsLeft
        BY <1>4, <3>2, Rates
        DEF MonitorServices, PeriodsLeft, FreeTicks, SupervisionTypeOK, Phases
      <4> QED
        BY <1>4, <4>1, Rates DEF MonitorServices, InTime, Spared, SupervisionTypeOK
    <3> QED
      BY <3>1, <3>2
  <2> QED
    BY <1>4, <2>1, <2>2
    DEF MonitorServices, SupervisionTypeOK, Phases, Suspects, Spared, HealthySpared
<1> QED
  BY <1>1, <1>2, <1>3, <1>4

(* The check: whoever has not kicked by now was not well, or is dead.      *)
LEMMA CheckKeeps == ASSUME SupervisionInv, CheckStuckTask PROVE SupervisionInv'
<1> USE DEF SupervisionInv
<1>1. /\ monitor = "check" /\ monitor' \in {"wait", "cancel"}
      /\ kicked' \in [Service -> BOOLEAN]
      /\ UNCHANGED <<app, mThread, health, cancelled, phase, checkCount, wakeup, quiet,
                     history>>
  <2>1. \A alive : \A i : CheckKickCount(alive, i) => kicked' \in [Service -> BOOLEAN]
    BY DEF CheckKickCount
  <2> QED
    BY <2>1 DEF CheckStuckTask, Steps
<1>2. /\ monitor' = "wait" => victim' = victim
      /\ monitor' = "cancel" => /\ victim' \in Service /\ ~kicked[victim']
                                /\ mThread[victim'] \in {"live", "dead"}
  <2>1. PICK ghosts \in SUBSET {s \in Service : mThread[s] = "dead"} :
          LET alive == ghosts \union {s \in Service : mThread[s] = "live"}
          IN \/ UNCHANGED victim /\ monitor' = "wait"
             \/ \E i \in Stuck(alive) : victim' = List[i] /\ monitor' = "cancel"
    BY DEF CheckStuckTask, Steps
  <2> QED
    BY <2>1, Orders DEF Stuck
<1>3. SupervisionTypeOK'
  BY <1>1, <1>2 DEF SupervisionTypeOK, mMonitorNotify!Type, app, phase, wakeup, history
<1>4. monitor' = "cancel" => late \/ victim' \notin Spared
  BY <1>1, <1>2, Rates
  DEF SupervisionTypeOK, Phases, Suspects, Spared, InTime, HealthySpared
<1>5. InTime'
  <2>1. checkCount' = 0 /\ monitorWaiter' = "away"
    BY <1>1, Rates DEF Phases, SupervisionTypeOK, mMonitorNotify!Type, wakeup
  <2>2. PeriodsLeft' \in Int /\ PeriodsLeft' >= CheckRate - 1
    BY <1>1, <2>1, Rates DEF PeriodsLeft, FreeTicks
  <2> QED
    BY <1>1, <1>3, <2>2, Rates DEF InTime, Spared, SupervisionTypeOK
<1> QED
  BY <1>1, <1>3, <1>4, <1>5
  DEF Phases, Suspects, Spared, HealthySpared, app, phase, wakeup, history

LEMMA CancelKeeps == ASSUME SupervisionInv, Cancel PROVE SupervisionInv'
<1> USE DEF SupervisionInv, Steps, app, phase, wakeup, history
<1>1. SupervisionTypeOK'
  BY DEF Cancel, SupervisionTypeOK, mMonitorNotify!Type
<1> QED
  BY <1>1, Rates
  DEF Cancel, SupervisionTypeOK, Phases, Suspects, Spared, InTime, PeriodsLeft, FreeTicks,
      HealthySpared

(* The invariant, for any services in any order and every check rate.      *)
THEOREM SupervisionInvariance == SupervisionSpec => []SupervisionInv
<1>1. SupervisionInv /\ [SupervisionNext]_supervision => SupervisionInv'
  <2> SUFFICES ASSUME SupervisionInv, [SupervisionNext]_supervision PROVE SupervisionInv'
    OBVIOUS
  <2>1. CASE SupervisionNext
    BY <2>1, MainKeeps, ServicesKeep, AwaitKeeps, TickKeeps, CheckKeeps, CancelKeeps
    DEF SupervisionNext, MonitorStep
  <2>2. CASE UNCHANGED supervision
    <3>1. InTime'
      BY <2>2
      DEF SupervisionInv, InTime, Spared, PeriodsLeft, FreeTicks, supervision, app,
          services, phase, wakeup, history
    <3> QED
      BY <2>2, <3>1
      DEF SupervisionInv, SupervisionTypeOK, mMonitorNotify!Type, Phases, Suspects,
          Spared, HealthySpared, supervision, app, services, phase, wakeup, history
  <2> QED
    BY <2>1, <2>2
<1> QED
  BY <1>1, SupervisionBegins, PTL DEF SupervisionSpec

(* Types, counters in their ranges, and a victim for every cancellation.   *)
THEOREM SupervisionTypeCorrect == SupervisionSpec => []SupervisionTypeOK
<1>1. SupervisionInv => SupervisionTypeOK
  BY DEF SupervisionInv
<1> QED
  BY <1>1, SupervisionInvariance, PTL

(* The services monitor cancels no service for being slow to start or for  *)
(* the moment at which it is checked: unless the application was late,     *)
(* every cancelled service once failed to come back or has a loop of more  *)
(* than CheckRate - 3 periods.                                             *)
THEOREM HealthySparedTheorem == SupervisionSpec => []HealthySpared
<1>1. SupervisionInv => HealthySpared
  BY DEF SupervisionInv
<1> QED
  BY <1>1, SupervisionInvariance, PTL
-----------------------------------------------------------------------------
(* One service *)

USE DEF State, CtlState, Commands, Pc, Early, Admits,
        vars, notify, thread,
        mNotify!Type, mNotify!Initial, mNotify!Signal, mNotify!Pass,
        mNotify!Block, mNotify!Wake, mNotify!Expire, mNotify!GiveUp

(* A control is posted only in a state that admits it, so the mailbox fits *)
(* (reset, suspend, resume and shutdown of a running task).                *)
LEMMA PostKeeps ==
  ASSUME Inv, NEW c \in Commands, Post(c),
         state = (IF c = "Resume" THEN "ServiceSuspended" ELSE "ServiceRunning")
  PROVE  Inv'
<1>1. TypeOK'
  BY DEF Inv, TypeOK, Post
<1>2. StateFitsPc'
  BY DEF Inv, TypeOK, StateFitsPc, Post
<1>3. MailboxFits'
  BY DEF Inv, TypeOK, StateFitsPc, MailboxFits, ControlStillFits,
         Post
<1>4. ControlStillFits' /\ NeverCalledSuspended'
  BY DEF Inv, ControlStillFits, NeverCalledSuspended, Post
<1>5. ResumeWasAccepted'
  BY DEF Inv, ControlStillFits, ResumeWasAccepted, Post
<1>6. QED BY <1>1, <1>2, <1>3, <1>4, <1>5 DEF Inv

(* The calls of the radio control process keep the invariant.              *)
LEMMA ControllerKeeps == ASSUME Inv, Controller PROVE Inv'
<1>1. CASE Start
  BY <1>1
  DEF Inv, TypeOK, StateFitsPc, MailboxFits, ControlStillFits,
      NeverCalledSuspended, ResumeWasAccepted, Start
<1>2. CASE Reset \/ Suspend \/ Resume \/ ShutdownTask
  BY <1>2, PostKeeps DEF Reset, Suspend, Resume, ShutdownTask
<1>3. CASE ShutdownFindsStopped
  <2>1. TypeOK'
    BY <1>3 DEF Inv, TypeOK, ShutdownFindsStopped
  <2>2. StateFitsPc'
    BY <1>3 DEF Inv, TypeOK, StateFitsPc, ShutdownFindsStopped
  <2>3. MailboxFits'
    BY <1>3
    DEF Inv, TypeOK, StateFitsPc, MailboxFits, ShutdownFindsStopped
  <2>4. ControlStillFits' /\ NeverCalledSuspended'
    BY <1>3
    DEF Inv, ControlStillFits, NeverCalledSuspended,
        ShutdownFindsStopped
  <2>5. ResumeWasAccepted'
    BY <1>3 DEF Inv, ResumeWasAccepted, ShutdownFindsStopped
  <2>6. QED BY <2>1, <2>2, <2>3, <2>4, <2>5 DEF Inv
<1>4. CASE ShutdownStores
  <2>1. TypeOK'
    <3>1. stopper' \in BOOLEAN /\ state' \in State
      BY <1>4 DEF ShutdownStores
    <3>2. UNCHANGED <<control, notify, thread, destructor, accepted>>
      BY <1>4 DEF ShutdownStores
    <3>3. QED BY <3>1, <3>2 DEF Inv, TypeOK
  <2>2. StateFitsPc'
    BY <1>4 DEF Inv, TypeOK, StateFitsPc, ShutdownStores
  <2>3. MailboxFits'
    BY <1>4
    DEF Inv, TypeOK, StateFitsPc, MailboxFits, ShutdownStores
  <2>4. ControlStillFits' /\ NeverCalledSuspended'
    BY <1>4
    DEF Inv, ControlStillFits, NeverCalledSuspended, ShutdownStores
  <2>5. ResumeWasAccepted'
    BY <1>4 DEF Inv, ResumeWasAccepted, ShutdownStores
  <2>6. QED BY <2>1, <2>2, <2>3, <2>4, <2>5 DEF Inv
<1>5. CASE EventNotify
  <2>1. TypeOK'
    BY <1>5 DEF Inv, TypeOK, EventNotify
  <2>2. StateFitsPc'
    BY <1>5 DEF Inv, TypeOK, StateFitsPc, EventNotify
  <2>3. MailboxFits'
    BY <1>5 DEF Inv, TypeOK, StateFitsPc, MailboxFits, EventNotify
  <2>4. ControlStillFits' /\ NeverCalledSuspended'
    BY <1>5 DEF Inv, ControlStillFits, NeverCalledSuspended, EventNotify
  <2>5. ResumeWasAccepted'
    BY <1>5 DEF Inv, ResumeWasAccepted, EventNotify
  <2>6. QED BY <2>1, <2>2, <2>3, <2>4, <2>5 DEF Inv
<1>6. QED BY <1>1, <1>2, <1>3, <1>4, <1>5 DEF Controller

(* Waiting moves the conditional and the pc only.                         *)
LEMMA WaitKeeps == ASSUME Inv, Wait PROVE Inv'
<1>1. TypeOK'
  <2>1. flag' \in BOOLEAN /\ waiter' \in {"away", "blocked", "expired"}
    BY DEF Inv, TypeOK, Wait, WaitBlocks, WaitExpires, WaitTrue,
           WaitFalse
  <2>2. pc' \in Pc
    BY DEF Inv, TypeOK, Wait, WaitBlocks, WaitExpires, WaitTrue,
           WaitFalse
  <2>3. UNCHANGED <<state, control, running, taken, stopper, destructor, accepted>>
    BY DEF Wait
  <2>4. QED BY <2>1, <2>2, <2>3 DEF Inv, TypeOK
<1>2. StateFitsPc'
  BY DEF Inv, TypeOK, StateFitsPc, Wait,
         WaitBlocks, WaitExpires, WaitTrue, WaitFalse
<1>3. MailboxFits'
  BY DEF Inv, TypeOK, StateFitsPc, MailboxFits, Wait,
         WaitBlocks, WaitExpires, WaitTrue, WaitFalse
<1>4. ControlStillFits' /\ NeverCalledSuspended'
  BY DEF Inv, ControlStillFits, NeverCalledSuspended, Wait,
         WaitBlocks, WaitExpires, WaitTrue, WaitFalse
<1>5. ResumeWasAccepted'
  BY DEF Inv, ResumeWasAccepted, Wait,
         WaitBlocks, WaitExpires, WaitTrue, WaitFalse
<1>6. QED BY <1>1, <1>2, <1>3, <1>4, <1>5 DEF Inv

(* An emptied mailbox fits every state.                                   *)
LEMMA ClearKeeps == ASSUME Inv, Clear PROVE Inv'
<1>1. TypeOK'
  BY DEF Inv, TypeOK, Clear
<1>2. StateFitsPc'
  BY DEF Inv, TypeOK, StateFitsPc, Clear
<1>3. MailboxFits'
  BY DEF Inv, TypeOK, StateFitsPc, MailboxFits, Clear
<1>4. ControlStillFits' /\ NeverCalledSuspended'
  BY DEF Inv, ControlStillFits, NeverCalledSuspended, Clear
<1>5. ResumeWasAccepted'
  BY DEF Inv, ResumeWasAccepted, Clear
<1>6. QED BY <1>1, <1>2, <1>3, <1>4, <1>5 DEF Inv

(* The steps of the service thread keep it; Switch and Apply, between      *)
(* which a control may arrive, are the ones that need its parts together.  *)
LEMMA RunKeeps == ASSUME Inv, Run PROVE Inv'
<1>1. CASE Wait           BY <1>1, WaitKeeps
<1>2. CASE Clear          BY <1>2, ClearKeeps
<1> USE DEF Inv, TypeOK, StateFitsPc, MailboxFits, ControlStillFits,
            NeverCalledSuspended, ResumeWasAccepted
<1>3. CASE Execute        BY <1>3 DEF Execute
<1>4. CASE EnterRunning   BY <1>4 DEF EnterRunning
<1>5. CASE Loop           BY <1>5 DEF Loop
<1>6. CASE ServiceReturns BY <1>6 DEF ServiceReturns
<1>7. CASE ServiceFails   BY <1>7 DEF ServiceFails
<1>8. CASE Switch         BY <1>8 DEF Switch
<1>9. CASE Apply          BY <1>9 DEF Apply
<1>10. CASE DoReset       BY <1>10 DEF DoReset
<1>11. CASE Exit
  <2>1. running' \in BOOLEAN BY <1>11 DEF Exit
  <2>2. pc' = "exited" /\ UNCHANGED <<state, control, notify, taken, stopper,
                                      destructor, accepted>>
    BY <1>11 DEF Exit
  <2>3. pc = "exit" BY <1>11 DEF Exit
  <2>4. QED BY <2>1, <2>2, <2>3
<1>12. QED BY <1>1, <1>2, <1>3, <1>4, <1>5, <1>6, <1>7, <1>8, <1>9, <1>10,
              <1>11 DEF Run

(* The destructor keeps it: its shutdown is one more posted control.       *)
LEMMA DestructorKeeps == ASSUME Inv, Destructor PROVE Inv'
<1>1. CASE DestroyShutdown
  BY <1>1, PostKeeps DEF DestroyShutdown, ShutdownTask
<1>2. CASE Destroy \/ DestroyEnds
  <2>1. TypeOK'
    BY <1>2 DEF Inv, TypeOK, Destroy, DestroyEnds
  <2>2. StateFitsPc'
    BY <1>2 DEF Inv, TypeOK, StateFitsPc, Destroy, DestroyEnds
  <2>3. MailboxFits'
    BY <1>2
    DEF Inv, TypeOK, StateFitsPc, MailboxFits, Destroy,
        DestroyEnds
  <2>4. ControlStillFits' /\ NeverCalledSuspended'
    BY <1>2
    DEF Inv, ControlStillFits, NeverCalledSuspended, Destroy,
        DestroyEnds
  <2>5. ResumeWasAccepted'
    BY <1>2 DEF Inv, ResumeWasAccepted, Destroy, DestroyEnds
  <2>6. QED BY <2>1, <2>2, <2>3, <2>4, <2>5 DEF Inv
<1>3. CASE Stop
  <2>1. TypeOK'
    <3>1. TypeOK
      BY DEF Inv
    <3>2. /\ pc' = "exited" /\ running' = FALSE /\ waiter' = "away"
          /\ UNCHANGED <<state, control, flag, taken, stopper, destructor, accepted>>
      BY <1>3 DEF Stop
    <3>3. pc' \in Pc
      BY <3>2 DEF Pc
    <3>4. /\ state' \in State /\ control' \in CtlState /\ taken' \in CtlState
          /\ destructor' \in {"no", "holding", "over"}
          /\ accepted' \in Commands \union {"Noop"}
      BY <3>1, <3>2 DEF TypeOK
    <3>5. running' \in BOOLEAN /\ stopper' \in BOOLEAN
      BY <3>1, <3>2 DEF TypeOK
    <3>6. mNotify!Type'
      BY <3>1, <3>2 DEF TypeOK, mNotify!Type
    <3> QED
      BY <3>3, <3>4, <3>5, <3>6 DEF TypeOK
  <2>2. StateFitsPc'
    BY <1>3 DEF Inv, TypeOK, StateFitsPc, Stop
  <2>3. MailboxFits'
    BY <1>3 DEF Inv, TypeOK, StateFitsPc, MailboxFits, Stop
  <2>4. ControlStillFits' /\ NeverCalledSuspended'
    BY <1>3 DEF Inv, ControlStillFits, NeverCalledSuspended, Stop
  <2>5. ResumeWasAccepted'
    BY <1>3 DEF Inv, ResumeWasAccepted, Stop
  <2>6. QED BY <2>1, <2>2, <2>3, <2>4, <2>5 DEF Inv
<1>4. QED BY <1>1, <1>2, <1>3 DEF Destructor

(* The invariant is inductive: it holds of the constructed service and     *)
(* every step of the controller, the thread and the destructor keeps it.   *)
THEOREM ServiceInvariance == Spec => []Inv
<1>1. Init => Inv
  BY DEF Init, Inv, TypeOK, StateFitsPc, MailboxFits,
         ControlStillFits, NeverCalledSuspended, ResumeWasAccepted
<1>2. Inv /\ [Next]_vars => Inv'
  <2> SUFFICES ASSUME Inv, [Next]_vars PROVE Inv'
    OBVIOUS
  <2>1. CASE Next
    BY <2>1, ControllerKeeps, RunKeeps, DestructorKeeps DEF Next
  <2>2. CASE UNCHANGED vars
    BY <2>2
    DEF Inv, TypeOK, StateFitsPc, MailboxFits, ControlStillFits,
        NeverCalledSuspended, ResumeWasAccepted
  <2>3. QED BY <2>1, <2>2
<1>3. QED BY <1>1, <1>2, PTL DEF Spec

(* Type correctness of the service, its thread and its conditional.        *)
THEOREM ServiceTypeCorrect == Spec => []TypeOK
<1>1. Inv => TypeOK BY DEF Inv
<1>2. QED BY <1>1, ServiceInvariance, PTL

(* service() is never called while the service is suspended or resetting.  *)
THEOREM NeverCalledSuspendedTheorem == Spec => []NeverCalledSuspended
<1>1. Inv => NeverCalledSuspended BY DEF Inv
<1>2. QED BY <1>1, ServiceInvariance, PTL

(* A control is carried out only in a state that admits it.                *)
THEOREM ControlStillFitsTheorem == Spec => []ControlStillFits
<1>1. Inv => ControlStillFits BY DEF Inv
<1>2. QED BY <1>1, ServiceInvariance, PTL

(* A suspension ends only by an accepted resume or by a shutdown: the only *)
(* steps that change a suspended state are Apply, a late shutdown and a    *)
(* failing or starting thread, which is not suspended.                     *)
THEOREM SuspensionTheorem == Spec => SuspensionHolds
<1> DEFINE Holds == state = "ServiceSuspended" =>
             \/ state' \in {"ServiceSuspended", "ServiceShutdown"}
             \/ state' = "ServiceRunning" /\ accepted = "Resume"
<1>1. Inv /\ [Next]_vars => [Holds]_vars
  <2> SUFFICES ASSUME Inv, [Next]_vars, state = "ServiceSuspended",
                      state' # state
               PROVE  \/ state' = "ServiceShutdown"
                      \/ state' = "ServiceRunning" /\ accepted = "Resume"
    OBVIOUS
  <2>1. CASE Apply
    BY <2>1
    DEF Inv, TypeOK, ControlStillFits, ResumeWasAccepted, Apply
  <2>2. CASE ShutdownStores
    BY <2>2 DEF ShutdownStores
  <2>3. CASE EnterRunning \/ DoReset \/ ServiceFails
    BY <2>3
    DEF Inv, StateFitsPc, NeverCalledSuspended, EnterRunning,
        DoReset, ServiceFails
  <2>4. QED
    BY <2>1, <2>2, <2>3
    DEF Next, Controller, Run, Destructor, Start, Reset,
        Suspend, Resume, Post, ShutdownTask, ShutdownFindsStopped,
        EventNotify, Execute, Loop, ServiceReturns, Wait,
        Switch, Clear, Exit, Destroy, DestroyShutdown,
        DestroyEnds, Stop
<1>2. QED BY <1>1, ServiceInvariance, PTL DEF Spec, SuspensionHolds
=============================================================================
