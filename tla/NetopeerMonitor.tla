--------------------------- MODULE NetopeerMonitor ---------------------------
(***************************************************************************)
(* NetopeerMonService: one netopeer2-server process, kept in               *)
(* mNetopeerProcess, that three threads start and stop without a common    *)
(* lock: the main thread (startService at start-up, shutdown at the end),  *)
(* the service's own thread, which starts it again if automatic restart is *)
(* on, and an operator at the test interface.  (mMutex is taken by the     *)
(* service's thread alone.)                                                *)
(*                                                                         *)
(* Each use of the child, of mServiceState and of the settings is a step.  *)
(* Assigning a new boost::process::child leaves the old process running.   *)
(* terminate() kills the process and reaps it.  A netopeer2-server that    *)
(* finds another one serving exits.  clearSysrepo is left out.             *)
(***************************************************************************)
EXTENDS Naturals, FiniteSets

CONSTANT Pid   \* process identities; one that is gone is used again

(* A new process always has an identity: the managed one's is not taken.   *)
ASSUME PidAssumption == IsFiniteSet(Pid) /\ Cardinality(Pid) >= 2

Thread == {"main", "service", "operator"}

VARIABLES
  process,  \* per process: gone, starting, serving
  child,    \* mNetopeerProcess
  state,    \* mServiceState: STOPPED, RUNNING, FAILED
  monitoring,  \* mMonitorServiceState = ENABLE
  autoRestart, \* mAutoRestartProcess = ENABLE
  pc,       \* where each thread is
  control,  \* mControl: Noop, Suspend, Resume, Shutdown
  intruded, \* history: the operator called startService or restartService
  unsettled \* history: automatic restart was on, or monitoring off, at a time

settings == <<monitoring, autoRestart>>
history  == <<intruded, unsettled>>
vars     == <<process, child, state, settings, pc, control, history>>

running(p) == process[p] = "serving" \/ process[p] = "starting"
Live == {p \in Pid : running(p)}

Init ==
  /\ process = [p \in Pid |-> "gone"]
  /\ child \in Pid
  /\ state = "STOPPED"
  /\ monitoring = TRUE /\ autoRestart = FALSE
  /\ pc = [main |-> "start", service |-> "off", operator |-> "idle"]
  /\ control = "Noop"
  /\ intruded = FALSE /\ unsettled = FALSE
-----------------------------------------------------------------------------
(* Procedures, by the thread that runs them *)

Steps(t, from, to) == pc[t] = from /\ pc' = [pc EXCEPT ![t] = to]

(* Where a thread goes when its procedure is done.  Once it has stopped    *)
(* the service, main posts the shutdown.                                   *)
After(t) == IF t = "main" THEN "up" ELSE "idle"

(* startService *)
StartFindsRunning(t) ==
  /\ state = "RUNNING"
  /\ Steps(t, "start", After(t))
  /\ UNCHANGED <<process, child, state, settings, control, history>>

StartFindsNone(t) ==
  /\ state # "RUNNING"
  /\ Steps(t, "start", "spawn")
  /\ UNCHANGED <<process, child, state, settings, control, history>>

(* startService, service: the child is replaced. *)
spawnNetopeerServer(t) ==
  /\ Steps(t, "spawn", "spawned")
  /\ \E p \in Pid \ (Live \union {child}) :
       child' = p /\ process' = [process EXCEPT ![p] = "starting"]
  /\ UNCHANGED <<state, settings, control, history>>

(* bp::child throws if the process cannot be forked or executed.  Nobody   *)
(* catches it: the application ends, and leaves its processes.             *)
SpawnThrows(t) ==
  /\ pc[t] = "spawn"
  /\ pc' = [u \in Thread |-> "aborted"]
  /\ UNCHANGED <<process, child, state, settings, control, history>>

(* A second later, which is enough for netopeer2-server to decide. *)
SpawnEnds(t) ==
  /\ process[child] # "starting"
  /\ Steps(t, "spawned", IF running(child) THEN "ok" ELSE "bad")
  /\ UNCHANGED <<process, child, state, settings, control, history>>

(* What running() said is stored.  If netopeer failed at start-up,         *)
(* YangMgrService throws and the application ends.                         *)
StoreOk(t) ==
  /\ Steps(t, "ok", After(t))
  /\ state' = "RUNNING"
  /\ UNCHANGED <<process, child, settings, control, history>>

StoreBad(t) ==
  /\ Steps(t, "bad", IF t = "main" THEN "failed" ELSE After(t))
  /\ state' = "FAILED"
  /\ UNCHANGED <<process, child, settings, control, history>>

(* stopService, for itself, for restartService ("restop") and for shutdown *)
Stopping == [stop |-> "stopping", restop |-> "restopping", down |-> "downing"]
Killed == [stop |-> "killed", restop |-> "rekilled", down |-> "downkilled"]
Alive == [stop |-> "alive", restop |-> "realive", down |-> "downalive"]
Stopped(t) == [stop |-> After(t), restop |-> "start", down |-> "post"]
Unstopped(t) == [Stopped(t) EXCEPT !.restop = After(t)]

StopFindsStopped(t, how) ==
  /\ state = "STOPPED"
  /\ Steps(t, how, Stopped(t)[how])
  /\ UNCHANGED <<process, child, state, settings, control, history>>

(* Faulty: the child is asked to stop, not killed. *)
PoliteTerminate(t, how) ==
  /\ state # "STOPPED"
  /\ Steps(t, how, Stopping[how])
  /\ UNCHANGED <<process, child, state, settings, control, history>>

Terminate(t, how) ==
  /\ state # "STOPPED"
  /\ Steps(t, how, Stopping[how])
  /\ process' = [process EXCEPT ![child] = "gone"]
  /\ UNCHANGED <<child, state, settings, control, history>>

(* wait_for: on the child as it is now. *)
WaitFor(t, how) ==
  /\ Steps(t, Stopping[how], IF running(child) THEN Alive[how] ELSE Killed[how])
  /\ UNCHANGED <<process, child, state, settings, control, history>>

StoreKilled(t, how) ==
  /\ Steps(t, Killed[how], Stopped(t)[how])
  /\ state' = "STOPPED"
  /\ UNCHANGED <<process, child, settings, control, history>>

StoreAlive(t, how) ==
  /\ Steps(t, Alive[how], Unstopped(t)[how])
  /\ state' = "FAILED"
  /\ UNCHANGED <<process, child, settings, control, history>>

Procedure(t) ==
  \/ StartFindsRunning(t) \/ StartFindsNone(t)
  \/ spawnNetopeerServer(t) \/ SpawnThrows(t) \/ SpawnEnds(t)
  \/ StoreOk(t) \/ StoreBad(t)
  \/ \E how \in DOMAIN Stopping :
       \/ StopFindsStopped(t, how) \/ Terminate(t, how) \/ WaitFor(t, how)
       \/ StoreKilled(t, how) \/ StoreAlive(t, how)
-----------------------------------------------------------------------------
(* The main thread: the service's thread is started after startService     *)
(* returned, and shutdown stops netopeer only if that thread runs.         *)

StartThread ==
  /\ pc["main"] = "up" /\ pc["service"] = "off"
  /\ pc' = [pc EXCEPT !["service"] = "created"]
  /\ UNCHANGED <<process, child, state, settings, control, history>>

(* mState = ServiceRunning *)
ServiceRunning == pc["service"] \notin {"off", "created", "suspended", "ended"}

(* AppServices::suspend and resume *)
Suspend ==
  /\ pc["main"] = "up" /\ ServiceRunning
  /\ control' = "Suspend"
  /\ UNCHANGED <<process, child, state, settings, pc, history>>

Resume ==
  /\ pc["main"] = "up" /\ pc["service"] = "suspended"
  /\ control' = "Resume"
  /\ UNCHANGED <<process, child, state, settings, pc, history>>

Shutdown ==
  /\ pc["service"] \notin {"off", "ended"}
  /\ Steps("main", "up", "down")
  /\ UNCHANGED <<process, child, state, settings, control, history>>

(* Noop, if the service is not running. *)
PostShutdown ==
  /\ Steps("main", "post", "done")
  /\ control' = IF ServiceRunning THEN "Shutdown" ELSE control
  /\ UNCHANGED <<process, child, state, settings, history>>

(* The singleton's destructor: that of the child kills the process. *)
Destroy ==
  /\ Steps("main", "done", "destroyed")
  /\ process' = [process EXCEPT ![child] = "gone"]
  /\ UNCHANGED <<child, state, settings, control, history>>
-----------------------------------------------------------------------------
(* The service's thread *)

ServiceBegins ==
  /\ Steps("service", "created", "idle")
  /\ control' = "Noop"
  /\ UNCHANGED <<process, child, state, settings, history>>

(* service: with monitoring off, FAILED is stored. *)
service ==
  /\ control = "Noop"
  /\ Steps("service", "idle", IF monitoring THEN "look" ELSE "bad")
  /\ UNCHANGED <<process, child, state, settings, control, history>>

(* Faulty: it trusts mServiceState. *)
TrustingLook ==
  /\ Steps("service", "look", IF state = "RUNNING" THEN "ok" ELSE "dead")
  /\ UNCHANGED <<process, child, state, settings, control, history>>

Look ==
  /\ Steps("service", "look", IF running(child) THEN "ok" ELSE "dead")
  /\ UNCHANGED <<process, child, state, settings, control, history>>

(* Faulty: netopeer is started again if it was stopped, not if it failed. *)
RestartStopped ==
  /\ Steps("service", "dead",
           IF autoRestart /\ state = "STOPPED" THEN "spawn" ELSE "idle")
  /\ UNCHANGED <<process, child, state, settings, control, history>>

AutoRestart ==
  /\ Steps("service", "dead", IF autoRestart THEN "spawn" ELSE "idle")
  /\ UNCHANGED <<process, child, state, settings, control, history>>

(* Service::run does what it was told, if the signal was not lost. *)
Obey ==
  /\ control # "Noop"
  /\ pc["service"] \in {"idle", "suspended"}
  /\ pc' = [pc EXCEPT !["service"] = CASE control = "Suspend" -> "suspended"
                                       [] control = "Resume" -> "idle"
                                       [] control = "Shutdown" -> "ended"]
  /\ control' = "Noop"
  /\ UNCHANGED <<process, child, state, settings, history>>
-----------------------------------------------------------------------------
(* The operator, once start-up is over *)

Operate(to) ==
  /\ pc["service"] # "off"
  /\ Steps("operator", "idle", to)
  /\ intruded' = (intruded \/ to # "stop")
  /\ UNCHANGED <<process, child, state, settings, control, unsettled>>

setMonitorServiceState ==
  /\ pc["service"] # "off" /\ pc["operator"] = "idle"
  /\ monitoring' = ~monitoring
  /\ unsettled' = TRUE
  /\ UNCHANGED <<process, child, state, autoRestart, pc, control, intruded>>

setAutoRestart ==
  /\ pc["service"] # "off" /\ pc["operator"] = "idle"
  /\ autoRestart' = ~autoRestart
  /\ unsettled' = TRUE
  /\ UNCHANGED <<process, child, state, monitoring, pc, control, intruded>>
-----------------------------------------------------------------------------
(* netopeer2-server *)

Serve(p) ==
  /\ process[p] = "starting"
  /\ process' = [process EXCEPT ![p] =
       IF \E q \in Pid : process[q] = "serving" THEN "gone" ELSE "serving"]
  /\ UNCHANGED <<child, state, settings, pc, control, history>>

Crash(p) ==
  /\ process[p] = "serving"
  /\ process' = [process EXCEPT ![p] = "gone"]
  /\ UNCHANGED <<child, state, settings, pc, control, history>>

Next ==
  \/ \E t \in Thread : Procedure(t)
  \/ StartThread \/ Suspend \/ Resume \/ Shutdown \/ PostShutdown \/ Destroy
  \/ ServiceBegins \/ service \/ Look \/ AutoRestart \/ Obey
  \/ \E to \in {"start", "stop", "restop"} : Operate(to)
  \/ setMonitorServiceState \/ setAutoRestart
  \/ \E p \in Pid : Serve(p) \/ Crash(p)

(* The threads run, the service's once a second, and a process that was    *)
(* started gets to its decision.                                           *)
Spec ==
  /\ Init /\ [][Next]_vars
  /\ \A t \in Thread : WF_vars(Procedure(t))
  /\ WF_vars(service \/ Look \/ AutoRestart)
  /\ \A p \in Pid : WF_vars(Serve(p))
-----------------------------------------------------------------------------
(* Types; the service runs only if netopeer2-server came up. *)
TypeOK ==
  /\ process \in [Pid -> {"gone", "starting", "serving"}]
  /\ child \in Pid
  /\ state \in {"STOPPED", "RUNNING", "FAILED"}
  /\ monitoring \in BOOLEAN /\ autoRestart \in BOOLEAN
  /\ pc \in [Thread -> {"off", "created", "idle", "look", "dead", "suspended", "ended",
                        "start", "spawn", "spawned", "ok", "bad", "up", "failed",
                        "stop", "stopping", "killed", "alive",
                        "restop", "restopping", "rekilled", "realive",
                        "down", "downing", "downkilled", "downalive",
                        "post", "done", "destroyed", "aborted"}]
  /\ control \in {"Noop", "Suspend", "Resume", "Shutdown"}
  /\ intruded \in BOOLEAN /\ unsettled \in BOOLEAN
  /\ pc["service"] \notin {"off", "aborted"} =>
       pc["main"] \notin {"start", "spawn", "spawned", "ok", "bad", "failed"}

ShuttingDown ==
  pc["main"] \in {"down", "downing", "downkilled", "downalive", "post", "done",
                  "destroyed", "aborted"}

(* There is no netopeer2-server but the one in mNetopeerProcess, which     *)
(* stopService can stop: whatever the operator sets and stops, and         *)
(* whatever he starts before shutdown, with monitoring always on and       *)
(* automatic restart off.                                                  *)
Managed ==
  (intruded /\ (unsettled \/ ShuttingDown)) \/ Live \subseteq {child}

(* After shutdown no netopeer2-server is left, if automatic restart was    *)
(* never on and the operator started none.                                 *)
NoneLeft ==
  pc["main"] \in {"done", "destroyed"} => intruded \/ unsettled \/ Live = {}

(* With automatic restart on, a netopeer2-server that is gone is replaced, *)
(* unless bp::child throws, which ends the application.                    *)
Replaced ==
  Live = {} /\ pc["service"] = "idle"
    ~> \/ Live # {} \/ ~autoRestart \/ ~monitoring \/ control # "Noop"
       \/ pc["service"] = "aborted"

(* NetopeerMonService.h: mMutex is there "to prevent the service from      *)
(* being interrupted by TIF command requests": whatever the operator does, *)
(* there is one netopeer2-server, the one that stopService can stop.       *)
OneServer == Live \subseteq {child}
=============================================================================
