# open-mplane in TLA+

TLA+ models, TLC checks and TLAPS proofs of open-mplane: an O-RAN M-plane
server (`src/mplane_server`, C++ over sysrepo and netopeer2), the hardware
abstraction it drives (`src/libhalmplane`), a gRPC-to-NETCONF client service
(`src/mplane_client`), a command line (`src/climp`) and board support
(`src/meta-mplane`). `PROJECT.json` holds the tables behind this text: which
definition models which lines, what each run checks, and the hazards by line.

## 1. The system

    gRPC clients          NETCONF clients (mplane_client, climp, ...)
        |                        |
    MpclientImpl -- NetconfSession --- ssh --- netopeer2 --- sysrepo
                                                              |  CHANGE / DONE
                                     YangHandlerSysrepo, HandlerCallback
                                                              |
                        OranUplaneConfHandler and the other model handlers
                                                              |
                                        libhalmplane (C API) --- vendor's HAL
    around them: Application -> AppServices -> Service/Task threads,
    ServicesMonitor, NetopeerMonService, SystemTask, download task

| Component | State it keeps | Operations | Talks to |
|---|---|---|---|
| mplane_client session manager (`MpclientImpl`, `NetconfSession`) | session table and counter, callbacks by `nc_session`, promises of streams, three locks | connect, listen, netconfRpc, streamNotifications, startSupervision, disconnect; the notification handler; the destructor | gRPC threads, one notification thread per session (libnetconf2) |
| array carriers (`OranUplaneConfHandler`) | carrier state maps, the entries of the edit | initialise, validate, valueChange, paramDelete, HAL state callback | sysrepo's thread through `HandlerCallback`, HAL threads, notifications |
| generic YANG handlers (`YangHandlerSysrepo`, `HandlerCallback`, `YangPersist`) | subscriptions (the persistent values have no writer) | CHANGE, DONE, operational gets, RPCs | sysrepo, model handlers |
| datastore driver (`RadioDatastore`, `RadioDatastoreSysrepo`) | set-up state, connection, shared sessions with pending edits | initialise, install, activate, get and set items | sysrepo, module manager, handlers |
| YANG module manager (`YangModuleMgr`, `YangMgrService`) | modules, status | initialise: create, install, activate, start netopeer | datastore driver, netopeer supervision |
| services (`Service`, `Conditional`, `Task`) | `mState`, one-place mailbox `mControl`, condition flag | start, reset, suspend, resume, shutdown, run, destructor | the application, the service's thread |
| shell commands (`SystemTask`) | `mExecuting`, `mCmd`, `mCmdStatus`, `mChildPid`, two conditionals | runCmd with time-out, the thread, destructor | callers, child processes |
| task supervision (`TaskList`, `ServicesMonitor`, `KickWatchdog`) | kick counts, application state | kick, check, cancel, feed the hardware watchdog | every task |
| application (`AppServices`, `Application`) | list of services | create, start once, stop | services |
| netopeer supervision (`NetopeerMonService`) | child process, service status | start, stop, restart, periodic check | netopeer2-server, a service's thread |
| configuration download (`ConfigDownloadManagement`, `ConfigDownload`, `FileMgr`) | downloading flag, result, URL, start and end conditionals | getAndInstall, configInstall, setRemoteUrl, the task | `SystemTask`, callers |
| SFTP sessions (`SftpMgr`, `SftpSession`, `TaskEvent`) | sessions by user and host, job queue, event flag, run flags | factory, disconnect, upload and download, the thread, destructor | callers and their callbacks, libssh |
| other model handlers | interface and processing element lists, users; the rest static | as for carriers | HAL, Linux |
| HAL (`libhalmplane`) | table of vendor functions | one C function per YANG action | vendor library |
| client programs, climp, YANG classes, xcommon, data types, logging, ssh, board support | none that outlives a call, or static | | |

What is hard in it, and what makes each part correct:

* **Sessions.** Three locks, references counted by `shared_ptr`, raw pointers
  to gRPC writers captured in callbacks, a table keyed by the address of an
  `nc_session`, and a destructor that runs in whichever thread drops the last
  reference. Correct means: nobody uses a writer, a session or a vector after
  its end, and whoever waits on a session is released when it is removed.
* **Carriers.** One edit passes sysrepo twice (CHANGE, DONE) and may be
  dropped in between; the HAL answers later, on another thread; the handler
  uses its stored state to decide whether to call the HAL at all; and what
  only validates an edit already applies part of it. Correct means: carriers
  are switched as the datastore has them and only so, a carrier the HAL called
  BUSY or READY does not lose its deactivation, and state and notifications
  follow the HAL's reports.
* **Services and commands.** Controls and commands are passed through flags,
  a mailbox and timed waits that can lose a signal
  (`Conditional.cpp:97`: a time-out clears the flag). Correct means: what is
  carried out late still fits, a suspended service is not called, a caller
  gets the answer to its own command, destructors end.
* **Downloads and SFTP.** A queue of one, or of many, served by a thread that
  works without the lock its callers take; settings of one request stay behind
  for the next; objects are destroyed by whoever drops the last pointer.
  Correct means: a caller is released by its own transfer and told its result,
  what is installed is its own file from the right place, a session is not
  closed under its users, every accepted job is answered.
* **Supervision of tasks and of netopeer.** Watchers that look now and act a
  moment later, on something that starts, ends and is restarted by others.
  Correct means: the healthy are spared, what hangs or dies is dealt with,
  exactly one netopeer2-server is known, and none is left behind.
* **Start-up.** A dozen calls of sysrepo, each of which may fail, and a
  database that survives a crash in the middle. Correct means: a server that
  comes up is complete.

## 2. What is modelled

| Module | What it is | Theorems |
|---|---|---|
| `MpclientSessions` | session manager of mplane_client | `MpclientSessionsProofs` |
| `MCMpclientSessions` | its TLC instance (symmetry) | |
| `CarrierControl` | abstract: the HAL follows the datastore | |
| `UplaneCarriers` | carrier handler, HandlerCallback, HAL; implements `CarrierControl` | `UplaneCarriersProofs` |
| `MCUplaneCarriers` | its TLC instance (symmetry) | |
| `TimedConditional` | `Mplane::Conditional` with one waiter; instantiated by `ServiceControl`, `ConfigDownloads`, `TaskSupervision`, and twice by `SystemTask` | |
| `ServiceControl` | `Service`, its thread and destructor; no parameters | `ServiceProofs`, which extends both this and `TaskSupervision` |
| `SystemTask`, `MCSystemTask` | `runCmd`, thread, child process | `SystemTaskProofs` |
| `ConfigDownloads`, `MCConfigDownloads` | `ConfigDownloadManagement`, its task, `ConfigDownload` and `FileMgr`, over `TimedConditional` | `ConfigDownloadsProofs` |
| `TaskSupervision`, `MCTaskSupervision` | `ServicesMonitor`, `TaskList`, the start of `AppServices` and several services, over `TimedConditional` | `ServiceProofs` |
| `NetopeerMonitor` | `NetopeerMonService` and the process it keeps | `NetopeerMonitorProofs` |
| `ModuleStartup`, `MCModuleStartup` | `YangModuleMgr::initialise` with the states of `RadioDatastore`; crash and restart | `ModuleStartupProofs` |
| `SftpSessions`, `MCSftpSessions` | `SftpMgr`, `SftpSession` and `TaskEvent` | `SftpSessionsProofs` |

How state and actions correspond to the code:

* **`MpclientSessions`.** `sessions`, `sessionsCounter`, `callbacks` and
  `promises` are the members of those names. `pc[t]` is the place of a gRPC
  thread in its call, named after the lock or the peer it waits for; holding
  `sessionsMutex_` shared is being at one of `ReadingPC`, and a writer's
  critical section, which does not block, is one step that needs no reader.
  `object[s]` is the progress of `~NetconfSession` (erase the callbacks,
  fulfil the promises, free the session), which any thread may be running.
  `ntf`, `at` and `name` are the notification thread's loop over the vector of
  callbacks. References are counted by what holds them: the table, the local
  variables of `connect`, `listen` and `disconnect`, the supervision callback
  between `lock()` and the end of its RPC.
* **`UplaneCarriers`.** A carrier is an entry of either of the handler's maps
  (the tx and rx halves are the same code), an endpoint stands for the leaves
  of its eAxC id. `HandleChange` is SR_EV_CHANGE with `validate` and sysrepo's
  decision: if the edit activates a carrier, validation applies the leaves
  that are not "active" (`AppliesRest`: state entries, and eAxC ids to the
  HAL), all of them or, if a new link ends it with an error, some
  (`LinkRefused`); then the edit is stored (`Commit`) or dropped (`Abort`:
  by this handler, by the HAL's answer or by another subscriber). DONE is one
  step per leaf (`DoneName`, `DoneEaxc`, `DoneActive`, and `Apply` or
  `ApplyRefused` for the HAL's answer, which `valueChange` drops), because the
  HAL's threads run between them. `Report` is a HAL thread entering the state
  callback with any state, at any time, before or after a command returns;
  `CallbackStore` and `CallbackNotify` are the callback. At most `HalThreads`
  of them are under way. `reported` is the last report, `notified` what a
  subscriber who listens to every notification believes, `excused` the
  deactivations that the code does not pass on or the HAL does not take, and
  that `SilentWhenInactive` names. `Restart` leaves the HAL as it was or
  starts it again as well: `initialise` neither asks nor tells it. The
  compression leaves take the path of `handleEaxc` and are ignored there.
* **`ServiceControl`.** A control method holds `mNotify` throughout and is one
  step. The thread is cut wherever it touches what the methods share, so
  `Switch` (read `mControl`), `Apply` (store `mState`) and `Clear` (store
  Noop) are three steps. `accepted` is a history variable: the last control
  answered with its own name and not yet carried out. `running` is
  `Task::mRunning`; `Start` may fail to make a thread, as `pthread_create` may.
* **`SystemTask`.** `call`, `timer` and `task` are the places of callers, of
  the current time-out and of the thread. Pids and exit statuses are named
  after the command's caller, which is what the properties tell apart: `Zero`
  is the value a call starts from and `Minus1` the error of a failed fork or
  `waitpid`. `WaitpidFails` leaves the process running (`child` is "left") and
  the end is signalled; the process is followed up to the next fork.
  `KillServer` is the kill of a pid that is not a child's, which ends all.
* **`ConfigDownloads`.** `job` is what a request leaves for the task
  (`mFileName`, `mTypeDownloading`, `mStatusObject`, `mCondEnd`,
  `mDownloadDoneCallback`), `downloading` is `mIsDownloading`, `url` and `tcp`
  the URL and the transfer function of each `ConfigDownload`. A request that
  holds the lock is one step; a file name with a URL in it takes the lock
  twice (`NameWithUrl`, then `GetAndInstall`). The task is one step per
  call that others can see: `StartWget`, `WgetEnds`, `Move`, `Report`,
  `Finish`, `SignalEnd`, `BackToIdle`. A file is told by its writer, the URL
  it came from and whether it is whole; `writing` are the writers that have
  data to come. `Move` may fail, for want of space or otherwise, and its copy
  may be cut short without anybody noticing. `asked` remembers the URL that
  was set when a request was accepted, `disturbed` that a writer was opened on
  the temporary file while it ran.
* **`TaskSupervision`.** `monitor` is the place of the services monitor,
  `startup`, `stableCount`, `checkCount` its members. Of kick counts only
  the difference to the task list's last one matters (`kicked`). `quiet`
  stands for time: it counts the monitor's periods that have ended since a
  service kicked, and of one that is well at most `Pace` of them, as many as
  its loop may take, end between two kicks. The threads of the monitor and of
  the services may fail to be made, which nobody notices. `Dies` and `Ends`
  differ in what they leave in `mThread`, as `Task::cancel` and `Task::exit`
  do.
* **`NetopeerMonitor`.** `pc` is the place of each of three threads in
  `startService`, `stopService`, `restartService`, `service` or `shutdown`.
  Each store of `mServiceState`, each look at the child (`running()`,
  `wait_for`), its replacement, `startService`'s test of the state and
  `service`'s tests of the two switches are steps of their own
  (`StartFindsNone`, `spawnNetopeerServer`, `SpawnEnds`, `StoreOk`, `Look`,
  `AutoRestart` ...). Two things are together: `stopService`'s test of the
  state with the termination it leads to (`Terminate`), and the kill of
  `terminate()` with the end of the process.
  `SpawnThrows` is `bp::child`'s exception, which nobody catches: it ends the
  application. `Suspend`, `Resume` and `Obey` are what the base class adds: a
  shutdown is posted only to a running service.
* **`ModuleStartup`.** One step per call of sysrepo and outcome; "thrown" is
  an exception on its way to `main`. `Restart` forgets everything but what
  sysrepo keeps.
* **`SftpSessions`.** `held` and `cached` are the `shared_ptr`s, so the use
  count is counted; `object` is the progress of the two destructors, `thread`
  that of `TaskEvent::run` and `runEvent`, which is "none" for ever if
  `pthread_create` failed. A caller may leave without its answer, close a
  session itself (`DisconnectItself`) or close all (`DisconnectAll`); `cut`
  remembers the sessions closed in these two ways. Data is counted in
  buffers, and a piece is its position.
* **`TimedConditional`.** A blocked waiter first *expires* and only then takes
  the mutex again (`GiveUp`); a signal in between is cleared.

Taken as given, and why:

* `Service::start()` and `Task::start()` are called once per object:
  `AppServices::start` refuses a second call.
* The thread of a `SystemTask` exists. What follows when it does not (the
  caller waits, and kills on time-out) is what follows a lost start signal,
  which is modelled.
* `applicationFailed`, `uninstallModule`, `makePersistent` and
  `TaskPeriodicEvent` have no caller in the tree and are not actions.
* Calls of `SftpMgr` do not overlap: it has no lock, so its callers must take
  turns. A caller has one transfer under way at a time.
* The HAL does not report a carrier's state from two threads at once. Nothing
  else is assumed of it: not that it takes a command, not that it reports
  what it has taken.
* A service that is well kicks within the number of the monitor's periods
  that its loop may span (`Pace`): one for a loop of 100 ms, two for 1000 ms.
* netopeer2-server takes less than the second `spawnNetopeerServer` sleeps to
  find out that another one serves.
* sysrepo runs one edit of a module at a time and calls DONE after every
  CHANGE has been accepted; a lost edit is `Abort`.
* An operation on a `std::map` or a `std::string` is one step. Two threads use
  the carrier maps without a lock; what a torn access would do is undefined
  and nothing is claimed about it.
* The result of an RPC, the text of commands, the content of notifications and
  logging are left out.

## 3. What is checked

Twelve runs: ten pass, two show documented promises that the code breaks.

### Runs that pass

| Run | Instance | Distinct states | Shows |
|---|---|---|---|
| `mpclient_safety` | 3 threads, 2 sessions, 2 callbacks, 2 notifications, supervision | 2.96 million | `TypeOK`; `WriterAlive`: no callback outlives the call whose writer it captured; `SessionAlive`: nobody sends on a session in destruction; `IterationValid`: nobody changes the table of callbacks while a notification is being dispatched; `NothingOutlivesSession`: nothing is left under a freed address |
| `mpclient_streams` | 2 threads, 2 sessions, no supervision | 13.5 thousand | `StreamsEnd`, `RemovedSessionFreed`: after `disconnect` has removed a session its destructor runs to the end and every stream on it returns |
| `uplane_safety` | 2 carriers, 1 set of parameters, 1 endpoint with 1 eAxC id, 1 HAL thread, refusals, restarts | 1.16 million | `TypeOK`; `SilentWhenInactive`: a carrier that the HAL called BUSY or READY and whose deactivation it takes is not left activated; `OperationalIsReported`: the stored state is the HAL's last report; `NotifiedIsOperational`; `FollowsDatastore`: refinement of `CarrierControl` |
| `service_safety` | whole model | 2748 | `TypeOK`; `NeverCalledSuspended`; `ControlStillFits`: a control read late fits the state it is applied in; `SuspensionHolds`: only an accepted resume or a shutdown ends a suspension; `DestructionEnds` |
| `system_task_safety` | 2 callers | 13.5 thousand | `TypeOK`; `OwnResult`: a returning call has its own command's status, or -1; `CommandWithinCall`: no process outlives its call but one whose `waitpid` failed, and then the call returns -1 |
| `config_downloads` | 2 callers, 1 type, 2 URLs | 640 thousand | `TypeOK`; `ReleasedByOwnDownload`: a released caller's own file was fetched and its status object tells how; `OwnTransfer`: a transfer function is called for its own installation only; `InstalledAsAsked`: a named download that ends well has installed its requester's file from the URL set when it was accepted, or that of a writer opened meanwhile; `StartedIsReported`: a download that was taken up ends in a signal, if wget's `runCmd` returns |
| `task_supervision` | 2 services in different orders in the task list and at start, with loops of 2 periods and 1, start-up of 2 ticks, check every 5, as in the code | 545 thousand | `SupervisionTypeOK`; `HealthySpared`: unless the start was late, of services whose loops fit the rate only one that hung is cancelled; `HangingIsCancelled` |
| `netopeer_monitor` | 3 process identities | 654 thousand | `Managed`: no process but the one in `mNetopeerProcess`, unless the operator starts one while automatic restart is, or was, on, monitoring off, or shutdown under way; `NoneLeft` after shutdown; `Replaced` with automatic restart |
| `module_startup` | 4 modules in 2 lists, one in both, features on two | 131 | `TypeOK`, with the fact that SETUP_FAILURE is never recorded; `UpIsComplete` |
| `sftp_sessions` | 2 callers, an upload and a download of 1 buffer, 2 session objects in turn | 331 thousand | `TypeOK`; `SessionAlive`: no session is closed or destroyed under a holder, but closed by `disconnectAll` or a holder's own `disconnect()`; `CacheIsLive`; `EveryJobAnswered` and `DestructionEnds`, as long as libssh's calls return |

Each property has a mutant: a plausible slip in the modelled code (a
dropped guard, a swapped order, a missing reset; the definitions marked
*Faulty*) under which TLC finds it violated in the same run.

Why the bounds are enough. Mpclient: a race needs a thread that waits on a
stream, one in `disconnect` and one that arrives in between, hence three; a
second session lets a call use the wrong one; two callbacks are a stream and a
supervision, or two streams, in one vector; two notifications let a handler
run before and after a change. Uplane: the only state carriers share is the
walk over the edit, so two of them show every order of one against the
other; parameters and eAxC ids only have to differ from none to show what
reaches the HAL; and a second thread of the HAL works on another carrier's
entry, which no property relates to the first one's. Services need no bound:
the model is finite. SystemTask: a second caller is enough to be refused, to
follow, and to be mistaken for the first; further ones wait for the same
mutex. What depends on the bounds least is proved without them (section 4).
ConfigDownloads: one download at a time, so a second caller is enough to be
refused, to follow and to interfere, and one type to be interfered with; two
URLs are the right one and another. TaskSupervision: the scan of the list
stops at the first stuck service, so two show one before and one behind. A
loop of two periods is the longest that the code's rate of 5 spares;
`HealthySpared` says so by its condition, and without it TLC refutes a loop
of three. NetopeerMonitor: three threads may have a process
each. ModuleStartup: two modules in one list are one before and one behind a
failure, and two lists are all there are. Sftp: two callers share, and follow
each other; two objects let a session be replaced; two buffers, in
`sftp_data_upload`, are one and the next.

`CHECK_DEADLOCK FALSE` is set where the system may rest: streams wait for
ever on sessions that stay connected, a destroyed service or task has no
successor, a caller of a download may wait for ever after `shutdown()`, the
server ends or aborts, a monitor and services without threads do nothing, and
the supply of SFTP session objects is bounded. The carrier model is checked
for deadlock.

Fairness, and why the code justifies it:

* Mpclient: weak fairness of each gRPC thread inside a call and of the session
  and notification threads: they are scheduled, and RPCs end (libnetconf2
  times them out). No fairness is put on clients. `disconnect` may wait for
  ever for `sessionsMutex_` while readers keep coming, so the properties
  start from the removal.
* Uplane: none. Every property of the carriers is one of safety.
* Services: weak fairness of the thread (its waits are timed), of a caller
  inside `shutdown()` and of the destructor's exit; strong fairness of a
  destructor's retry that finds the thread waiting: it retries every
  millisecond and the thread waits for most of its period. Without it every
  retry could be wiped.
* ConfigDownloads: weak fairness of the task, whose waits are timed, outside
  wget and the transfer function, and of a caller that was signalled. wget
  runs under `SystemTask::runCmd`, which may lose its end signal (`CallReturns`
  below), so `StartedIsReported` has as its hypothesis that wget always ends;
  the transfer of a caller's own data need not end.
* TaskSupervision: weak fairness of the monitor, which has the highest
  priority, of a well service's loop, and of a cancelled thread's end. The main
  thread may hang after it has started the monitor.
* NetopeerMonitor: weak fairness of the threads and of a started process's
  decision to serve or to exit; none of crashes or the operator.
* Sftp: weak fairness of a call in progress and of the thread outside libssh.
  Of libssh nothing is assumed: `SshSession` sets no time-out, and a job's timer
  is read only between its calls. That they return is the hypothesis of both
  properties (`LibraryReturns`), and `EveryJobAnswered` excepts sessions whose
  thread could not be created.

### The runs that show a disagreement

| Run | Property | What TLC finds |
|---|---|---|
| `mpclient_supervision` | `StreamsEnd` | `disconnect` during the supervision callback's RPC leaves that callback the last reference: the destructor asks for a lock its own thread holds shared, and the streams never return (`NetconfSession.cpp:60`) |
| `sftp_data_upload` | `OkIsWhole` | every piece of a `dataUpload` is taken from `begin()` (`SftpSession.cpp:671`): a string of two buffers is reported without an error although its first half was sent twice and the second never. With `DiskFull`, a short `write` (`:624`) does the same to a download |

### Stated, violated, without a run of their own

These properties are in the modules, and TLC refutes them with the constants
of the runs above unless others are named.

| Property | What the code does |
|---|---|
| `UplaneCarriers!DeactivationPassedOn` | ACTIVE followed quickly by INACTIVE, before the HAL has reported anything, is taken for "already disabled" and not passed on (`OranUplaneConfHandler.cpp:309`); so is any deactivation after a restart. The example HAL never reports |
| `UplaneCarriers!RefusedLeavesNoTrace` | eAxC ids of an edit that is refused stay with the HAL (`:193-212`) |
| `UplaneCarriers!ValidatedIsProposed` | `validate` tests "active" with the parameters of the running datastore, which does not hold the edit yet (`:399`) |
| `UplaneCarriers!AcceptedIsApplied` | what the HAL refuses when it is applied nobody is told (`:162`) |
| `UplaneCarriers!ActiveIsProvided` | after a restart, carriers ACTIVE in the datastore are not activated (`:109`) |
| `UplaneCarriers!SleepRefusesRest` | a carrier in SLEEP is accepted as INACTIVE (`:183`) |
| `ServiceControl!UsedControlIsKept` | an accepted control is wiped by the thread's unlocked `mControl = Noop` (`Service.cpp:201`) |
| `ServiceControl!ServiceKeepsBeingCalled` | a control whose signal is lost stays in the mailbox: the thread neither carries it out nor calls `service()` until the next signal |
| `ServiceControl!ShutdownIsFinal` | `shutdown()` of a task that is just starting is overwritten by `ServiceRunning` |
| `ServiceControl!DestructorHolds` | a suspended or resetting service is destroyed under its thread |
| `SystemTask!KillsTheCommand` | a lost start signal makes the time-out call `kill(0, SIGKILL)` (`SystemTask.cpp:158`) |
| `SystemTask!RefusedOnlyWhenBusy` | `mExecuting` is cleared after the end is signalled, so the next call may still be refused |
| `SystemTask!CallReturns` | a lost signal and no time-out: the caller waits for ever |
| `SftpSessions!QueueAlive` | `done`, once false, stays so: after the last job's callback the thread takes `mMutex` once more, of an object the caller may have destroyed (`SftpSession.cpp:410`) |
| `SftpSessions!ObjectOutlivesThread` | `TaskEvent::shutdown` does not wait for a thread that has not begun to run (`TaskEvent.cpp:49`) |
| `SftpSessions!JobHasSession` | a use count of two is "safe to shut down" (`SftpMgr.cpp:160`) although the caller's own job may be running; `disconnectAll` (`:180`) asks nobody |
| `ConfigDownloads!InstalledIsVerified` | a writer opened during a download (`ConfigDownloadManagement.cpp:406`), or a copy cut short, is installed and reported as a success |
| `NetopeerMonitor!OneServer` | the test interface's commands do not take the mutex that is to hold them off `service()` (`NetopeerMonService.cpp:217`) |

Met on the way, and visible in the models' actions, for whoever works on the
code:

* Downloads: a lost start signal leaves `mIsDownloading` set for ever and the
  caller waiting; `getAndInstall` may return another's `mDownloadOk`; the URL
  set by its first critical section may be replaced before the second; a type
  registered late has no URL; `configInstall` of an unknown type leaves its
  dummy URL behind; a writer opened during a download diverts it; the
  installed file is removed before the new one is there.
* Task supervision: STABLE may be overwritten by FAILED; a hog, or a service
  already cancelled, first in the list shields those behind it; a service that
  ended by itself is not noticed; nothing reboots the head, although
  `OranRrhAppControl.cpp:51` says so, as the watchdog is kicked whatever
  happens.
* Netopeer: with automatic restart off the status stays RUNNING after a
  crash, and `startService` then does nothing; a start after FAILED, or from
  two threads, may lose track of a live process (`Managed` says when it
  cannot); a process that cannot be forked ends the server by an exception;
  with automatic restart on, shutdown may be followed by a new start.
* Start-up: a failed set-up ends as an exception, past `setStatus(FAILED)`;
  "Unable to find module" is never reached, as `operator[]` has inserted the
  name; netopeer serves before the handlers have subscribed.

## 4. What is proved

TLAPS checks 5083 obligations, for every value of the constants.

| Theorem | States | Rests on |
|---|---|---|
| `MpclientSessionsProofs!TypeCorrect`, `WriterAliveTheorem`, `SessionAliveTheorem`, `IterationValidTheorem`, `NothingOutlivesTheorem` | the safety properties of `mpclient_safety`, any number of threads, sessions, callbacks, notifications | `BoundAssumption` |
| `UplaneCarriersProofs!TypeCorrect`, `SilentTheorem`, `OperationalTheorem`, `NotifiedTheorem` | the safety properties of `uplane_safety`, any carriers, parameters and endpoints, whatever the HAL takes, refuses and reports on any number of threads | `ConfigAssumption` |
| `UplaneCarriersProofs!Refinement` | `Spec => FollowsDatastore`: every step of the handler is a step of `CarrierControl` or a stutter | `ConfigAssumption` |
| `ServiceProofs!ServiceTypeCorrect`, `NeverCalledSuspendedTheorem`, `ControlStillFitsTheorem`, `SuspensionTheorem` | those of `service_safety` but the liveness | nothing: the module has no constants |
| `ServiceProofs!SupervisionTypeCorrect`, `HealthySparedTheorem` | `SupervisionTypeOK` and `HealthySpared` of `task_supervision`, any services in any orders, any start-up time, check rate and length of the loops | `SupervisionAssumption` |
| `SystemTaskProofs!TypeCorrect`, `OwnResultTheorem`, `CommandWithinCallTheorem` | those of `system_task_safety`, any number of callers | `CallerAssumption` |
| `NetopeerMonitorProofs!TypeCorrect`, `OnlyTheChild`, `ShutdownLeavesNone` | the types, `Managed` and `NoneLeft`, any number of processes | nothing |
| `ModuleStartupProofs!TypeCorrect`, `Complete` | `TypeOK` and `UpIsComplete`, any lists of modules and features | `ListsAssumption` |
| `ConfigDownloadsProofs!TypeCorrect`, `ReleasedByOwnDownloadTheorem`, `OwnTransferTheorem`, `InstalledAsAskedTheorem` | the safety properties of `config_downloads`, any callers, types and URLs | `NamesAssumption` |
| `SftpSessionsProofs!TypeCorrect`, `CacheIsLiveTheorem`, `SessionAliveTheorem` | the safety properties of `sftp_sessions`, any callers (finitely many), sessions and transfers, whether callers wait for their answers or not | `TransferAssumption` |

Each proof module shows that an inductive invariant holds initially and is
kept by each action, one lemma or step per action, and derives the theorems
from it. The invariants, and why the properties alone do not suffice:

* **Mpclient** (`TypeOK /\ Inv`): `WriterAlive` is lost in one step if a
  promise could be set while its callback is still registered, so `PromiseInv`
  ties every stream callback to a promise and every promise to a thread that
  waits for it; `LifeInv` says what each stage of the destructor has undone;
  `ReferenceInv` that a reader keeps its session in the table and that a call
  with a pointer of its own keeps the object open; `TableInv` that the table
  holds open sessions; `NtfInv` what the notification thread holds inside callbacks.
  `IterationValid` needs no more than its steps: all that change the table
  need the lock that the dispatcher holds.
* **Uplane** (`Inv`): that the stored state is the last report
  (`OperationalIsReported`) is what makes the decision not to call the HAL one
  about reports, and with it `SilentWhenInactive` inductive; that a carrier
  may be created again needs `NothingWithoutEntry`, and the callback between
  its steps `CallbackHasReport`. The proof works one carrier at a time
  (`Local`, `Silent`), as an action changes one of them and leaves the others
  be. The refinement maps an edit, with what validation has sent to the HAL,
  to `Accept` or `Refuse`, and the HAL's acceptance to `Follow`.
* **Services** (`Inv`): `ControlStillFits` speaks of the control the thread has
  read; `MailboxFits` says what the mailbox may hold in each state, also while
  the thread is between applying and clearing, `StateFitsPc` which states go
  with which places, `ResumeWasAccepted` that a resume in the mailbox of a
  suspended service is one that was answered.
* **SystemTask** (`Inv`): the command is in exactly one place: entering,
  handed over by the start flag, worked on, answered by the end flag, or
  leaving (`Entering`, `Handed`, `Working`, `Answered`, `Leaving`), and
  `Holding` ties it to the mutex. A process left behind by `waitpid` goes with
  a status of -1 until the next command's fork. That no end flag is left
  behind by an earlier call is what makes `OwnResult` true.
* **Netopeer** (`Inv`): a start loses track of a process only if the child it
  replaces is running. `StateFits` says that a state other than RUNNING means
  a child that is gone, unless it is just being started; `Gone` that where a
  thread acts on what it saw of the child, between the look and the store,
  nobody has replaced the child since; `Places`, `Starters` and `Sequenced`
  say which threads can be starting a process at all. `NoneLeft` is `Down`,
  which begins where the stop ends.
* **Start-up** (`Inv`): `DoneSoFar` says that, as long as there is a
  connection, every module before the current one is complete, `AllDone`
  carries that past the last list, and `Counting` that a list cut short cannot
  have as many successes as modules. `Configuring` puts the datastore in the
  states from which `setState` refuses SETUP_FAILURE.
* **Downloads** (`Inv`): the settings of a request are shared members, so
  nothing holds of them by themselves. `Exclusive` says that `mIsDownloading`
  covers a request from its start signal to its end, so that nobody else
  writes them; `JobFits` that while it does they are all of one request, by
  name (no transfer function anywhere) or by writer (one, the requester's);
  `WaitsForOwn` that a caller waits for the task's current request or for one
  that has ended and was reported; `UrlsAgree` that a type's URL is the
  manager's, and `FilesFit` follows the URL a request was accepted with, or a
  writer who came in between, into the temporary and the installed file.
* **Supervision** (`SupervisionInv`): `InTime` counts the ends of periods
  before the next check (`PeriodsLeft`): a service that has not kicked since
  the last one has the rest of its loop before it, and one period more.
  `FreeTicks` are the ticks that no period ends: one that was under way and
  one that `applicationStable`'s signal causes; with them the first check
  leaves enough exactly for loops of the check rate less three periods
  (`Spared`). `Phases` says that no check is counted before the services are
  started unless the application was late, `Suspects` who may be cancelled
  between the check that finds it and its end.
* **Sftp** (`Inv`): `Pointers` says that whoever destroys a session is its only
  holder, from the use count (`HolderCounts`, over the cardinality of the
  holders), and that pointers in use are to living objects. `CacheIsLive` and
  `SessionAlive` hold each other: a session is connected only in the cache, so
  `disconnectSession`, which counts its users before it closes what it finds
  there, closes the caller's own session and nobody else's. `JobTypes` is what
  the types of a thread's job need.

Model-checked only: the liveness properties, as liveness under fairness is out
of the prover's reach, and all violations. Every safety property that a
passing run checks is also a theorem.

## 5. What is not modelled

Operations of modelled parts that are left out: items, subscriptions and
notifications of the datastore driver (section 6); the single leaves of an
eAxC id (those that an edit leaves alone are sent as zeroes after a restart,
`OranYangCarrierMgr.cpp:447`), compression and static resources of the carrier
handler; parsing of downloaded files;
execution-time accounting and observers of services; progress reports;
`clearSysrepo`, which removes sysrepo's shared memory under the server's own
connection; signal handlers of the application; key types and debug levels of
SFTP sessions.

Parts that are left out:

* `IetfInterfacesHandler` and `OranProcessingElementHandler` hand the HAL
  `c_str()` of strings that no longer exist when the HAL is called: what it
  gets is undefined, so a model could only say "anything". Read beside the
  code, they also forget deletions, one of them throws when a ru-element is
  created with another leaf before its vlan-id, which ends the walk over the
  rest of the edit in SR_EV_DONE and is reported as success
  (`HandlerCallback.cpp:311`), and marking of the u-plane is
  written to the c-plane's.
* The remaining handlers fill static data into the datastore once.
* `YangPersist`: `makePersistent` has no caller, so nothing is persisted.
* Generated YANG classes, data types and conversions, options, logging, the
  ssh wrapper, the configuration parser, xcommon's general-purpose algorithms
  (compression, hashes, transforms, wave files; partly third-party), the HAL's
  table of functions and example vendors, climp, client demonstrations and
  tests: sequential code that keeps no state between calls.
* Board support: recipes, and hardware descriptions of which four generated
  files alone (`psu_init*`) are 120,000 of the repository's 290,000 lines.
  With the generated YANG classes, the 12,000 lines of static access rules and
  the vendored compressor, most of the repository has no behaviour of its own;
  the models cover the parts that run concurrently or survive failures.

## 6. Plan

1. `DatastoreEdits`: the shared sessions of `RadioDatastoreSysrepo` with their
   pending edits. `setItem` leaves its edit in the session when
   `apply_changes` fails (`RadioDatastoreSysrepo.cpp:356`), and it goes out
   with, or spoils, the next one.
2. `HandlerCallback` over several changes and exceptions, once the handlers
   that would use it hand on values that can be modelled.
