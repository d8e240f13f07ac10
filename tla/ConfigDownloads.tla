--------------------------- MODULE ConfigDownloads ---------------------------
(***************************************************************************)
(* ConfigDownloadManagement, its task, and the ConfigDownload and FileMgr  *)
(* objects the task drives.  Callers ask for a file by name, and wait, or  *)
(* install one that they write themselves (the "TCP" transfer).  One lock  *)
(* and mIsDownloading admit one download at a time; the task reads the     *)
(* download's settings, and ends it, without the lock.                     *)
(*                                                                         *)
(* A caller stands for the file it names and for its status object.  A     *)
(* file's contents are told by who wrote them, from which URL, and whether *)
(* they are all there.  Removal of old files and wget's opening of the new *)
(* one are one step, and removals succeed.                                 *)
(***************************************************************************)
CONSTANTS Caller, ConfigType, Url,
  None,   \* an empty string, a null pointer, no file
  Dummy   \* "dummy.xml", and the URL "tcp-download"

ASSUME NamesAssumption ==
  /\ Dummy # None
  /\ {Dummy, None} \cap Caller = {}
  /\ {Dummy, None} \cap ConfigType = {}
  /\ {Dummy, None} \cap Url = {}

VARIABLES
  call,       \* per caller: away, named, waiting, checking, installing
  want,       \* per caller: the type it asks for
  released,   \* per caller: its end signal's condFlag
  status,     \* per caller: its call's status object: running, ok, failed
  types,      \* the keys of mConfigDownloadMap
  url,        \* mServerUrl of the manager and of each ConfigDownload
  tcp,        \* mTcpTransfer of each ConfigDownload: whose writer
  writing,    \* per caller: the types whose FileMgrWriter has data to come
  temp,       \* the file in the temporary directory, by type
  installed,  \* the installed file, by type
  downloading,\* mIsDownloading
  job,        \* the settings of the download the task is given
  ok,         \* mDownloadOk
  task,       \* where the task is
  taskRunning,\* mTaskRunning
  startFlag, startWaiter, \* mCondStart
  fetched,    \* history: how the fetching of each caller's file ended, until
              \* its call returns
  disturbed,  \* history: a writer was opened for the download's type
  asked       \* history: the server's URL when the download was accepted

client  == <<call, want, released>>
objects == <<types, url, tcp>>
files   == <<writing, temp, installed>>
manager == <<downloading, job>>
starts  == <<startFlag, startWaiter>>
history == <<fetched, disturbed, asked>>
vars    == <<client, status, objects, files, manager, ok, task, taskRunning, starts,
             history>>

mCondStart == INSTANCE TimedConditional WITH flag <- startFlag, waiter <- startWaiter

Manager == Dummy   \* the manager's own entry in url
NoFile == [by |-> None, from |-> None, whole |-> FALSE]
File(c, u, w) == [by |-> c, from |-> u, whole |-> w]

Init ==
  /\ call = [c \in Caller |-> "away"]
  /\ want = [c \in Caller |-> None]
  /\ released = [c \in Caller |-> FALSE]
  /\ status = [c \in Caller |-> "ok"]
  /\ types = {}
  /\ url = [t \in ConfigType \union {Manager} |-> None]
  /\ tcp = [t \in ConfigType |-> None]
  /\ writing = [c \in Caller |-> {}]
  /\ temp = [t \in ConfigType |-> NoFile]
  /\ installed = [t \in ConfigType |-> NoFile]
  /\ downloading = FALSE
  /\ job = [file |-> None, type |-> None, status |-> None, end |-> None,
            done |-> None, clean |-> FALSE]
  /\ ok = TRUE
  /\ task = "loop"
  /\ taskRunning = TRUE
  /\ mCondStart!Initial
  /\ fetched = [c \in Caller |-> "none"]
  /\ disturbed = FALSE
  /\ asked = None
-----------------------------------------------------------------------------
(* The callers *)

Goes(c, pc) == call' = [call EXCEPT ![c] = pc]

(* addConfigDownloadType: the object starts with no URL of its own. *)
AddConfigDownloadType(t) ==
  /\ t \notin types
  /\ types' = types \union {t}
  /\ UNCHANGED <<client, status, url, tcp, files, manager, ok, task, taskRunning,
                 starts, history>>

(* setRemoteUrlNoMutex *)
SetUrl(u) ==
  url' = [t \in DOMAIN url |-> IF t \in types \union {Manager} THEN u ELSE url[t]]

(* setRemoteUrl *)
SetRemoteUrl(u) ==
  /\ ~downloading
  /\ SetUrl(u)
  /\ UNCHANGED <<client, status, types, tcp, files, manager, ok, task, taskRunning,
                 starts, history>>

(* Faulty: the URL may change during a download. *)
NameWithUrlAnyTime(c, t, u) ==
  /\ call[c] = "away"
  /\ SetUrl(u)
  /\ Goes(c, "named")
  /\ want' = [want EXCEPT ![c] = t]
  /\ UNCHANGED <<released, status, types, tcp, files, manager, ok, task, taskRunning,
                 starts, history>>

(* A call of getAndInstall.  A URL in the file's name is set first, in a   *)
(* critical section of its own; during a download the call ends there.     *)
NameWithUrl(c, t, u) ==
  /\ call[c] = "away" /\ ~downloading
  /\ SetUrl(u)
  /\ Goes(c, "named")
  /\ want' = [want EXCEPT ![c] = t]
  /\ UNCHANGED <<released, status, types, tcp, files, manager, ok, task, taskRunning,
                 starts, history>>

NamePlain(c, t) ==
  /\ call[c] = "away"
  /\ want' = [want EXCEPT ![c] = t]
  /\ Goes(c, "named")
  /\ UNCHANGED <<released, status, objects, files, manager, ok, task, taskRunning,
                 starts, history>>

Refused(c) == url[Manager] = None \/ downloading \/ want[c] \notin types

RefuseDownload(c) ==
  /\ call[c] = "named" /\ Refused(c)
  /\ Goes(c, "away")
  /\ want' = [want EXCEPT ![c] = None]
  /\ UNCHANGED <<released, status, objects, files, manager, ok, task,
                 taskRunning, starts, history>>

(* What both kinds of request do once they are accepted. *)
Request(c) ==
  /\ downloading' = TRUE
  /\ ok' = TRUE
  /\ status' = [status EXCEPT ![c] = "running"]
  /\ mCondStart!Signal
  /\ fetched' = [fetched EXCEPT ![c] = "none"]
  /\ asked' = url[Manager]
  /\ UNCHANGED <<types, files, task, taskRunning, disturbed>>

(* Faulty: the type is not looked up. *)
BlindGetAndInstall(c) ==
  /\ call[c] = "named" /\ url[Manager] # None /\ ~downloading
  /\ Goes(c, "waiting")
  /\ released' = [released EXCEPT ![c] = FALSE]
  /\ job' = [file |-> c, type |-> want[c], status |-> c, end |-> c, done |-> None,
             clean |-> FALSE]
  /\ want' = [want EXCEPT ![c] = None]
  /\ Request(c)
  /\ UNCHANGED <<url, tcp>>

GetAndInstall(c) ==
  /\ call[c] = "named" /\ ~Refused(c)
  /\ Goes(c, "waiting")
  /\ released' = [released EXCEPT ![c] = FALSE]
  /\ job' = [file |-> c, type |-> want[c], status |-> c, end |-> c, done |-> None,
             clean |-> FALSE]
  /\ want' = [want EXCEPT ![c] = None]
  /\ Request(c)
  /\ UNCHANGED <<url, tcp>>

(* endSignal->wait(), then isDownloadOk, which returns mDownloadOk as it   *)
(* is by then; the call's status object goes with the call.                *)
WaitEnds(c) ==
  /\ call[c] = "waiting" /\ released[c]
  /\ released' = [released EXCEPT ![c] = FALSE]
  /\ Goes(c, "checking")
  /\ UNCHANGED <<want, status, objects, files, manager, ok, task, taskRunning, starts,
                 history>>

IsDownloadOk(c) ==
  /\ call[c] = "checking"
  /\ Goes(c, "away")
  /\ status' = [status EXCEPT ![c] = "ok"]
  /\ fetched' = [fetched EXCEPT ![c] = "none"]
  /\ UNCHANGED <<want, released, objects, files, manager, ok, task,
                 taskRunning, starts, disturbed, asked>>

(* getConfigFileWriter: no lock, and no look at mIsDownloading. *)
GetConfigFileWriter(c, t) ==
  /\ call[c] = "away" /\ t \in types
  /\ writing' = [writing EXCEPT ![c] = @ \union {t}]
  /\ temp' = [temp EXCEPT ![t] = File(c, None, FALSE)]
  /\ installed' = [installed EXCEPT ![t] = NoFile]
  /\ disturbed' = (disturbed \/ (downloading /\ t = job.type))
  /\ UNCHANGED <<client, status, objects, manager, ok, task, taskRunning, starts,
                 fetched, asked>>

(* The last addData.  It goes to the file that was opened, which may be in *)
(* the directory no more.                                                  *)
AddData(c, t) ==
  /\ t \in writing[c]
  /\ writing' = [writing EXCEPT ![c] = @ \ {t}]
  /\ temp' = IF temp[t] = File(c, None, FALSE)
               THEN [temp EXCEPT ![t].whole = TRUE] ELSE temp
  /\ UNCHANGED <<client, status, objects, installed, manager, ok, task, taskRunning,
                 starts, history>>

(* configInstall.  mCondEnd is left as it was. *)
ConfigInstall(c, t) ==
  /\ call[c] = "away" /\ ~downloading
  /\ IF url[Manager] = None THEN SetUrl(Dummy) ELSE UNCHANGED url
  /\ t \in types
  /\ Goes(c, "installing")
  /\ job' = [file |-> Dummy, type |-> t, status |-> c, end |-> job.end, done |-> c,
             clean |-> (url[Manager] = None)]
  /\ tcp' = [tcp EXCEPT ![t] = c]
  /\ Request(c)
  /\ UNCHANGED <<want, released>>

(* The dummy URL is set before the type is looked up. *)
RefuseInstall(c, t) ==
  /\ call[c] = "away"
  /\ IF downloading \/ url[Manager] # None THEN UNCHANGED url ELSE SetUrl(Dummy)
  /\ downloading \/ t \notin types
  /\ UNCHANGED <<client, status, types, tcp, files, manager, ok, task, taskRunning,
                 starts, history>>
-----------------------------------------------------------------------------
(* The task *)

Shutdown ==
  /\ taskRunning
  /\ taskRunning' = FALSE
  /\ UNCHANGED <<client, status, objects, files, manager, ok, task, starts, history>>

Steps(from, to) == task = from /\ task' = to

Loop ==
  /\ Steps("loop", IF taskRunning THEN "wait" ELSE "ended")
  /\ UNCHANGED <<client, status, objects, files, manager, ok, taskRunning, starts,
                 history>>

Wait ==
  /\ \/ (mCondStart!Block \/ mCondStart!Expire) /\ Steps("wait", "wait")
     \/ mCondStart!GiveUp /\ Steps("wait", "loop")
     \/ (mCondStart!Pass \/ mCondStart!Wake) /\ Steps("wait", "begin")
  /\ UNCHANGED <<client, status, objects, files, manager, ok, taskRunning, history>>

(* ConfigDownload::getAndInstall: checkData, then downloadFile.  Its       *)
(* RUNNING state is set and tested by this thread alone.                   *)
CheckDataFails ==
  /\ Steps("begin", "failed")
  /\ url[job.type] = None
  /\ UNCHANGED <<client, status, objects, files, manager, ok, taskRunning, starts,
                 history>>

StartTcp ==
  /\ Steps("begin", "tcp")
  /\ url[job.type] # None /\ tcp[job.type] # None
  /\ UNCHANGED <<client, status, objects, files, manager, ok, taskRunning, starts,
                 history>>

(* FileMgr::download: downloadStart removes both files, wget starts. *)
StartWget ==
  /\ Steps("begin", "wget")
  /\ url[job.type] # None /\ tcp[job.type] = None
  /\ temp' = [temp EXCEPT ![job.type] = File(job.file, url[job.type], FALSE)]
  /\ installed' = [installed EXCEPT ![job.type] = NoFile]
  /\ UNCHANGED <<client, status, objects, writing, manager, ok, taskRunning, starts,
                 history>>

(* wget's own file is not the one in the directory if a writer was opened. *)
WgetEnds ==
  /\ \/ Steps("wget", "failed") /\ UNCHANGED temp
     \/ /\ Steps("wget", "move")
        /\ temp' = IF temp[job.type].by = job.file /\ temp[job.type].from # None
                     THEN [temp EXCEPT ![job.type] = File(job.file, temp[job.type].from, TRUE)]
                     ELSE temp
  /\ UNCHANGED <<client, status, objects, writing, installed, manager, ok, taskRunning,
                 starts, history>>

(* The caller's transfer function: true once all of its data is written. *)
TcpEnds ==
  /\ \/ Steps("tcp", "failed")
     \/ Steps("tcp", "move") /\ job.type \notin writing[tcp[job.type]]
  /\ UNCHANGED <<client, status, objects, files, manager, ok, taskRunning, starts,
                 history>>

(* downloadComplete, and the end of the TCP transfer: an absent file is an *)
(* error, one of no length too unless it came by TCP, and so are too       *)
(* little space and a copy that cannot be opened.  What is copied may be a *)
(* writer's, with part of its data; nobody looks whether the copy is       *)
(* complete.                                                               *)
Move ==
  /\ \/ Steps("move", "failed") /\ UNCHANGED installed
     \/ /\ Steps("move", "installed") /\ temp[job.type] # NoFile
        /\ \E w \in BOOLEAN :
             installed' = [installed EXCEPT ![job.type] =
                             [temp[job.type] EXCEPT !.whole = @ /\ w]]
  /\ temp' = [temp EXCEPT ![job.type] = NoFile]
  /\ UNCHANGED <<client, status, objects, writing, manager, ok, taskRunning, starts,
                 history>>

(* Faulty: a failure is not reported. *)
ReportSuccess ==
  /\ task \in {"failed", "installed"}
  /\ task' = "finish"
  /\ ok' = (task = "installed")
  /\ LET r == IF task = "installed" THEN "ok" ELSE "failed"
     IN /\ status' = IF ok' THEN [status EXCEPT ![job.status] = r] ELSE status
        /\ fetched' = [fetched EXCEPT ![IF job.file = Dummy THEN tcp[job.type]
                                        ELSE job.file] = r]
  /\ UNCHANGED <<client, objects, files, manager, taskRunning, starts, disturbed,
                 asked>>

(* mDownloadOk and the status object. *)
Report ==
  /\ task \in {"failed", "installed"}
  /\ task' = "finish"
  /\ ok' = (task = "installed")
  /\ LET r == IF task = "installed" THEN "ok" ELSE "failed"
     IN /\ status' = [status EXCEPT ![job.status] = r]
        /\ fetched' = [fetched EXCEPT ![IF job.file = Dummy THEN tcp[job.type]
                                        ELSE job.file] = r]
  /\ UNCHANGED <<client, objects, files, manager, taskRunning, starts, disturbed,
                 asked>>

(* Faulty: the transfer function is left in place. *)
ForgetfulFinish ==
  /\ Steps("finish", "signal")
  /\ IF job.done = None
       THEN UNCHANGED <<call, url, status, fetched>>
       ELSE /\ status' = [status EXCEPT ![job.done] = "ok"]
            /\ fetched' = [fetched EXCEPT ![job.done] = "none"]
            /\ IF job.clean THEN SetUrl(None) ELSE UNCHANGED url
            /\ Goes(job.done, "away")
  /\ job' = [job EXCEPT !.status = None]
  /\ UNCHANGED <<want, released, types, tcp, files, downloading, ok, taskRunning,
                 starts, disturbed, asked>>

(* mDownloadDoneCallback, on which the installing call ends, and the       *)
(* manager lets go of the status object.                                   *)
Finish ==
  /\ Steps("finish", "signal")
  /\ IF job.done = None
       THEN UNCHANGED <<call, url, tcp, status, fetched>>
       ELSE /\ status' = [status EXCEPT ![job.done] = "ok"]
            /\ fetched' = [fetched EXCEPT ![job.done] = "none"]
            /\ tcp' = [tcp EXCEPT ![job.type] = None]
            /\ IF job.clean THEN SetUrl(None) ELSE UNCHANGED url
            /\ Goes(job.done, "away")
  /\ job' = [job EXCEPT !.status = None]
  /\ UNCHANGED <<want, released, types, files, downloading, ok, taskRunning,
                 starts, disturbed, asked>>

(* Faulty: only a good end is signalled. *)
SignalSuccess ==
  /\ Steps("signal", "idle")
  /\ released' = [c \in Caller |-> released[c] \/ (ok /\ c = job.end)]
  /\ UNCHANGED <<call, want, status, objects, files, manager, ok, taskRunning, starts,
                 history>>

SignalEnd ==
  /\ Steps("signal", "idle")
  /\ released' = [c \in Caller |-> released[c] \/ c = job.end]
  /\ UNCHANGED <<call, want, status, objects, files, manager, ok, taskRunning, starts,
                 history>>

(* setState(false, "") *)
BackToIdle ==
  /\ Steps("idle", "loop")
  /\ downloading' = FALSE
  /\ disturbed' = FALSE /\ asked' = None
  /\ UNCHANGED <<client, status, objects, files, job, ok, taskRunning, starts, fetched>>

TaskStep ==
  \/ Loop \/ Wait \/ CheckDataFails \/ StartTcp \/ StartWget \/ Move
  \/ Report \/ Finish \/ SignalEnd \/ BackToIdle

Next ==
  \/ \E t \in ConfigType : AddConfigDownloadType(t)
  \/ \E u \in Url : SetRemoteUrl(u)
  \/ \E c \in Caller, t \in ConfigType :
       \/ \E u \in Url : NameWithUrl(c, t, u)
       \/ NamePlain(c, t)
       \/ GetConfigFileWriter(c, t) \/ AddData(c, t)
       \/ ConfigInstall(c, t) \/ RefuseInstall(c, t)
  \/ \E c \in Caller :
       RefuseDownload(c) \/ GetAndInstall(c) \/ WaitEnds(c) \/ IsDownloadOk(c)
  \/ Shutdown \/ TaskStep \/ WgetEnds \/ TcpEnds

(* The task's thread runs and a caller that is signalled goes on.  Neither *)
(* wget, which SystemTask::runCmd may wait for in vain, nor the transfer   *)
(* of a caller's own data need end.                                        *)
Spec ==
  /\ Init /\ [][Next]_vars
  /\ WF_vars(TaskStep)
  /\ \A c \in Caller : WF_vars(WaitEnds(c))
-----------------------------------------------------------------------------
Working == {"begin", "wget", "tcp", "move", "failed", "installed", "finish"}

(* Types; a download in progress has a ConfigDownload object, and its      *)
(* requester's status object until it is reported.                         *)
TypeOK ==
  /\ call \in [Caller -> {"away", "named", "waiting", "checking", "installing"}]
  /\ want \in [Caller -> ConfigType \union {None}]
  /\ released \in [Caller -> BOOLEAN]
  /\ status \in [Caller -> {"running", "ok", "failed"}]
  /\ types \subseteq ConfigType
  /\ url \in [ConfigType \union {Manager} -> Url \union {None, Dummy}]
  /\ tcp \in [ConfigType -> Caller \union {None}]
  /\ writing \in [Caller -> SUBSET ConfigType]
  /\ {temp, installed} \subseteq
       [ConfigType -> [by : Caller \union {None}, from : Url \union {None, Dummy},
                 whole : BOOLEAN]]
  /\ downloading \in BOOLEAN
  /\ job \in [file : Caller \union {None, Dummy}, type : ConfigType \union {None},
              status : Caller \union {None}, end : Caller \union {None},
              done : Caller \union {None}, clean : BOOLEAN]
  /\ ok \in BOOLEAN
  /\ task \in Working \union {"loop", "wait", "signal", "idle", "ended"}
  /\ taskRunning \in BOOLEAN
  /\ mCondStart!Type
  /\ fetched \in [Caller -> {"none", "ok", "failed"}]
  /\ disturbed \in BOOLEAN
  /\ asked \in Url \union {None, Dummy}
  /\ task \in Working => job.type \in types /\ job.status \in Caller

(* A caller that is released from its wait finds its own download ended,   *)
(* and its status object telling how: however requests follow one another, *)
(* run() signals and reports to the caller whose file it has fetched.      *)
(* (mDownloadOk, which getAndInstall returns, may be another's by then.)   *)
ReleasedByOwnDownload ==
  \A c \in Caller :
    (call[c] = "waiting" /\ released[c]) \/ call[c] = "checking" =>
      status[c] = fetched[c]

(* The function a caller gave configInstall is called for that             *)
(* installation alone: mTcpTransfer never outlives it to divert another's  *)
(* download of the same type, and its owner still waits for it.            *)
OwnTransfer ==
  task = "tcp" =>
    /\ job.file = Dummy
    /\ tcp[job.type] = job.done
    /\ call[job.done] = "installing"

(* What a named download that ends well leaves in place is its requester's *)
(* file, from the server that was set when the request was accepted,       *)
(* however URLs are set meanwhile; or else the file of a writer that was   *)
(* opened while the download ran (getConfigFileWriter does not look), and  *)
(* never another's download or what an earlier one left.                   *)
InstalledAsAsked ==
  task = "installed" /\ job.file # Dummy =>
    LET f == installed[job.type]
    IN  IF f.from = None THEN disturbed ELSE f.by = job.file /\ f.from = asked

(* IConfigDownloadManagement.h: both kinds of request promise "error       *)
(* checking and verification and then installs the file": what is reported *)
(* as installed is the requester's file, and all of it.                    *)
InstalledIsVerified ==
  task = "installed" =>
    LET f == installed[job.type]
    IN  f.whole /\ f.by = (IF job.file = Dummy THEN job.done ELSE job.file)

(* Once the task has taken a caller's request up, that caller is released, *)
(* whatever wget and the files' moving come to, unless wget's runCmd never *)
(* returns.                                                                *)
StartedIsReported ==
  []<>(task # "wget") =>
    \A c \in Caller :
      task \in Working /\ job.file = c /\ call[c] = "waiting" ~> call[c] # "waiting"
=============================================================================
