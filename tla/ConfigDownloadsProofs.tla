------------------------ MODULE ConfigDownloadsProofs ------------------------
(***************************************************************************)
(* Proofs about the configuration downloads, for any number of callers,    *)
(* types and URLs: the types, whom the end of a download releases, whose   *)
(* transfer function is called, and what is installed.                     *)
(***************************************************************************)
EXTENDS ConfigDownloads, TLAPS

FileType ==
  [by : Caller \union {None}, from : Url \union {None, Dummy}, whole : BOOLEAN]

(* The task has a request, or will find one. *)
Current == startFlag \/ task \in Working

(* mIsDownloading covers a request from its start signal to its end.       *)
Exclusive ==
  /\ startFlag \/ task \in Working \union {"signal", "idle"} => downloading
  /\ task \in Working \union {"signal", "idle"} => ~startFlag

(* The two kinds of request. *)
ByName ==
  /\ job.file \in Caller /\ job.status = job.file /\ job.done = None
  /\ \A t \in ConfigType : tcp[t] = None

ByWriter ==
  /\ job.file = Dummy /\ job.done \in Caller /\ job.status = job.done
  /\ call[job.done] = "installing"
  /\ \A t \in ConfigType : tcp[t] = IF t = job.type THEN job.done ELSE None

(* The settings the task reads are those of one request, and a transfer    *)
(* function is there only during an installation that brought it.          *)
JobFits ==
  /\ Current => job.type \in types /\ (ByName \/ ByWriter)
  /\ task = "wget" => ByName
  /\ task = "tcp" => ByWriter
  /\ ~downloading \/ task \in {"signal", "idle"} => \A t \in ConfigType : tcp[t] = None

(* A ConfigDownload object has the manager's URL, or none if it is newer.  *)
UrlsAgree ==
  \A t \in ConfigType :
    /\ t \notin types => url[t] = None
    /\ url[t] \in {None, url[Manager]}

(* A caller waits for what the task is at, or its own request has ended.   *)
WaitsForOwn ==
  \A c \in Caller : call[c] = "waiting" =>
    \/ status[c] = fetched[c]
    \/ downloading /\ job.file = c /\ task \notin {"finish", "signal", "idle"}

(* A file of the requester's, from the server it was to come from, or a    *)
(* writer's.                                                               *)
Fits(f) ==
  IF f.from = None THEN disturbed ELSE f.by = job.file /\ f.from = asked

(* What the files of a named download hold on the way. *)
FilesFit ==
  job.file # Dummy =>
    /\ Current => asked = url[Manager] /\ asked # None
    /\ task \in {"wget", "move"} => Fits(temp[job.type])
    /\ task = "installed" => Fits(installed[job.type])

Inv ==
  /\ TypeOK
  /\ Exclusive /\ JobFits /\ UrlsAgree
  /\ WaitsForOwn /\ ReleasedByOwnDownload /\ FilesFit
-----------------------------------------------------------------------------
(* setRemoteUrlNoMutex: the manager's URL and those of the objects. *)
LEMMA SetUrlAgrees ==
  ASSUME TypeOK, UrlsAgree, NEW u \in Url \union {None, Dummy}, SetUrl(u)
  PROVE  /\ url' \in [ConfigType \union {Manager} -> Url \union {None, Dummy}]
         /\ url'[Manager] = u
         /\ types' = types => UrlsAgree'
  BY NamesAssumption DEF TypeOK, UrlsAgree, SetUrl, Manager

LEMMA InitInv == Init => Inv
<1> SUFFICES ASSUME Init PROVE Inv
  OBVIOUS
<1>1. TypeOK
  <2>1. mCondStart!Type /\ taskRunning \in BOOLEAN /\ downloading \in BOOLEAN
    BY DEF Init, mCondStart!Initial, mCondStart!Type
  <2>2. {temp, installed} \subseteq
          [ConfigType -> [by : Caller \union {None}, from : Url \union {None, Dummy},
                          whole : BOOLEAN]]
    BY DEF Init, NoFile
  <2> QED
    BY <2>1, <2>2, NamesAssumption DEF Init, TypeOK, Working, Manager
<1>2. Exclusive /\ JobFits
  BY DEF Init, Exclusive, JobFits, Current, ByName, ByWriter, Working, mCondStart!Initial
<1>3. UrlsAgree /\ WaitsForOwn /\ ReleasedByOwnDownload /\ FilesFit
  BY DEF Init, UrlsAgree, WaitsForOwn, ReleasedByOwnDownload, FilesFit, Current,
     Working, Fits, client, objects, files, manager, starts, history,
     mCondStart!Initial, TypeOK
<1> QED
  BY <1>1, <1>2, <1>3 DEF Inv

(* Every step keeps the invariant. *)
LEMMA NextInv == Inv /\ [Next]_vars => Inv'
<1> SUFFICES ASSUME Inv, [Next]_vars PROVE Inv'
  OBVIOUS
<1>t. /\ TypeOK /\ Exclusive /\ JobFits /\ UrlsAgree
      /\ WaitsForOwn /\ ReleasedByOwnDownload /\ FilesFit
  BY DEF Inv
<1>1. ASSUME NEW t \in ConfigType, AddConfigDownloadType(t) PROVE Inv'
  <2>1. TypeOK'
    BY <1>t, <1>1
    DEF AddConfigDownloadType, TypeOK, mCondStart!Type, client, files, manager,
        starts, history
  <2>2. Exclusive' /\ JobFits' /\ UrlsAgree'
    BY <1>t, <1>1
    DEF AddConfigDownloadType, Exclusive, JobFits, UrlsAgree, Current, ByName,
        ByWriter, client, manager, starts
  <2>3. WaitsForOwn' /\ ReleasedByOwnDownload' /\ FilesFit'
    BY <1>t, <1>1, NamesAssumption
    DEF AddConfigDownloadType, WaitsForOwn, ReleasedByOwnDownload, FilesFit, TypeOK,
        Exclusive, Working, Fits, Current, Manager, client, objects, files, manager, starts,
        history
  <2> QED
    BY <2>1, <2>2, <2>3 DEF Inv
<1>2. ASSUME NEW u \in Url, SetRemoteUrl(u) PROVE Inv'
  <2>1. TypeOK'
    BY <1>t, <1>2, SetUrlAgrees
    DEF SetRemoteUrl, TypeOK, mCondStart!Type, client, files, manager, starts, history
  <2>2. Exclusive' /\ JobFits' /\ UrlsAgree'
    BY <1>t, <1>2, SetUrlAgrees
    DEF SetRemoteUrl, Exclusive, JobFits, Working, Current, starts
  <2>3. WaitsForOwn' /\ ReleasedByOwnDownload' /\ FilesFit'
    BY <1>t, <1>2, NamesAssumption, SetUrlAgrees
    DEF SetRemoteUrl, WaitsForOwn, ReleasedByOwnDownload, FilesFit, TypeOK, Exclusive,
        Working, Fits, Current, Manager, client, objects, files, manager, starts, history
  <2> QED
    BY <2>1, <2>2, <2>3 DEF Inv
<1>3. ASSUME NEW c \in Caller, NEW t \in ConfigType, NEW u \in Url, NameWithUrl(c, t, u)
      PROVE  Inv'
  <2>1. TypeOK'
    BY <1>t, <1>3, SetUrlAgrees
    DEF NameWithUrl, Goes, TypeOK, mCondStart!Type, files, manager, starts, history
  <2>2. Exclusive' /\ JobFits' /\ UrlsAgree'
    BY <1>t, <1>3, SetUrlAgrees
    DEF NameWithUrl, Exclusive, JobFits, Working, Current, starts
  <2>3. WaitsForOwn' /\ ReleasedByOwnDownload' /\ FilesFit'
    BY <1>t, <1>3, NamesAssumption, SetUrlAgrees
    DEF NameWithUrl, Goes, WaitsForOwn, ReleasedByOwnDownload, FilesFit, TypeOK,
        Exclusive, Working, Fits, Current, Manager, client, objects, files, manager, starts,
        history
  <2> QED
    BY <2>1, <2>2, <2>3 DEF Inv
<1>4. ASSUME NEW c \in Caller, NEW t \in ConfigType, NamePlain(c, t) PROVE Inv'
  <2>1. TypeOK'
    BY <1>t, <1>4
    DEF NamePlain, Goes, TypeOK, mCondStart!Type, objects, files, manager, starts,
        history
  <2>2. Exclusive' /\ JobFits' /\ UrlsAgree'
    BY <1>t, <1>4
    DEF NamePlain, Goes, Exclusive, JobFits, UrlsAgree, Current, ByName, ByWriter,
        objects, manager, starts
  <2>3. WaitsForOwn' /\ ReleasedByOwnDownload' /\ FilesFit'
    BY <1>t, <1>4, NamesAssumption
    DEF NamePlain, Goes, WaitsForOwn, ReleasedByOwnDownload, FilesFit, TypeOK,
        Exclusive, Working, Fits, Current, Manager, client, objects, files, manager, starts,
        history
  <2> QED
    BY <2>1, <2>2, <2>3 DEF Inv
<1>5. ASSUME NEW c \in Caller, NEW t \in ConfigType, GetConfigFileWriter(c, t) PROVE Inv'
  <2>1. TypeOK'
    BY <1>t, <1>5
    DEF GetConfigFileWriter, File, NoFile, TypeOK, mCondStart!Type, client, objects,
        manager, starts
  <2>2. Exclusive' /\ JobFits' /\ UrlsAgree'
    BY <1>t, <1>5
    DEF GetConfigFileWriter, Exclusive, JobFits, UrlsAgree, Current, ByName, ByWriter,
        client, objects, manager, starts
  <2>3. WaitsForOwn' /\ ReleasedByOwnDownload' /\ FilesFit'
    BY <1>t, <1>5
    DEF GetConfigFileWriter, File, WaitsForOwn, ReleasedByOwnDownload, FilesFit,
        TypeOK, Exclusive, Fits, Current, NoFile, Working, client, objects, manager, history, starts
  <2> QED
    BY <2>1, <2>2, <2>3 DEF Inv
<1>6. ASSUME NEW c \in Caller, NEW t \in ConfigType, AddData(c, t) PROVE Inv'
  <2>1. TypeOK'
    <3>1. downloading' \in BOOLEAN /\ ok' \in BOOLEAN /\ taskRunning' \in BOOLEAN
          /\ disturbed' \in BOOLEAN /\ mCondStart!Type'
      BY <1>t, <1>6 DEF AddData, TypeOK, mCondStart!Type, manager, history, starts
    <3>2. temp \in [ConfigType -> FileType] /\ installed \in [ConfigType -> FileType]
      BY <1>t DEF TypeOK, FileType
    <3>3. temp' \in [ConfigType -> FileType]
      BY <1>6, <3>2 DEF AddData, File, FileType
    <3>4. installed' \in [ConfigType -> FileType]
      BY <1>6, <3>2 DEF AddData
    <3>5. writing' \in [Caller -> SUBSET ConfigType]
      BY <1>t, <1>6 DEF AddData, TypeOK
    <3>6. UNCHANGED <<client, status, objects, installed, manager, ok, task,
                      taskRunning, starts, history>>
      BY <1>6 DEF AddData
    <3> QED
      BY <1>t, <3>1, <3>3, <3>4, <3>5, <3>6
      DEF FileType, TypeOK, Working, client, objects, manager, history
  <2>2. Exclusive' /\ JobFits' /\ UrlsAgree'
    BY <1>t, <1>6
    DEF AddData, Exclusive, JobFits, UrlsAgree, Current, ByName, ByWriter, client,
        objects, manager, starts
  <2>3. WaitsForOwn' /\ ReleasedByOwnDownload' /\ FilesFit'
    BY <1>t, <1>6
    DEF AddData, File, WaitsForOwn, ReleasedByOwnDownload, FilesFit, Fits, Current,
        client, objects, manager, history, Working, files, starts, mCondStart!Initial,
        TypeOK
  <2> QED
    BY <2>1, <2>2, <2>3 DEF Inv
<1>7. ASSUME NEW c \in Caller, NEW t \in ConfigType, ConfigInstall(c, t) PROVE Inv'
  <2>1. TypeOK'
    BY <1>t, <1>7, NamesAssumption, SetUrlAgrees
    DEF ConfigInstall, Request, Goes, TypeOK, Working, Manager, mCondStart!Type,
        mCondStart!Signal, client, objects, files, manager, starts, history
  <2>2. Exclusive' /\ JobFits' /\ UrlsAgree'
    BY <1>t, <1>7, SetUrlAgrees
    DEF ConfigInstall, Request, Goes, Exclusive, JobFits, UrlsAgree, TypeOK, ByWriter,
        mCondStart!Signal
  <2>3. WaitsForOwn' /\ ReleasedByOwnDownload' /\ FilesFit'
    BY <1>t, <1>7, NamesAssumption, SetUrlAgrees
    DEF ConfigInstall, Request, Goes, WaitsForOwn, ReleasedByOwnDownload, FilesFit,
        TypeOK, Exclusive, Working, Fits, Current, Manager, mCondStart!Signal, client,
        objects, files, manager, starts, history
  <2> QED
    BY <2>1, <2>2, <2>3 DEF Inv
<1>8. ASSUME NEW c \in Caller, NEW t \in ConfigType, RefuseInstall(c, t) PROVE Inv'
  <2>1. TypeOK'
    BY <1>t, <1>8, SetUrlAgrees
    DEF RefuseInstall, TypeOK, mCondStart!Type, client, files, manager, starts,
        history
  <2>2. Exclusive' /\ JobFits' /\ UrlsAgree'
    BY <1>t, <1>8, SetUrlAgrees
    DEF RefuseInstall, Exclusive, JobFits, UrlsAgree, Current, ByName, ByWriter,
        client, manager, starts
  <2>3. WaitsForOwn' /\ ReleasedByOwnDownload' /\ FilesFit'
    BY <1>t, <1>8, NamesAssumption, SetUrlAgrees
    DEF RefuseInstall, WaitsForOwn, ReleasedByOwnDownload, FilesFit, TypeOK,
        Exclusive, Working, Fits, Current, Manager, client, objects, files, manager, starts,
        history
  <2> QED
    BY <2>1, <2>2, <2>3 DEF Inv
<1>9. ASSUME NEW c \in Caller, RefuseDownload(c) PROVE Inv'
  <2>1. TypeOK'
    BY <1>t, <1>9
    DEF RefuseDownload, Goes, TypeOK, mCondStart!Type, objects, files, manager,
        starts, history
  <2>2. Exclusive' /\ JobFits' /\ UrlsAgree'
    BY <1>t, <1>9
    DEF RefuseDownload, Goes, Exclusive, JobFits, UrlsAgree, Current, ByName,
        ByWriter, objects, manager, starts
  <2>3. WaitsForOwn' /\ ReleasedByOwnDownload' /\ FilesFit'
    BY <1>t, <1>9, NamesAssumption
    DEF RefuseDownload, Goes, WaitsForOwn, ReleasedByOwnDownload, FilesFit, TypeOK,
        Exclusive, Working, Fits, Current, Manager, client, objects, files, manager, starts,
        history
  <2> QED
    BY <2>1, <2>2, <2>3 DEF Inv
<1>10. ASSUME NEW c \in Caller, GetAndInstall(c) PROVE Inv'
  <2>1. TypeOK'
    BY <1>t, <1>10, NamesAssumption
    DEF GetAndInstall, Request, Refused, Goes, TypeOK, Working, Manager,
        mCondStart!Type, mCondStart!Signal, client, objects, files, manager, starts,
        history
  <2>2. Exclusive' /\ JobFits' /\ UrlsAgree'
    BY <1>t, <1>10
    DEF GetAndInstall, Request, Refused, Exclusive, JobFits, UrlsAgree, Working,
        ByName, mCondStart!Signal
  <2>3. WaitsForOwn' /\ ReleasedByOwnDownload' /\ FilesFit'
    BY <1>t, <1>10, NamesAssumption
    DEF GetAndInstall, Request, Refused, Goes, WaitsForOwn, ReleasedByOwnDownload,
        FilesFit, TypeOK, Exclusive, Working, Fits, Current, Manager, mCondStart!Signal,
        client, objects, files, manager, starts, history
  <2> QED
    BY <2>1, <2>2, <2>3 DEF Inv
<1>11. ASSUME NEW c \in Caller, WaitEnds(c) PROVE Inv'
  <2>1. TypeOK'
    BY <1>t, <1>11
    DEF WaitEnds, Goes, TypeOK, mCondStart!Type, objects, files, manager, starts,
        history
  <2>2. Exclusive' /\ JobFits' /\ UrlsAgree'
    BY <1>t, <1>11
    DEF WaitEnds, Goes, Exclusive, JobFits, UrlsAgree, Current, ByName, ByWriter,
        objects, manager, starts
  <2>3. WaitsForOwn' /\ ReleasedByOwnDownload' /\ FilesFit'
    BY <1>t, <1>11, NamesAssumption
    DEF WaitEnds, Goes, WaitsForOwn, ReleasedByOwnDownload, FilesFit, TypeOK,
        Exclusive, Working, Fits, Current, Manager, client, objects, files, manager, starts,
        history
  <2> QED
    BY <2>1, <2>2, <2>3 DEF Inv
<1>12. ASSUME NEW c \in Caller, IsDownloadOk(c) PROVE Inv'
  <2>1. TypeOK'
    BY <1>t, <1>12
    DEF IsDownloadOk, Goes, TypeOK, mCondStart!Type, objects, files, manager, starts,
        history
  <2>2. Exclusive' /\ JobFits' /\ UrlsAgree'
    BY <1>t, <1>12
    DEF IsDownloadOk, Goes, Exclusive, JobFits, UrlsAgree, Current, ByName, ByWriter,
        objects, manager, starts
  <2>3. WaitsForOwn' /\ ReleasedByOwnDownload' /\ FilesFit'
    BY <1>t, <1>12, NamesAssumption
    DEF IsDownloadOk, Goes, WaitsForOwn, ReleasedByOwnDownload, FilesFit, TypeOK,
        Exclusive, Working, Fits, Current, Manager, client, objects, files, manager, starts,
        history
  <2> QED
    BY <2>1, <2>2, <2>3 DEF Inv
<1>13. CASE Shutdown
  <2>1. TypeOK'
    <3>1. downloading' \in BOOLEAN /\ ok' \in BOOLEAN /\ taskRunning' \in BOOLEAN
          /\ disturbed' \in BOOLEAN /\ mCondStart!Type'
      BY <1>t, <1>13 DEF Shutdown, TypeOK, mCondStart!Type, manager, history, starts
    <3> QED
      BY <1>t, <1>13, <3>1
      DEF Shutdown, TypeOK, client, objects, files, manager, history
  <2>2. Exclusive' /\ JobFits' /\ UrlsAgree'
    BY <1>t, <1>13
    DEF Shutdown, Exclusive, JobFits, UrlsAgree, Current, ByName, ByWriter, client,
        objects, manager, starts
  <2>3. WaitsForOwn' /\ ReleasedByOwnDownload' /\ FilesFit'
    BY <1>t, <1>13, NamesAssumption
    DEF Shutdown, WaitsForOwn, ReleasedByOwnDownload, FilesFit, TypeOK, Exclusive,
        Working, Fits, Current, Manager, client, objects, files, manager, starts, history
  <2> QED
    BY <2>1, <2>2, <2>3 DEF Inv
<1>14. CASE Loop
  <2>1. TypeOK'
    BY <1>t, <1>14
    DEF Loop, Steps, TypeOK, Working, mCondStart!Type, client, objects, files,
        manager, starts, history
  <2>2. Exclusive' /\ JobFits' /\ UrlsAgree'
    BY <1>t, <1>14
    DEF Loop, Steps, Exclusive, JobFits, UrlsAgree, Working, Current, ByName,
        ByWriter, client, objects, manager, starts
  <2>3. WaitsForOwn' /\ ReleasedByOwnDownload' /\ FilesFit'
    BY <1>t, <1>14
    DEF Loop, Steps, WaitsForOwn, ReleasedByOwnDownload, FilesFit, client, manager,
        history, Current, Working, Fits, objects, files, starts, mCondStart!Initial,
        TypeOK
  <2> QED
    BY <2>1, <2>2, <2>3 DEF Inv
<1>15. CASE Wait
  <2>1. TypeOK'
    <3>1. downloading' \in BOOLEAN /\ ok' \in BOOLEAN /\ taskRunning' \in BOOLEAN
          /\ disturbed' \in BOOLEAN /\ mCondStart!Type'
      BY <1>t, <1>15
      DEF Wait, TypeOK, mCondStart!Type, manager, history, starts, mCondStart!Pass,
          mCondStart!Block, mCondStart!Wake, mCondStart!Expire, mCondStart!GiveUp
    <3>2. task' = "begin" => job.type \in types /\ job.status \in Caller
      BY <1>t, <1>15
      DEF Wait, Steps, mCondStart!Pass, mCondStart!Wake, JobFits, Current, ByName,
          ByWriter
    <3>3. task' \in {"wait", "loop", "begin"}
      BY <1>15 DEF Wait, Steps
    <3> QED
      BY <1>t, <1>15, <3>1, <3>2, <3>3
      DEF Wait, TypeOK, Working, client, objects, files, manager, history
  <2>2. Exclusive' /\ JobFits' /\ UrlsAgree'
    BY <1>t, <1>15
    DEF Wait, Steps, Exclusive, JobFits, UrlsAgree, Working, Current, ByName,
        ByWriter, mCondStart!Pass, mCondStart!Block, mCondStart!Wake,
        mCondStart!Expire, mCondStart!GiveUp, client, objects, manager
  <2>3. WaitsForOwn' /\ ReleasedByOwnDownload' /\ FilesFit'
    BY <1>t, <1>15, NamesAssumption
    DEF Wait, Steps, WaitsForOwn, ReleasedByOwnDownload, FilesFit, TypeOK, Exclusive,
        Working, Fits, Current, Manager, mCondStart!Pass, mCondStart!Block, mCondStart!Wake,
        mCondStart!Expire, mCondStart!GiveUp, client, objects, files, manager, starts,
        history
  <2> QED
    BY <2>1, <2>2, <2>3 DEF Inv
<1>16. CASE CheckDataFails
  <2>1. TypeOK'
    BY <1>t, <1>16
    DEF CheckDataFails, Steps, TypeOK, Working, mCondStart!Type, client, objects,
        files, manager, starts, history
  <2>2. Exclusive' /\ JobFits' /\ UrlsAgree'
    BY <1>t, <1>16
    DEF CheckDataFails, Steps, Exclusive, JobFits, UrlsAgree, Working, Current,
        ByName, ByWriter, client, objects, manager, starts
  <2>3. WaitsForOwn' /\ ReleasedByOwnDownload' /\ FilesFit'
    BY <1>t, <1>16
    DEF CheckDataFails, Steps, WaitsForOwn, ReleasedByOwnDownload, FilesFit, client,
        manager, history, Current, Working, Fits, objects, files, starts,
        mCondStart!Initial, TypeOK
  <2> QED
    BY <2>1, <2>2, <2>3 DEF Inv
<1>17. CASE StartTcp
  <2>1. TypeOK'
    BY <1>t, <1>17
    DEF StartTcp, Steps, TypeOK, Working, mCondStart!Type, client, objects, files,
        manager, starts, history
  <2>2. Exclusive' /\ JobFits' /\ UrlsAgree'
    BY <1>t, <1>17
    DEF StartTcp, Steps, Exclusive, JobFits, UrlsAgree, TypeOK, Current, ByName,
        ByWriter, client, objects, manager, starts
  <2>3. WaitsForOwn' /\ ReleasedByOwnDownload' /\ FilesFit'
    BY <1>t, <1>17
    DEF StartTcp, Steps, WaitsForOwn, ReleasedByOwnDownload, FilesFit, client,
        manager, history, Current, Working, Fits, objects, files, starts,
        mCondStart!Initial, TypeOK
  <2> QED
    BY <2>1, <2>2, <2>3 DEF Inv
<1>18. CASE StartWget
  <2>1. TypeOK'
    BY <1>t, <1>18, NamesAssumption
    DEF StartWget, Steps, File, NoFile, TypeOK, Working, JobFits, Current, ByName,
        ByWriter, mCondStart!Type, client, objects, manager, starts, history
  <2>2. Exclusive' /\ JobFits' /\ UrlsAgree'
    BY <1>t, <1>18, NamesAssumption
    DEF StartWget, Steps, Exclusive, JobFits, UrlsAgree, TypeOK, Current, ByName,
        ByWriter, objects, manager, starts
  <2>3. WaitsForOwn' /\ ReleasedByOwnDownload' /\ FilesFit'
    BY <1>t, <1>18
    DEF StartWget, Steps, File, WaitsForOwn, ReleasedByOwnDownload, FilesFit, TypeOK,
        UrlsAgree, client, objects, manager, history, Current, Working, Fits, files,
        starts, mCondStart!Initial
  <2> QED
    BY <2>1, <2>2, <2>3 DEF Inv
<1>19. CASE WgetEnds
  <2>1. TypeOK'
    <3>1. downloading' \in BOOLEAN /\ ok' \in BOOLEAN /\ taskRunning' \in BOOLEAN
          /\ disturbed' \in BOOLEAN /\ mCondStart!Type'
      BY <1>t, <1>19 DEF WgetEnds, TypeOK, mCondStart!Type, manager, history, starts
    <3>2. temp \in [ConfigType -> FileType] /\ installed \in [ConfigType -> FileType]
      BY <1>t DEF TypeOK, FileType
    <3>3. temp' \in [ConfigType -> FileType]
      <4>1. job.type \in ConfigType /\ job.file \in Caller
        BY <1>t, <1>19 DEF WgetEnds, Steps, TypeOK, Working, JobFits, ByName
      <4>2. temp[job.type] \in FileType
        BY <3>2, <4>1
      <4>3. File(job.file, temp[job.type].from, TRUE) \in FileType
        BY <4>1, <4>2 DEF File, FileType
      <4> QED
        BY <1>19, <3>2, <4>3 DEF WgetEnds
    <3>4. installed' \in [ConfigType -> FileType]
      BY <1>19, <3>2 DEF WgetEnds
    <3> QED
      BY <1>t, <1>19, <3>1, NamesAssumption, <3>3, <3>4
      DEF WgetEnds, Steps, FileType, TypeOK, Working, client, objects, files, manager,
          starts, history
  <2>2. Exclusive' /\ JobFits' /\ UrlsAgree'
    BY <1>t, <1>19
    DEF WgetEnds, Steps, File, Exclusive, JobFits, UrlsAgree, Working, Current,
        ByName, objects, manager, starts
  <2>3. WaitsForOwn' /\ ReleasedByOwnDownload'
    BY <1>t, <1>19
    DEF WgetEnds, Steps, File, WaitsForOwn, ReleasedByOwnDownload, client, manager,
        history
  <2>4. FilesFit'
    <3>1. temp \in [ConfigType -> FileType] /\ job.type \in ConfigType
      BY <1>t, <1>19 DEF TypeOK, FileType, WgetEnds, Steps, Working
    <3>2. CASE task' = "failed"
      BY <3>2, <1>t, <1>19
      DEF FilesFit, Current, Working, Fits, client, objects, files, manager, starts,
          history, mCondStart!Initial, TypeOK, WgetEnds, Steps
    <3>3. CASE task' = "move"
      <4>1. job.file \in Caller /\ Fits(temp[job.type])
        BY <1>t, <1>19, NamesAssumption DEF WgetEnds, Steps, JobFits, ByName, FilesFit
      <4>2. temp'[job.type].by = temp[job.type].by
            /\ temp'[job.type].from = temp[job.type].from
        BY <1>19, <3>1, <3>3, <4>1 DEF WgetEnds, Steps, File, FileType
      <4> QED
        BY <1>t, <1>19, <3>3, <4>1, <4>2
        DEF WgetEnds, Steps, FilesFit, Fits, Current, Working, objects, manager, history,
            starts
    <3> QED
      BY <1>19, <3>2, <3>3 DEF WgetEnds, Steps
  <2> QED
    BY <2>1, <2>2, <2>3, <2>4 DEF Inv
<1>20. CASE TcpEnds
  <2>1. TypeOK'
    <3>1. downloading' \in BOOLEAN /\ ok' \in BOOLEAN /\ taskRunning' \in BOOLEAN
          /\ disturbed' \in BOOLEAN /\ mCondStart!Type'
      BY <1>t, <1>20 DEF TcpEnds, TypeOK, mCondStart!Type, manager, history, starts
    <3> QED
      BY <1>t, <1>20, <3>1, NamesAssumption
      DEF TcpEnds, Steps, TypeOK, Working, client, objects, files, manager, starts,
          history
  <2>2. Exclusive' /\ JobFits' /\ UrlsAgree'
    BY <1>t, <1>20, NamesAssumption
    DEF TcpEnds, Steps, Exclusive, JobFits, UrlsAgree, Working, TypeOK, Current,
        ByName, ByWriter, Manager, client, objects, files, manager, starts, history
  <2>3. WaitsForOwn' /\ ReleasedByOwnDownload' /\ FilesFit'
    BY <1>t, <1>20, NamesAssumption
    DEF TcpEnds, Steps, WaitsForOwn, ReleasedByOwnDownload, FilesFit, TypeOK,
        Exclusive, Working, Fits, Current, Manager, JobFits, ByWriter, File, client, objects,
        files, manager, starts, history
  <2> QED
    BY <2>1, <2>2, <2>3 DEF Inv
<1>21. CASE Move
  <2>1. TypeOK'
    <3>1. downloading' \in BOOLEAN /\ ok' \in BOOLEAN /\ taskRunning' \in BOOLEAN
          /\ disturbed' \in BOOLEAN /\ mCondStart!Type'
      BY <1>t, <1>21 DEF Move, TypeOK, mCondStart!Type, manager, history, starts
    <3>2. /\ temp \in [ConfigType -> FileType] /\ installed \in [ConfigType -> FileType]
          /\ job.type \in ConfigType
      BY <1>t, <1>21 DEF Move, Steps, TypeOK, FileType, Working
    <3>3. temp' \in [ConfigType -> FileType]
      BY <1>21, <3>2 DEF Move, NoFile, FileType
    <3>4. installed' \in [ConfigType -> FileType]
      <4>1. CASE UNCHANGED installed
        BY <3>2, <4>1
      <4>2. ASSUME NEW w \in BOOLEAN,
                   installed' = [installed EXCEPT ![job.type] =
                                   [temp[job.type] EXCEPT !.whole = @ /\ w]]
            PROVE  installed' \in [ConfigType -> FileType]
        <5>1. temp[job.type] \in FileType
          BY <3>2
        <5>2. [temp[job.type] EXCEPT !.whole = @ /\ w] \in FileType
          BY <5>1 DEF FileType
        <5> QED
          BY <3>2, <4>2, <5>2
      <4> QED
        BY <1>21, <4>1, <4>2 DEF Move
    <3>5. task' \in {"failed", "installed"}
      BY <1>21 DEF Move, Steps
    <3> QED
      BY <1>t, <1>21, <3>1, <3>3, <3>4, <3>5
      DEF Move, Steps, TypeOK, FileType, Working, client, objects, manager, history
  <2>2. Exclusive' /\ JobFits' /\ UrlsAgree'
    BY <1>t, <1>21
    DEF Move, Steps, Exclusive, JobFits, UrlsAgree, Working, Current, ByName,
        ByWriter, client, objects, manager, starts
  <2>3. WaitsForOwn' /\ ReleasedByOwnDownload'
    BY <1>t, <1>21
    DEF Move, Steps, WaitsForOwn, ReleasedByOwnDownload, client, manager, history
  <2>4. FilesFit'
    <3>1. temp \in [ConfigType -> FileType] /\ installed \in [ConfigType -> FileType]
          /\ job.type \in ConfigType
      BY <1>t, <1>21 DEF Move, Steps, TypeOK, FileType, Working
    <3>2. temp[job.type] \in FileType
      BY <3>1
    <3>3. CASE task' = "failed"
      BY <1>t, <1>21, <3>3
      DEF Move, Steps, FilesFit, Current, Working, objects, manager, starts, history
    <3>4. CASE task' = "installed"
      <4>1. /\ installed'[job.type].by = temp[job.type].by
            /\ installed'[job.type].from = temp[job.type].from
        <5>1. PICK w \in BOOLEAN :
                installed' = [installed EXCEPT ![job.type] =
                                [temp[job.type] EXCEPT !.whole = @ /\ w]]
          BY <1>21, <3>4 DEF Move, Steps
        <5>2. installed'[job.type] = [temp[job.type] EXCEPT !.whole = @ /\ w]
          BY <3>1, <5>1
        <5> QED
          BY <3>2, <5>2 DEF FileType
      <4> QED
        BY <1>t, <1>21, <3>4, <4>1
        DEF Move, Steps, FilesFit, Fits, Current, Working, objects, manager, starts,
            history
    <3> QED
      BY <1>21, <3>3, <3>4 DEF Move, Steps
  <2> QED
    BY <2>1, <2>2, <2>3, <2>4 DEF Inv
<1>22. CASE Report
  <2>1. TypeOK'
    BY <1>t, <1>22, NamesAssumption
    DEF Report, TypeOK, Working, JobFits, Current, ByName, ByWriter, mCondStart!Type,
        client, objects, files, manager, starts
  <2>2. Exclusive' /\ JobFits' /\ UrlsAgree'
    BY <1>t, <1>22
    DEF Report, Exclusive, JobFits, UrlsAgree, Working, Current, ByName, ByWriter,
        client, objects, manager, starts
  <2>3. WaitsForOwn' /\ ReleasedByOwnDownload' /\ FilesFit'
    BY <1>t, <1>22, NamesAssumption
    DEF Report, WaitsForOwn, ReleasedByOwnDownload, FilesFit, TypeOK, JobFits,
        Current, ByName, ByWriter, client, Working, Fits, objects, files, manager,
        starts, history, mCondStart!Initial
  <2> QED
    BY <2>1, <2>2, <2>3 DEF Inv
<1>23. CASE Finish
  <2>1. TypeOK'
    <3>1. downloading' \in BOOLEAN /\ ok' \in BOOLEAN /\ taskRunning' \in BOOLEAN
          /\ disturbed' \in BOOLEAN /\ mCondStart!Type'
      BY <1>t, <1>23 DEF Finish, TypeOK, mCondStart!Type, starts
    <3>2. job.done = None \/ job.done \in Caller
      BY <1>t DEF TypeOK
    <3>3. call' \in [Caller -> {"away", "named", "waiting", "checking", "installing"}]
          /\ tcp' \in [ConfigType -> Caller \union {None}]
      BY <1>t, <1>23, <3>2 DEF Finish, Goes, TypeOK
    <3>6. status' \in [Caller -> {"running", "ok", "failed"}]
          /\ fetched' \in [Caller -> {"none", "ok", "failed"}]
      BY <1>t, <1>23, <3>2 DEF Finish, TypeOK
    <3>4. url' \in [ConfigType \union {Manager} -> Url \union {None, Dummy}]
      BY <1>t, <1>23, SetUrlAgrees DEF Finish, TypeOK
    <3>5. job' \in [file : Caller \union {None, Dummy}, type : ConfigType \union {None},
                   status : Caller \union {None}, end : Caller \union {None},
                   done : Caller \union {None}, clean : BOOLEAN]
      BY <1>t, <1>23 DEF Finish, TypeOK
    <3> QED
      BY <1>t, <1>23, <3>1, <3>3, <3>4, <3>5, <3>6
      DEF Finish, Steps, TypeOK, Working, files
  <2>2. Exclusive' /\ JobFits' /\ UrlsAgree'
    BY <1>t, <1>23, SetUrlAgrees
    DEF Finish, Steps, Goes, Exclusive, JobFits, UrlsAgree, Working, TypeOK, Current,
        ByName, ByWriter, files, starts
  <2>3. \A c \in Caller : call'[c] \in {"waiting", "checking"} =>
          /\ call'[c] = call[c] /\ released'[c] = released[c]
          /\ status'[c] = status[c] /\ fetched'[c] = fetched[c]
    <3>1. job.done \in Caller \/ job.done = None
      BY <1>t DEF TypeOK
    <3>2. CASE job.done = None
      BY <1>t, <1>23, <3>2 DEF Finish
    <3>3. CASE job.done \in Caller /\ job.done # None
      BY <1>t, <1>23, <3>3 DEF Finish, Goes, TypeOK
    <3> QED
      BY <3>1, <3>2, <3>3
  <2>4. WaitsForOwn' /\ ReleasedByOwnDownload'
    BY <1>t, <1>23, <2>3 DEF Finish, Steps, WaitsForOwn, ReleasedByOwnDownload, Working
  <2>5. FilesFit'
    BY <1>t, <1>23, NamesAssumption
    DEF Finish, Steps, FilesFit, TypeOK, Current, Working, Fits, files, starts, Exclusive
  <2> QED
    BY <2>1, <2>2, <2>4, <2>5 DEF Inv
<1>24. CASE SignalEnd
  <2>1. TypeOK'
    BY <1>t, <1>24
    DEF SignalEnd, Steps, TypeOK, Working, mCondStart!Type, objects, files, manager,
        starts, history
  <2>2. Exclusive' /\ JobFits' /\ UrlsAgree'
    BY <1>t, <1>24
    DEF SignalEnd, Steps, Exclusive, JobFits, UrlsAgree, Working, Current, objects,
        manager, starts
  <2>3. WaitsForOwn' /\ ReleasedByOwnDownload' /\ FilesFit'
    BY <1>t, <1>24
    DEF SignalEnd, Steps, WaitsForOwn, ReleasedByOwnDownload, FilesFit, history,
        Current, Working, Fits, client, objects, files, manager, starts,
        mCondStart!Initial, TypeOK
  <2> QED
    BY <2>1, <2>2, <2>3 DEF Inv
<1>25. CASE BackToIdle
  <2>1. TypeOK'
    <3>1. downloading' \in BOOLEAN /\ ok' \in BOOLEAN /\ taskRunning' \in BOOLEAN
          /\ disturbed' \in BOOLEAN /\ mCondStart!Type'
      BY <1>t, <1>25 DEF BackToIdle, TypeOK, mCondStart!Type, manager, history, starts
    <3> QED
      BY <1>t, <1>25, <3>1
      DEF BackToIdle, Steps, TypeOK, Working, client, objects, files, history
  <2>2. Exclusive' /\ JobFits' /\ UrlsAgree'
    BY <1>t, <1>25
    DEF BackToIdle, Steps, Exclusive, JobFits, UrlsAgree, Working, Current, objects,
        starts
  <2>3. WaitsForOwn' /\ ReleasedByOwnDownload' /\ FilesFit'
    BY <1>t, <1>25
    DEF BackToIdle, Steps, WaitsForOwn, ReleasedByOwnDownload, FilesFit, client,
        history, Current, Working, Fits, objects, files, manager, starts,
        mCondStart!Initial, TypeOK, Exclusive
  <2> QED
    BY <2>1, <2>2, <2>3 DEF Inv
<1>26. CASE UNCHANGED vars
  <2>1. TypeOK'
    <3>1. downloading' \in BOOLEAN /\ ok' \in BOOLEAN /\ taskRunning' \in BOOLEAN
          /\ disturbed' \in BOOLEAN /\ mCondStart!Type'
      BY <1>t, <1>26 DEF vars, TypeOK, mCondStart!Type, manager, history, starts
    <3> QED
      BY <1>t, <1>26, <3>1 DEF vars, TypeOK, client, objects, files, manager, history
  <2>2. Exclusive' /\ JobFits' /\ UrlsAgree'
    BY <1>t, <1>26
    DEF vars, Exclusive, JobFits, Current, ByName, ByWriter, UrlsAgree, client,
        objects, manager, starts
  <2>3. WaitsForOwn' /\ ReleasedByOwnDownload' /\ FilesFit'
    BY <1>t, <1>26
    DEF vars, WaitsForOwn, ReleasedByOwnDownload, FilesFit, Fits, Current, client,
        objects, files, manager, history, Working, starts, mCondStart!Initial, TypeOK
  <2> QED
    BY <2>1, <2>2, <2>3 DEF Inv
<1> QED
  BY <1>1, <1>2, <1>3, <1>4, <1>5, <1>6, <1>7, <1>8, <1>9, <1>10, <1>11, <1>12, <1>13,
     <1>14, <1>15, <1>16, <1>17, <1>18, <1>19, <1>20, <1>21, <1>22, <1>23, <1>24,
     <1>25, <1>26
  DEF Next, TaskStep

(* The invariant, from which the theorems follow. *)
THEOREM Invariance == Spec => []Inv
  BY InitInv, NextInv, PTL DEF Spec

(* The types; the task always has a ConfigDownload object for its request  *)
(* and its requester's status object.                                      *)
THEOREM TypeCorrect == Spec => []TypeOK
  BY Invariance, PTL DEF Inv

(* run() releases and reports to the caller whose file it has fetched.     *)
THEOREM ReleasedByOwnDownloadTheorem == Spec => []ReleasedByOwnDownload
  BY Invariance, PTL DEF Inv

(* A caller's transfer function is called for its own installation alone.  *)
THEOREM OwnTransferTheorem == Spec => []OwnTransfer
<1>1. Inv => OwnTransfer
  BY DEF Inv, TypeOK, JobFits, Current, ByWriter, Working, OwnTransfer
<1> QED
  BY <1>1, Invariance, PTL

(* A named download that ends well has installed the file its requester    *)
(* named, from the server set when it was accepted, or that of a writer    *)
(* which was opened while it ran.                                          *)
THEOREM InstalledAsAskedTheorem == Spec => []InstalledAsAsked
<1>1. Inv => InstalledAsAsked
  BY DEF Inv, FilesFit, Fits, InstalledAsAsked
<1> QED
  BY <1>1, Invariance, PTL
=============================================================================
