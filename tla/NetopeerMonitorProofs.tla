------------------------ MODULE NetopeerMonitorProofs ------------------------
(***************************************************************************)
(* Proofs about NetopeerMonService, for any number of processes: the       *)
(* types, that the managed netopeer2-server is the only one, and that none *)
(* is left after shutdown, under the conditions the properties state.      *)
(***************************************************************************)
EXTENDS NetopeerMonitor, TLAPS

Starting == {"start", "spawn", "spawned", "ok", "bad", "failed"}

(* What each thread may be at. *)
Places ==
  /\ pc["main"] \in Starting \union
       {"up", "down", "downing", "downkilled", "downalive", "post", "done", "destroyed",
        "aborted"}
  /\ pc["service"] \in {"off", "created", "idle", "look", "dead", "spawn", "spawned",
                        "ok", "bad", "suspended", "ended", "aborted"}
  /\ pc["operator"] \in {"idle", "start", "spawn", "spawned", "ok", "bad", "stop",
                         "stopping", "killed", "alive", "restop", "restopping",
                         "rekilled", "realive", "aborted"}

(* Start-up is over before the service's thread and the operator begin. *)
Sequenced ==
  /\ pc["main"] \in Starting => pc["service"] = "off"
  /\ pc["service"] = "off" => pc["operator"] = "idle" /\ ~intruded
  /\ pc["main"] \in {"start", "spawn"} => state = "STOPPED" /\ Live = {}

(* Who may start a process: the operator who intruded, or the service's    *)
(* thread once the settings were changed.                                  *)
Starters ==
  /\ ~intruded => pc["operator"] \in {"idle", "stop", "stopping", "killed", "alive",
                                      "aborted"}
  /\ pc["service"] \in {"spawn", "spawned", "bad"} => unsettled
  /\ ~unsettled => ~autoRestart /\ monitoring

(* Nobody but one thread starts a process. *)
Orderly == ~unsettled /\ (~intruded \/ ~ShuttingDown)

(* The state tells of a running child, unless it is just being started. *)
StateFits ==
  Orderly /\ state # "RUNNING" /\ pc["main"] \notin {"spawned", "ok"}
          /\ pc["operator"] \notin {"spawned", "ok"}
    => ~running(child)

(* Where a thread knows the child to be gone, it is: nobody has replaced   *)
(* it since.                                                               *)
Gone ==
  /\ Orderly => /\ \/ pc["main"] \in {"bad", "downing", "downkilled"}
                   \/ pc["operator"] \in {"spawn", "bad", "stopping", "killed",
                                          "restopping", "rekilled"}
                   => ~running(child)
                /\ pc["main"] # "downalive"
                /\ pc["operator"] \notin {"alive", "realive"}
  /\ ~intruded /\ pc["service"] \in {"dead", "spawn"} => ~running(child)

Down ==
  ~intruded /\ ~unsettled /\ pc["main"] \in {"post", "done", "destroyed"} => Live = {}

Inv ==
  /\ TypeOK
  /\ Places /\ Sequenced /\ Starters
  /\ Managed /\ StateFits /\ Gone /\ Down
-----------------------------------------------------------------------------
(* What Stopping and its like are for each kind of stop. *)
LEMMA StopPlaces ==
  /\ DOMAIN Stopping = {"stop", "restop", "down"}
  /\ Stopping["stop"] = "stopping" /\ Stopping["restop"] = "restopping"
  /\ Stopping["down"] = "downing"
  /\ Killed["stop"] = "killed" /\ Killed["restop"] = "rekilled"
  /\ Killed["down"] = "downkilled"
  /\ Alive["stop"] = "alive" /\ Alive["restop"] = "realive"
  /\ Alive["down"] = "downalive"
  /\ \A t \in Thread :
       /\ Stopped(t)["stop"] = After(t) /\ Stopped(t)["restop"] = "start"
       /\ Stopped(t)["down"] = "post"
       /\ Unstopped(t)["stop"] = After(t) /\ Unstopped(t)["restop"] = After(t)
       /\ Unstopped(t)["down"] = "post"
  BY DEF Stopping, Stopped, Unstopped, Killed, Alive

LEMMA InitInv == Init => Inv
<1> SUFFICES ASSUME Init PROVE Inv
  OBVIOUS
<1>1. /\ pc["main"] = "start" /\ pc["service"] = "off" /\ pc["operator"] = "idle"
      /\ Live = {} /\ ~running(child)
  BY DEF Init, Live, running
<1>2. TypeOK
  BY <1>1 DEF Init, TypeOK, Thread
<1>3. Places /\ Sequenced /\ Starters
  BY <1>1 DEF Init, Places, Sequenced, Starters, Starting
<1>4. Managed /\ StateFits /\ Gone /\ Down
  BY <1>1 DEF Managed, StateFits, Gone, Down
<1> QED
  BY <1>2, <1>3, <1>4 DEF Inv

(* Every step keeps the invariant. *)
LEMMA NextInv == Inv /\ [Next]_vars => Inv'
<1> SUFFICES ASSUME Inv, [Next]_vars PROVE Inv'
  OBVIOUS
<1>t. /\ TypeOK /\ Places /\ Sequenced /\ Starters
      /\ Managed /\ StateFits /\ Gone /\ Down
  BY DEF Inv
<1>1. ASSUME NEW t \in Thread, StartFindsRunning(t) PROVE Inv'
  <2>1. pc["operator"] = "start" /\ pc' = [pc EXCEPT !["operator"] = "idle"]
    BY <1>t, <1>1
    DEF StartFindsRunning, Steps, After, Thread, Places, Sequenced, Starting
  <2>2. TypeOK'
    BY <1>t, <1>1, <2>1
    DEF StartFindsRunning, TypeOK, Thread, Sequenced, Starting, settings, history
  <2>3. Places' /\ Sequenced' /\ Starters'
    BY <1>t, <1>1, <2>1
    DEF StartFindsRunning, Places, Sequenced, Starters, Starting, TypeOK, Thread,
        Live, running, settings, history
  <2>4. Managed'
    BY <1>t, <1>1, <2>1
    DEF StartFindsRunning, Managed, Sequenced, Starters, Starting, Gone, Orderly,
        ShuttingDown, TypeOK, Thread, Live, running, settings, history
  <2>5. StateFits'
    BY <1>t, <1>1, <2>1
    DEF StartFindsRunning, StateFits, Gone, Managed, Sequenced, Starters, Starting,
        TypeOK, Thread, Orderly, ShuttingDown, Live, running, settings, history
  <2>6. Gone'
    BY <1>t, <1>1, <2>1
    DEF StartFindsRunning, Gone, StateFits, Managed, Places, Sequenced, Starters,
        Starting, TypeOK, Thread, Orderly, ShuttingDown, Live, running, settings,
        history
  <2>7. Down'
    BY <1>t, <1>1, <2>1
    DEF StartFindsRunning, Down, Managed, StateFits, Gone, Starters, TypeOK, Thread,
        Orderly, ShuttingDown, Live, running, settings, history
  <2> QED
    BY <2>2, <2>3, <2>4, <2>5, <2>6, <2>7 DEF Inv
<1>2. ASSUME NEW t \in Thread, StartFindsNone(t) PROVE Inv'
  <2>1. \/ pc["main"] = "start" /\ pc' = [pc EXCEPT !["main"] = "spawn"]
        \/ pc["operator"] = "start" /\ pc' = [pc EXCEPT !["operator"] = "spawn"]
    BY <1>t, <1>2
    DEF StartFindsNone, Steps, After, Thread, Places, Sequenced, Starting
  <2>2. TypeOK'
    BY <1>t, <1>2, <2>1
    DEF StartFindsNone, TypeOK, Thread, Sequenced, Starting, settings, history
  <2>3. Places' /\ Sequenced' /\ Starters'
    BY <1>t, <1>2, <2>1
    DEF StartFindsNone, Places, Sequenced, Starters, Starting, TypeOK, Thread, Live,
        running, settings, history
  <2>4. Managed'
    BY <1>t, <1>2, <2>1
    DEF StartFindsNone, Managed, Sequenced, Starters, Starting, Gone, Orderly,
        ShuttingDown, TypeOK, Thread, Live, running, settings, history
  <2>5. StateFits'
    BY <1>t, <1>2, <2>1
    DEF StartFindsNone, StateFits, Gone, Managed, Sequenced, Starters, Starting,
        TypeOK, Thread, Orderly, ShuttingDown, Live, running, settings, history
  <2>6. Gone'
    BY <1>t, <1>2, <2>1
    DEF StartFindsNone, Gone, StateFits, Managed, Places, Sequenced, Starters,
        Starting, TypeOK, Thread, Orderly, ShuttingDown, Live, running, settings,
        history
  <2>7. Down'
    BY <1>t, <1>2, <2>1
    DEF StartFindsNone, Down, Managed, StateFits, Gone, Starters, TypeOK, Thread,
        Orderly, ShuttingDown, Live, running, settings, history
  <2> QED
    BY <2>2, <2>3, <2>4, <2>5, <2>6, <2>7 DEF Inv
<1>3. ASSUME NEW t \in Thread, spawnNetopeerServer(t) PROVE Inv'
  <2>1. \/ pc["main"] = "spawn" /\ pc' = [pc EXCEPT !["main"] = "spawned"]
        \/ pc["service"] = "spawn" /\ pc' = [pc EXCEPT !["service"] = "spawned"]
        \/ pc["operator"] = "spawn" /\ pc' = [pc EXCEPT !["operator"] = "spawned"]
    BY <1>t, <1>3 DEF spawnNetopeerServer, Steps, Thread, Places, Sequenced, Starting
  <2>2. TypeOK'
    BY <1>t, <1>3, <2>1
    DEF spawnNetopeerServer, TypeOK, Thread, Sequenced, Starting, settings, history
  <2>3. Places' /\ Sequenced' /\ Starters'
    BY <1>t, <1>3, <2>1
    DEF spawnNetopeerServer, Places, Sequenced, Starters, Starting, TypeOK, Thread,
        Live, running, settings, history
  <2>4. Managed'
    BY <1>t, <1>3, <2>1
    DEF spawnNetopeerServer, Managed, Sequenced, Starters, Starting, Gone, Orderly,
        ShuttingDown, TypeOK, Thread, Live, running, settings, history
  <2>5. StateFits'
    BY <1>t, <1>3, <2>1
    DEF spawnNetopeerServer, StateFits, Gone, Managed, Sequenced, Starters, Starting,
        TypeOK, Thread, Orderly, ShuttingDown, Live, running, settings, history
  <2>6. Gone'
    BY <1>t, <1>3, <2>1
    DEF spawnNetopeerServer, Gone, StateFits, Managed, Places, Sequenced, Starters,
        Starting, TypeOK, Thread, Orderly, ShuttingDown, Live, running, settings,
        history
  <2>7. Down'
    BY <1>t, <1>3, <2>1
    DEF spawnNetopeerServer, Down, Managed, StateFits, Gone, Starters, TypeOK, Thread,
        Orderly, ShuttingDown, Live, running, settings, history
  <2> QED
    BY <2>2, <2>3, <2>4, <2>5, <2>6, <2>7 DEF Inv
<1>4. ASSUME NEW t \in Thread, SpawnThrows(t) PROVE Inv'
  <2>1. \A u \in Thread : pc'[u] = "aborted"
    BY <1>4 DEF SpawnThrows
  <2>2. TypeOK'
    BY <1>t, <1>4, <2>1
    DEF SpawnThrows, TypeOK, Thread, Sequenced, Starting, settings, history
  <2>3. Places' /\ Sequenced' /\ Starters'
    BY <1>t, <1>4, <2>1
    DEF SpawnThrows, Places, Sequenced, Starters, Starting, TypeOK, Thread, Live,
        running, settings, history
  <2>4. Managed'
    BY <1>t, <1>4, <2>1
    DEF SpawnThrows, Managed, Sequenced, Starters, Starting, Gone, Orderly,
        ShuttingDown, TypeOK, Thread, Live, running, settings, history
  <2>5. StateFits'
    BY <1>t, <1>4, <2>1
    DEF SpawnThrows, StateFits, Gone, Managed, Sequenced, Starters, Starting, TypeOK,
        Thread, Orderly, ShuttingDown, Live, running, settings, history
  <2>6. Gone'
    BY <1>t, <1>4, <2>1
    DEF SpawnThrows, Gone, StateFits, Managed, Places, Sequenced, Starters, Starting,
        TypeOK, Thread, Orderly, ShuttingDown, Live, running, settings, history
  <2>7. Down'
    BY <1>t, <1>4, <2>1
    DEF SpawnThrows, Down, Managed, StateFits, Gone, Starters, TypeOK, Thread,
        Orderly, ShuttingDown, Live, running, settings, history
  <2> QED
    BY <2>2, <2>3, <2>4, <2>5, <2>6, <2>7 DEF Inv
<1>5. ASSUME NEW t \in Thread, SpawnEnds(t) PROVE Inv'
  <2>1. \/ pc["main"] = "spawned" /\ pc' = [pc EXCEPT !["main"] = "ok"]
             /\ running(child)
        \/ pc["main"] = "spawned" /\ pc' = [pc EXCEPT !["main"] = "bad"]
             /\ ~running(child)
        \/ pc["service"] = "spawned" /\ pc' = [pc EXCEPT !["service"] = "ok"]
             /\ running(child)
        \/ pc["service"] = "spawned" /\ pc' = [pc EXCEPT !["service"] = "bad"]
             /\ ~running(child)
        \/ pc["operator"] = "spawned" /\ pc' = [pc EXCEPT !["operator"] = "ok"]
             /\ running(child)
        \/ pc["operator"] = "spawned" /\ pc' = [pc EXCEPT !["operator"] = "bad"]
             /\ ~running(child)
    BY <1>t, <1>5 DEF SpawnEnds, Steps, Thread, Places, Sequenced, Starting
  <2>2. TypeOK'
    BY <1>t, <1>5, <2>1
    DEF SpawnEnds, TypeOK, Thread, Sequenced, Starting, settings, history
  <2>3. Places' /\ Sequenced' /\ Starters'
    BY <1>t, <1>5, <2>1
    DEF SpawnEnds, Places, Sequenced, Starters, Starting, TypeOK, Thread, Live,
        running, settings, history
  <2>4. Managed'
    BY <1>t, <1>5, <2>1
    DEF SpawnEnds, Managed, Sequenced, Starters, Starting, Gone, Orderly,
        ShuttingDown, TypeOK, Thread, Live, running, settings, history
  <2>5. StateFits'
    BY <1>t, <1>5, <2>1
    DEF SpawnEnds, StateFits, Gone, Managed, Sequenced, Starters, Starting, TypeOK,
        Thread, Orderly, ShuttingDown, Live, running, settings, history
  <2>6. Gone'
    BY <1>t, <1>5, <2>1
    DEF SpawnEnds, Gone, StateFits, Managed, Places, Sequenced, Starters, Starting,
        TypeOK, Thread, Orderly, ShuttingDown, Live, running, settings, history
  <2>7. Down'
    BY <1>t, <1>5, <2>1
    DEF SpawnEnds, Down, Managed, StateFits, Gone, Starters, TypeOK, Thread, Orderly,
        ShuttingDown, Live, running, settings, history
  <2> QED
    BY <2>2, <2>3, <2>4, <2>5, <2>6, <2>7 DEF Inv
<1>6. ASSUME NEW t \in Thread, StoreOk(t) PROVE Inv'
  <2>1. \/ pc["main"] = "ok" /\ pc' = [pc EXCEPT !["main"] = "up"]
        \/ pc["service"] = "ok" /\ pc' = [pc EXCEPT !["service"] = "idle"]
        \/ pc["operator"] = "ok" /\ pc' = [pc EXCEPT !["operator"] = "idle"]
    BY <1>t, <1>6 DEF StoreOk, Steps, After, Thread, Places, Sequenced, Starting
  <2>2. TypeOK'
    BY <1>t, <1>6, <2>1
    DEF StoreOk, TypeOK, Thread, Sequenced, Starting, settings, history
  <2>3. Places' /\ Sequenced' /\ Starters'
    BY <1>t, <1>6, <2>1
    DEF StoreOk, Places, Sequenced, Starters, Starting, TypeOK, Thread, Live, running,
        settings, history
  <2>4. Managed'
    BY <1>t, <1>6, <2>1
    DEF StoreOk, Managed, Sequenced, Starters, Starting, Gone, Orderly, ShuttingDown,
        TypeOK, Thread, Live, running, settings, history
  <2>5. StateFits'
    BY <1>t, <1>6, <2>1
    DEF StoreOk, StateFits, Gone, Managed, Sequenced, Starters, Starting, TypeOK,
        Thread, Orderly, ShuttingDown, Live, running, settings, history
  <2>6. Gone'
    BY <1>t, <1>6, <2>1
    DEF StoreOk, Gone, StateFits, Managed, Places, Sequenced, Starters, Starting,
        TypeOK, Thread, Orderly, ShuttingDown, Live, running, settings, history
  <2>7. Down'
    BY <1>t, <1>6, <2>1
    DEF StoreOk, Down, Managed, StateFits, Gone, Starters, TypeOK, Thread, Orderly,
        ShuttingDown, Live, running, settings, history
  <2> QED
    BY <2>2, <2>3, <2>4, <2>5, <2>6, <2>7 DEF Inv
<1>7. ASSUME NEW t \in Thread, StoreBad(t) PROVE Inv'
  <2>1. \/ pc["main"] = "bad" /\ pc' = [pc EXCEPT !["main"] = "failed"]
        \/ pc["service"] = "bad" /\ pc' = [pc EXCEPT !["service"] = "idle"]
        \/ pc["operator"] = "bad" /\ pc' = [pc EXCEPT !["operator"] = "idle"]
    BY <1>t, <1>7 DEF StoreBad, Steps, After, Thread, Places, Sequenced, Starting
  <2>2. TypeOK'
    BY <1>t, <1>7, <2>1
    DEF StoreBad, TypeOK, Thread, Sequenced, Starting, settings, history
  <2>3. Places' /\ Sequenced' /\ Starters'
    BY <1>t, <1>7, <2>1
    DEF StoreBad, Places, Sequenced, Starters, Starting, TypeOK, Thread, Live,
        running, settings, history
  <2>4. Managed'
    BY <1>t, <1>7, <2>1
    DEF StoreBad, Managed, Sequenced, Starters, Starting, Gone, Orderly, ShuttingDown,
        TypeOK, Thread, Live, running, settings, history
  <2>5. StateFits'
    BY <1>t, <1>7, <2>1
    DEF StoreBad, StateFits, Gone, Managed, Sequenced, Starters, Starting, TypeOK,
        Thread, Orderly, ShuttingDown, Live, running, settings, history
  <2>6. Gone'
    BY <1>t, <1>7, <2>1
    DEF StoreBad, Gone, StateFits, Managed, Places, Sequenced, Starters, Starting,
        TypeOK, Thread, Orderly, ShuttingDown, Live, running, settings, history
  <2>7. Down'
    BY <1>t, <1>7, <2>1
    DEF StoreBad, Down, Managed, StateFits, Gone, Starters, TypeOK, Thread, Orderly,
        ShuttingDown, Live, running, settings, history
  <2> QED
    BY <2>2, <2>3, <2>4, <2>5, <2>6, <2>7 DEF Inv
<1>8. ASSUME NEW t \in Thread, NEW how \in DOMAIN Stopping, StopFindsStopped(t, how)
      PROVE  Inv'
  <2>1. \/ pc["main"] = "down" /\ pc' = [pc EXCEPT !["main"] = "post"]
        \/ pc["operator"] = "stop" /\ pc' = [pc EXCEPT !["operator"] = "idle"]
        \/ pc["operator"] = "restop" /\ pc' = [pc EXCEPT !["operator"] = "start"]
    <3>1. how \in {"stop", "restop", "down"}
      BY StopPlaces
    <3>2. Steps(t, how, Stopped(t)[how])
      BY <1>8 DEF StopFindsStopped
    <3>3. CASE how = "stop"
      <4>1. pc[t] = "stop" /\ pc' = [pc EXCEPT ![t] = After(t)]
        BY <3>2, <3>3, StopPlaces DEF Steps
      <4>2. t = "operator"
        BY <1>t, <4>1 DEF Places, Thread, Starting
      <4> QED
        BY <4>1, <4>2 DEF After
    <3>4. CASE how = "restop"
      <4>1. pc[t] = "restop" /\ pc' = [pc EXCEPT ![t] = "start"]
        BY <3>2, <3>4, StopPlaces DEF Steps
      <4>2. t = "operator"
        BY <1>t, <4>1 DEF Places, Thread, Starting
      <4> QED
        BY <4>1, <4>2
    <3>5. CASE how = "down"
      <4>1. pc[t] = "down" /\ pc' = [pc EXCEPT ![t] = "post"]
        BY <3>2, <3>5, StopPlaces DEF Steps
      <4>2. t = "main"
        BY <1>t, <4>1 DEF Places, Thread, Starting
      <4> QED
        BY <4>1, <4>2
    <3> QED
      BY <3>1, <3>3, <3>4, <3>5
  <2>2. TypeOK'
    BY <1>t, <1>8, <2>1
    DEF StopFindsStopped, TypeOK, Thread, Sequenced, Starting, settings, history
  <2>3. Places' /\ Sequenced' /\ Starters'
    BY <1>t, <1>8, <2>1
    DEF StopFindsStopped, Places, Sequenced, Starters, Starting, TypeOK, Thread, Live,
        running, settings, history
  <2>4. Managed'
    BY <1>t, <1>8, <2>1
    DEF StopFindsStopped, Managed, Sequenced, Starters, Starting, Gone, Orderly,
        ShuttingDown, TypeOK, Thread, Live, running, settings, history
  <2>5. StateFits'
    BY <1>t, <1>8, <2>1
    DEF StopFindsStopped, StateFits, Gone, Managed, Sequenced, Starters, Starting,
        TypeOK, Thread, Orderly, ShuttingDown, Live, running, settings, history
  <2>6. Gone'
    BY <1>t, <1>8, <2>1
    DEF StopFindsStopped, Gone, StateFits, Managed, Places, Sequenced, Starters,
        Starting, TypeOK, Thread, Orderly, ShuttingDown, Live, running, settings,
        history
  <2>7. Down'
    BY <1>t, <1>8, <2>1
    DEF StopFindsStopped, Down, Managed, StateFits, Gone, Starters, TypeOK, Thread,
        Orderly, ShuttingDown, Live, running, settings, history
  <2> QED
    BY <2>2, <2>3, <2>4, <2>5, <2>6, <2>7 DEF Inv
<1>9. ASSUME NEW t \in Thread, NEW how \in DOMAIN Stopping, Terminate(t, how)
      PROVE  Inv'
  <2>1. \/ pc["main"] = "down" /\ pc' = [pc EXCEPT !["main"] = "downing"]
        \/ pc["operator"] = "stop" /\ pc' = [pc EXCEPT !["operator"] = "stopping"]
        \/ pc["operator"] = "restop" /\ pc' = [pc EXCEPT !["operator"] = "restopping"]
    <3>1. how \in {"stop", "restop", "down"}
      BY StopPlaces
    <3>2. Steps(t, how, Stopping[how])
      BY <1>9 DEF Terminate
    <3>3. CASE how = "stop"
      <4>1. pc[t] = "stop" /\ pc' = [pc EXCEPT ![t] = "stopping"]
        BY <3>2, <3>3, StopPlaces DEF Steps
      <4>2. t = "operator"
        BY <1>t, <4>1 DEF Places, Thread, Starting
      <4> QED
        BY <4>1, <4>2
    <3>4. CASE how = "restop"
      <4>1. pc[t] = "restop" /\ pc' = [pc EXCEPT ![t] = "restopping"]
        BY <3>2, <3>4, StopPlaces DEF Steps
      <4>2. t = "operator"
        BY <1>t, <4>1 DEF Places, Thread, Starting
      <4> QED
        BY <4>1, <4>2
    <3>5. CASE how = "down"
      <4>1. pc[t] = "down" /\ pc' = [pc EXCEPT ![t] = "downing"]
        BY <3>2, <3>5, StopPlaces DEF Steps
      <4>2. t = "main"
        BY <1>t, <4>1 DEF Places, Thread, Starting
      <4> QED
        BY <4>1, <4>2
    <3> QED
      BY <3>1, <3>3, <3>4, <3>5
  <2>2. TypeOK'
    BY <1>t, <1>9, <2>1
    DEF Terminate, TypeOK, Thread, Sequenced, Starting, settings, history
  <2>3. Places' /\ Sequenced' /\ Starters'
    BY <1>t, <1>9, <2>1
    DEF Terminate, Places, Sequenced, Starters, Starting, TypeOK, Thread, Live,
        running, settings, history
  <2>4. Managed'
    BY <1>t, <1>9, <2>1
    DEF Terminate, Managed, Sequenced, Starters, Starting, Gone, Orderly,
        ShuttingDown, TypeOK, Thread, Live, running, settings, history
  <2>5. StateFits'
    BY <1>t, <1>9, <2>1
    DEF Terminate, StateFits, Gone, Managed, Sequenced, Starters, Starting, TypeOK,
        Thread, Orderly, ShuttingDown, Live, running, settings, history
  <2>6. Gone'
    BY <1>t, <1>9, <2>1
    DEF Terminate, Gone, StateFits, Managed, Places, Sequenced, Starters, Starting,
        TypeOK, Thread, Orderly, ShuttingDown, Live, running, settings, history
  <2>7. Down'
    BY <1>t, <1>9, <2>1
    DEF Terminate, Down, Managed, StateFits, Gone, Starters, TypeOK, Thread, Orderly,
        ShuttingDown, Live, running, settings, history
  <2> QED
    BY <2>2, <2>3, <2>4, <2>5, <2>6, <2>7 DEF Inv
<1>10. ASSUME NEW t \in Thread, NEW how \in DOMAIN Stopping, WaitFor(t, how)
      PROVE  Inv'
  <2>1. \/ pc["main"] = "downing" /\ pc' = [pc EXCEPT !["main"] = "downkilled"]
             /\ ~running(child)
        \/ pc["main"] = "downing" /\ pc' = [pc EXCEPT !["main"] = "downalive"]
             /\ running(child)
        \/ pc["operator"] = "stopping" /\ pc' = [pc EXCEPT !["operator"] = "killed"]
             /\ ~running(child)
        \/ pc["operator"] = "stopping" /\ pc' = [pc EXCEPT !["operator"] = "alive"]
             /\ running(child)
        \/ pc["operator"] = "restopping" /\ pc' = [pc EXCEPT !["operator"] = "rekilled"]
             /\ ~running(child)
        \/ pc["operator"] = "restopping" /\ pc' = [pc EXCEPT !["operator"] = "realive"]
             /\ running(child)
    <3>1. how \in {"stop", "restop", "down"}
      BY StopPlaces
    <3>2. Steps(t, Stopping[how], IF running(child) THEN Alive[how] ELSE Killed[how])
      BY <1>10 DEF WaitFor
    <3>3. CASE how = "stop"
      <4>1. pc[t] = "stopping" /\ pc' = [pc EXCEPT ![t] = IF running(child) THEN "alive" ELSE "killed"]
        BY <3>2, <3>3, StopPlaces DEF Steps
      <4>2. t = "operator"
        BY <1>t, <4>1 DEF Places, Thread, Starting
      <4> QED
        BY <4>1, <4>2
    <3>4. CASE how = "restop"
      <4>1. pc[t] = "restopping" /\ pc' = [pc EXCEPT ![t] = IF running(child) THEN "realive" ELSE "rekilled"]
        BY <3>2, <3>4, StopPlaces DEF Steps
      <4>2. t = "operator"
        BY <1>t, <4>1 DEF Places, Thread, Starting
      <4> QED
        BY <4>1, <4>2
    <3>5. CASE how = "down"
      <4>1. pc[t] = "downing" /\ pc' = [pc EXCEPT ![t] = IF running(child) THEN "downalive" ELSE "downkilled"]
        BY <3>2, <3>5, StopPlaces DEF Steps
      <4>2. t = "main"
        BY <1>t, <4>1 DEF Places, Thread, Starting
      <4> QED
        BY <4>1, <4>2
    <3> QED
      BY <3>1, <3>3, <3>4, <3>5
  <2>2. TypeOK'
    BY <1>t, <1>10, <2>1
    DEF WaitFor, TypeOK, Thread, Sequenced, Starting, settings, history
  <2>3. Places' /\ Sequenced' /\ Starters'
    BY <1>t, <1>10, <2>1
    DEF WaitFor, Places, Sequenced, Starters, Starting, TypeOK, Thread, Live, running,
        settings, history
  <2>4. Managed'
    BY <1>t, <1>10, <2>1
    DEF WaitFor, Managed, Sequenced, Starters, Starting, Gone, Orderly, ShuttingDown,
        TypeOK, Thread, Live, running, settings, history
  <2>5. StateFits'
    BY <1>t, <1>10, <2>1
    DEF WaitFor, StateFits, Gone, Managed, Sequenced, Starters, Starting, TypeOK,
        Thread, Orderly, ShuttingDown, Live, running, settings, history
  <2>6. Gone'
    BY <1>t, <1>10, <2>1
    DEF WaitFor, Gone, StateFits, Managed, Places, Sequenced, Starters, Starting,
        TypeOK, Thread, Orderly, ShuttingDown, Live, running, settings, history
  <2>7. Down'
    BY <1>t, <1>10, <2>1
    DEF WaitFor, Down, Managed, StateFits, Gone, Starters, TypeOK, Thread, Orderly,
        ShuttingDown, Live, running, settings, history
  <2> QED
    BY <2>2, <2>3, <2>4, <2>5, <2>6, <2>7 DEF Inv
<1>11. ASSUME NEW t \in Thread, NEW how \in DOMAIN Stopping, StoreKilled(t, how)
      PROVE  Inv'
  <2>1. \/ pc["main"] = "downkilled" /\ pc' = [pc EXCEPT !["main"] = "post"]
        \/ pc["operator"] = "killed" /\ pc' = [pc EXCEPT !["operator"] = "idle"]
        \/ pc["operator"] = "rekilled" /\ pc' = [pc EXCEPT !["operator"] = "start"]
    <3>1. how \in {"stop", "restop", "down"}
      BY StopPlaces
    <3>2. Steps(t, Killed[how], Stopped(t)[how])
      BY <1>11 DEF StoreKilled
    <3>3. CASE how = "stop"
      <4>1. pc[t] = "killed" /\ pc' = [pc EXCEPT ![t] = After(t)]
        BY <3>2, <3>3, StopPlaces DEF Steps
      <4>2. t = "operator"
        BY <1>t, <4>1 DEF Places, Thread, Starting
      <4> QED
        BY <4>1, <4>2 DEF After
    <3>4. CASE how = "restop"
      <4>1. pc[t] = "rekilled" /\ pc' = [pc EXCEPT ![t] = "start"]
        BY <3>2, <3>4, StopPlaces DEF Steps
      <4>2. t = "operator"
        BY <1>t, <4>1 DEF Places, Thread, Starting
      <4> QED
        BY <4>1, <4>2
    <3>5. CASE how = "down"
      <4>1. pc[t] = "downkilled" /\ pc' = [pc EXCEPT ![t] = "post"]
        BY <3>2, <3>5, StopPlaces DEF Steps
      <4>2. t = "main"
        BY <1>t, <4>1 DEF Places, Thread, Starting
      <4> QED
        BY <4>1, <4>2
    <3> QED
      BY <3>1, <3>3, <3>4, <3>5
  <2>2. TypeOK'
    BY <1>t, <1>11, <2>1
    DEF StoreKilled, TypeOK, Thread, Sequenced, Starting, settings, history
  <2>3. Places' /\ Sequenced' /\ Starters'
    BY <1>t, <1>11, <2>1
    DEF StoreKilled, Places, Sequenced, Starters, Starting, TypeOK, Thread, Live,
        running, settings, history
  <2>4. Managed'
    BY <1>t, <1>11, <2>1
    DEF StoreKilled, Managed, Sequenced, Starters, Starting, Gone, Orderly,
        ShuttingDown, TypeOK, Thread, Live, running, settings, history
  <2>5. StateFits'
    BY <1>t, <1>11, <2>1
    DEF StoreKilled, StateFits, Gone, Managed, Sequenced, Starters, Starting, TypeOK,
        Thread, Orderly, ShuttingDown, Live, running, settings, history
  <2>6. Gone'
    BY <1>t, <1>11, <2>1
    DEF StoreKilled, Gone, StateFits, Managed, Places, Sequenced, Starters, Starting,
        TypeOK, Thread, Orderly, ShuttingDown, Live, running, settings, history
  <2>7. Down'
    BY <1>t, <1>11, <2>1
    DEF StoreKilled, Down, Managed, StateFits, Gone, Starters, TypeOK, Thread,
        Orderly, ShuttingDown, Live, running, settings, history
  <2> QED
    BY <2>2, <2>3, <2>4, <2>5, <2>6, <2>7 DEF Inv
<1>12. ASSUME NEW t \in Thread, NEW how \in DOMAIN Stopping, StoreAlive(t, how)
      PROVE  Inv'
  <2>1. \/ pc["main"] = "downalive" /\ pc' = [pc EXCEPT !["main"] = "post"]
        \/ pc["operator"] = "alive" /\ pc' = [pc EXCEPT !["operator"] = "idle"]
        \/ pc["operator"] = "realive" /\ pc' = [pc EXCEPT !["operator"] = "idle"]
    <3>1. how \in {"stop", "restop", "down"}
      BY StopPlaces
    <3>2. Steps(t, Alive[how], Unstopped(t)[how])
      BY <1>12 DEF StoreAlive
    <3>3. CASE how = "stop"
      <4>1. pc[t] = "alive" /\ pc' = [pc EXCEPT ![t] = After(t)]
        BY <3>2, <3>3, StopPlaces DEF Steps
      <4>2. t = "operator"
        BY <1>t, <4>1 DEF Places, Thread, Starting
      <4> QED
        BY <4>1, <4>2 DEF After
    <3>4. CASE how = "restop"
      <4>1. pc[t] = "realive" /\ pc' = [pc EXCEPT ![t] = After(t)]
        BY <3>2, <3>4, StopPlaces DEF Steps
      <4>2. t = "operator"
        BY <1>t, <4>1 DEF Places, Thread, Starting
      <4> QED
        BY <4>1, <4>2 DEF After
    <3>5. CASE how = "down"
      <4>1. pc[t] = "downalive" /\ pc' = [pc EXCEPT ![t] = "post"]
        BY <3>2, <3>5, StopPlaces DEF Steps
      <4>2. t = "main"
        BY <1>t, <4>1 DEF Places, Thread, Starting
      <4> QED
        BY <4>1, <4>2
    <3> QED
      BY <3>1, <3>3, <3>4, <3>5
  <2>2. TypeOK'
    BY <1>t, <1>12, <2>1
    DEF StoreAlive, TypeOK, Thread, Sequenced, Starting, settings, history
  <2>3. Places' /\ Sequenced' /\ Starters'
    BY <1>t, <1>12, <2>1
    DEF StoreAlive, Places, Sequenced, Starters, Starting, TypeOK, Thread, Live,
        running, settings, history
  <2>4. Managed'
    BY <1>t, <1>12, <2>1
    DEF StoreAlive, Managed, Sequenced, Starters, Starting, Gone, Orderly,
        ShuttingDown, TypeOK, Thread, Live, running, settings, history
  <2>5. StateFits'
    BY <1>t, <1>12, <2>1
    DEF StoreAlive, StateFits, Gone, Managed, Sequenced, Starters, Starting, TypeOK,
        Thread, Orderly, ShuttingDown, Live, running, settings, history
  <2>6. Gone'
    BY <1>t, <1>12, <2>1
    DEF StoreAlive, Gone, StateFits, Managed, Places, Sequenced, Starters, Starting,
        TypeOK, Thread, Orderly, ShuttingDown, Live, running, settings, history
  <2>7. Down'
    BY <1>t, <1>12, <2>1
    DEF StoreAlive, Down, Managed, StateFits, Gone, Starters, TypeOK, Thread, Orderly,
        ShuttingDown, Live, running, settings, history
  <2> QED
    BY <2>2, <2>3, <2>4, <2>5, <2>6, <2>7 DEF Inv
<1>13. CASE StartThread
  <2>1. TypeOK'
    BY <1>t, <1>13
    DEF StartThread, TypeOK, Thread, Sequenced, Starting, settings, history
  <2>2. Places' /\ Sequenced' /\ Starters'
    BY <1>t, <1>13
    DEF StartThread, Places, Sequenced, Starters, Starting, TypeOK, Thread, Live,
        running, settings, history
  <2>3. Managed'
    BY <1>t, <1>13
    DEF StartThread, Managed, Sequenced, Starters, Starting, Gone, Orderly,
        ShuttingDown, TypeOK, Thread, Live, running, settings, history
  <2>4. StateFits'
    BY <1>t, <1>13
    DEF StartThread, StateFits, Gone, Managed, Sequenced, Starters, Starting, TypeOK,
        Thread, Orderly, ShuttingDown, Live, running, settings, history
  <2>5. Gone'
    BY <1>t, <1>13
    DEF StartThread, Gone, StateFits, Managed, Places, Sequenced, Starters, Starting,
        TypeOK, Thread, Orderly, ShuttingDown, Live, running, settings, history
  <2>6. Down'
    BY <1>t, <1>13
    DEF StartThread, Down, Managed, StateFits, Gone, Starters, TypeOK, Thread,
        Orderly, ShuttingDown, Live, running, settings, history
  <2> QED
    BY <2>1, <2>2, <2>3, <2>4, <2>5, <2>6 DEF Inv
<1>14. CASE Suspend
  <2>1. TypeOK'
    BY <1>t, <1>14 DEF Suspend, ServiceRunning, TypeOK, Thread, Sequenced, Starting, settings, history
  <2>2. Places' /\ Sequenced' /\ Starters'
    BY <1>t, <1>14
    DEF Suspend, ServiceRunning, Places, Sequenced, Starters, Starting, TypeOK, Thread, Live, running,
        settings, history
  <2>3. Managed'
    BY <1>t, <1>14
    DEF Suspend, ServiceRunning, Managed, Sequenced, Starters, Starting, Gone, Orderly, ShuttingDown,
        TypeOK, Thread, Live, running, settings, history
  <2>4. StateFits'
    BY <1>t, <1>14
    DEF Suspend, ServiceRunning, StateFits, Gone, Managed, Sequenced, Starters, Starting, TypeOK,
        Thread, Orderly, ShuttingDown, Live, running, settings, history
  <2>5. Gone'
    BY <1>t, <1>14
    DEF Suspend, ServiceRunning, Gone, StateFits, Managed, Places, Sequenced, Starters, Starting,
        TypeOK, Thread, Orderly, ShuttingDown, Live, running, settings, history
  <2>6. Down'
    BY <1>t, <1>14
    DEF Suspend, ServiceRunning, Down, Managed, StateFits, Gone, Starters, TypeOK, Thread, Orderly,
        ShuttingDown, Live, running, settings, history
  <2> QED
    BY <2>1, <2>2, <2>3, <2>4, <2>5, <2>6 DEF Inv
<1>15. CASE Resume
  <2>1. TypeOK'
    BY <1>t, <1>15 DEF Resume, TypeOK, Thread, Sequenced, Starting, settings, history
  <2>2. Places' /\ Sequenced' /\ Starters'
    BY <1>t, <1>15
    DEF Resume, Places, Sequenced, Starters, Starting, TypeOK, Thread, Live, running,
        settings, history
  <2>3. Managed'
    BY <1>t, <1>15
    DEF Resume, Managed, Sequenced, Starters, Starting, Gone, Orderly, ShuttingDown,
        TypeOK, Thread, Live, running, settings, history
  <2>4. StateFits'
    BY <1>t, <1>15
    DEF Resume, StateFits, Gone, Managed, Sequenced, Starters, Starting, TypeOK,
        Thread, Orderly, ShuttingDown, Live, running, settings, history
  <2>5. Gone'
    BY <1>t, <1>15
    DEF Resume, Gone, StateFits, Managed, Places, Sequenced, Starters, Starting,
        TypeOK, Thread, Orderly, ShuttingDown, Live, running, settings, history
  <2>6. Down'
    BY <1>t, <1>15
    DEF Resume, Down, Managed, StateFits, Gone, Starters, TypeOK, Thread, Orderly,
        ShuttingDown, Live, running, settings, history
  <2> QED
    BY <2>1, <2>2, <2>3, <2>4, <2>5, <2>6 DEF Inv
<1>16. CASE Shutdown
  <2>1. TypeOK'
    BY <1>t, <1>16
    DEF Shutdown, Steps, TypeOK, Thread, Sequenced, Starting, settings, history
  <2>2. Places' /\ Sequenced' /\ Starters'
    BY <1>t, <1>16
    DEF Shutdown, Steps, Places, Sequenced, Starters, Starting, TypeOK, Thread, Live,
        running, settings, history
  <2>3. Managed'
    BY <1>t, <1>16
    DEF Shutdown, Steps, Managed, Sequenced, Starters, Starting, Gone, Orderly,
        ShuttingDown, TypeOK, Thread, Live, running, settings, history
  <2>4. StateFits'
    BY <1>t, <1>16
    DEF Shutdown, Steps, StateFits, Gone, Managed, Sequenced, Starters, Starting,
        TypeOK, Thread, Orderly, ShuttingDown, Live, running, settings, history
  <2>5. Gone'
    BY <1>t, <1>16
    DEF Shutdown, Steps, Gone, StateFits, Managed, Places, Sequenced, Starters,
        Starting, TypeOK, Thread, Orderly, ShuttingDown, Live, running, settings,
        history
  <2>6. Down'
    BY <1>t, <1>16
    DEF Shutdown, Steps, Down, Managed, StateFits, Gone, Starters, TypeOK, Thread,
        Orderly, ShuttingDown, Live, running, settings, history
  <2> QED
    BY <2>1, <2>2, <2>3, <2>4, <2>5, <2>6 DEF Inv
<1>17. CASE PostShutdown
  <2>1. TypeOK'
    BY <1>t, <1>17
    DEF PostShutdown, ServiceRunning, Steps, TypeOK, Thread, Sequenced, Starting, settings, history
  <2>2. Places' /\ Sequenced' /\ Starters'
    BY <1>t, <1>17
    DEF PostShutdown, ServiceRunning, Steps, Places, Sequenced, Starters, Starting, TypeOK, Thread,
        Live, running, settings, history
  <2>3. Managed'
    BY <1>t, <1>17
    DEF PostShutdown, ServiceRunning, Steps, Managed, Sequenced, Starters, Starting, Gone, Orderly,
        ShuttingDown, TypeOK, Thread, Live, running, settings, history
  <2>4. StateFits'
    BY <1>t, <1>17
    DEF PostShutdown, ServiceRunning, Steps, StateFits, Gone, Managed, Sequenced, Starters, Starting,
        TypeOK, Thread, Orderly, ShuttingDown, Live, running, settings, history
  <2>5. Gone'
    BY <1>t, <1>17
    DEF PostShutdown, ServiceRunning, Steps, Gone, StateFits, Managed, Places, Sequenced, Starters,
        Starting, TypeOK, Thread, Orderly, ShuttingDown, Live, running, settings,
        history
  <2>6. Down'
    BY <1>t, <1>17
    DEF PostShutdown, ServiceRunning, Steps, Down, Managed, StateFits, Gone, Starters, TypeOK, Thread,
        Orderly, ShuttingDown, Live, running, settings, history
  <2> QED
    BY <2>1, <2>2, <2>3, <2>4, <2>5, <2>6 DEF Inv
<1>18. CASE Destroy
  <2>1. TypeOK'
    BY <1>t, <1>18
    DEF Destroy, Steps, TypeOK, Thread, Sequenced, Starting, settings, history
  <2>2. Places' /\ Sequenced' /\ Starters'
    BY <1>t, <1>18
    DEF Destroy, Steps, Places, Sequenced, Starters, Starting, TypeOK, Thread, Live,
        running, settings, history
  <2>3. Managed'
    BY <1>t, <1>18
    DEF Destroy, Steps, Managed, Sequenced, Starters, Starting, Gone, Orderly,
        ShuttingDown, TypeOK, Thread, Live, running, settings, history
  <2>4. StateFits'
    BY <1>t, <1>18
    DEF Destroy, Steps, StateFits, Gone, Managed, Sequenced, Starters, Starting,
        TypeOK, Thread, Orderly, ShuttingDown, Live, running, settings, history
  <2>5. Gone'
    BY <1>t, <1>18
    DEF Destroy, Steps, Gone, StateFits, Managed, Places, Sequenced, Starters,
        Starting, TypeOK, Thread, Orderly, ShuttingDown, Live, running, settings,
        history
  <2>6. Down'
    BY <1>t, <1>18
    DEF Destroy, Steps, Down, Managed, StateFits, Gone, Starters, TypeOK, Thread,
        Orderly, ShuttingDown, Live, running, settings, history
  <2> QED
    BY <2>1, <2>2, <2>3, <2>4, <2>5, <2>6 DEF Inv
<1>19. CASE ServiceBegins
  <2>1. TypeOK'
    BY <1>t, <1>19
    DEF ServiceBegins, Steps, TypeOK, Thread, Sequenced, Starting, settings, history
  <2>2. Places' /\ Sequenced' /\ Starters'
    BY <1>t, <1>19
    DEF ServiceBegins, Steps, Places, Sequenced, Starters, Starting, TypeOK, Thread,
        Live, running, settings, history
  <2>3. Managed'
    BY <1>t, <1>19
    DEF ServiceBegins, Steps, Managed, Sequenced, Starters, Starting, Gone, Orderly,
        ShuttingDown, TypeOK, Thread, Live, running, settings, history
  <2>4. StateFits'
    BY <1>t, <1>19
    DEF ServiceBegins, Steps, StateFits, Gone, Managed, Sequenced, Starters, Starting,
        TypeOK, Thread, Orderly, ShuttingDown, Live, running, settings, history
  <2>5. Gone'
    BY <1>t, <1>19
    DEF ServiceBegins, Steps, Gone, StateFits, Managed, Places, Sequenced, Starters,
        Starting, TypeOK, Thread, Orderly, ShuttingDown, Live, running, settings,
        history
  <2>6. Down'
    BY <1>t, <1>19
    DEF ServiceBegins, Steps, Down, Managed, StateFits, Gone, Starters, TypeOK,
        Thread, Orderly, ShuttingDown, Live, running, settings, history
  <2> QED
    BY <2>1, <2>2, <2>3, <2>4, <2>5, <2>6 DEF Inv
<1>20. CASE service
  <2>1. TypeOK'
    BY <1>t, <1>20
    DEF service, Steps, TypeOK, Thread, Sequenced, Starting, settings, history
  <2>2. Places' /\ Sequenced' /\ Starters'
    BY <1>t, <1>20
    DEF service, Steps, Places, Sequenced, Starters, Starting, TypeOK, Thread, Live,
        running, settings, history
  <2>3. Managed'
    BY <1>t, <1>20
    DEF service, Steps, Managed, Sequenced, Starters, Starting, Gone, Orderly,
        ShuttingDown, TypeOK, Thread, Live, running, settings, history
  <2>4. StateFits'
    BY <1>t, <1>20
    DEF service, Steps, StateFits, Gone, Managed, Sequenced, Starters, Starting,
        TypeOK, Thread, Orderly, ShuttingDown, Live, running, settings, history
  <2>5. Gone'
    BY <1>t, <1>20
    DEF service, Steps, Gone, StateFits, Managed, Places, Sequenced, Starters,
        Starting, TypeOK, Thread, Orderly, ShuttingDown, Live, running, settings,
        history
  <2>6. Down'
    BY <1>t, <1>20
    DEF service, Steps, Down, Managed, StateFits, Gone, Starters, TypeOK, Thread,
        Orderly, ShuttingDown, Live, running, settings, history
  <2> QED
    BY <2>1, <2>2, <2>3, <2>4, <2>5, <2>6 DEF Inv
<1>21. CASE Look
  <2>1. TypeOK'
    BY <1>t, <1>21
    DEF Look, Steps, TypeOK, Thread, Sequenced, Starting, settings, history
  <2>2. Places' /\ Sequenced' /\ Starters'
    BY <1>t, <1>21
    DEF Look, Steps, Places, Sequenced, Starters, Starting, TypeOK, Thread, Live,
        running, settings, history
  <2>3. Managed'
    BY <1>t, <1>21
    DEF Look, Steps, Managed, Sequenced, Starters, Starting, Gone, Orderly,
        ShuttingDown, TypeOK, Thread, Live, running, settings, history
  <2>4. StateFits'
    BY <1>t, <1>21
    DEF Look, Steps, StateFits, Gone, Managed, Sequenced, Starters, Starting, TypeOK,
        Thread, Orderly, ShuttingDown, Live, running, settings, history
  <2>5. Gone'
    BY <1>t, <1>21
    DEF Look, Steps, Gone, StateFits, Managed, Places, Sequenced, Starters, Starting,
        TypeOK, Thread, Orderly, ShuttingDown, Live, running, settings, history
  <2>6. Down'
    BY <1>t, <1>21
    DEF Look, Steps, Down, Managed, StateFits, Gone, Starters, TypeOK, Thread,
        Orderly, ShuttingDown, Live, running, settings, history
  <2> QED
    BY <2>1, <2>2, <2>3, <2>4, <2>5, <2>6 DEF Inv
<1>22. CASE AutoRestart
  <2>1. TypeOK'
    BY <1>t, <1>22
    DEF AutoRestart, Steps, TypeOK, Thread, Sequenced, Starting, settings, history
  <2>2. Places' /\ Sequenced' /\ Starters'
    BY <1>t, <1>22
    DEF AutoRestart, Steps, Places, Sequenced, Starters, Starting, TypeOK, Thread,
        Live, running, settings, history
  <2>3. Managed'
    BY <1>t, <1>22
    DEF AutoRestart, Steps, Managed, Sequenced, Starters, Starting, Gone, Orderly,
        ShuttingDown, TypeOK, Thread, Live, running, settings, history
  <2>4. StateFits'
    BY <1>t, <1>22
    DEF AutoRestart, Steps, StateFits, Gone, Managed, Sequenced, Starters, Starting,
        TypeOK, Thread, Orderly, ShuttingDown, Live, running, settings, history
  <2>5. Gone'
    BY <1>t, <1>22
    DEF AutoRestart, Steps, Gone, StateFits, Managed, Places, Sequenced, Starters,
        Starting, TypeOK, Thread, Orderly, ShuttingDown, Live, running, settings,
        history
  <2>6. Down'
    BY <1>t, <1>22
    DEF AutoRestart, Steps, Down, Managed, StateFits, Gone, Starters, TypeOK, Thread,
        Orderly, ShuttingDown, Live, running, settings, history
  <2> QED
    BY <2>1, <2>2, <2>3, <2>4, <2>5, <2>6 DEF Inv
<1>23. CASE Obey
  <2>1. TypeOK'
    BY <1>t, <1>23 DEF Obey, TypeOK, Thread, Sequenced, Starting, settings, history
  <2>2. Places' /\ Sequenced' /\ Starters'
    BY <1>t, <1>23
    DEF Obey, Places, Sequenced, Starters, Starting, TypeOK, Thread, Live, running,
        settings, history
  <2>3. Managed'
    BY <1>t, <1>23
    DEF Obey, Managed, Sequenced, Starters, Starting, Gone, Orderly, ShuttingDown,
        TypeOK, Thread, Live, running, settings, history
  <2>4. StateFits'
    BY <1>t, <1>23
    DEF Obey, StateFits, Gone, Managed, Sequenced, Starters, Starting, TypeOK, Thread,
        Orderly, ShuttingDown, Live, running, settings, history
  <2>5. Gone'
    BY <1>t, <1>23
    DEF Obey, Gone, StateFits, Managed, Places, Sequenced, Starters, Starting, TypeOK,
        Thread, Orderly, ShuttingDown, Live, running, settings, history
  <2>6. Down'
    BY <1>t, <1>23
    DEF Obey, Down, Managed, StateFits, Gone, Starters, TypeOK, Thread, Orderly,
        ShuttingDown, Live, running, settings, history
  <2> QED
    BY <2>1, <2>2, <2>3, <2>4, <2>5, <2>6 DEF Inv
<1>24. ASSUME NEW to \in {"start", "stop", "restop"}, Operate(to) PROVE Inv'
  <2>1. TypeOK'
    BY <1>t, <1>24
    DEF Operate, Steps, TypeOK, Thread, Sequenced, Starting, settings, history
  <2>2. Places' /\ Sequenced' /\ Starters'
    BY <1>t, <1>24
    DEF Operate, Steps, Places, Sequenced, Starters, Starting, TypeOK, Thread, Live,
        running, settings, history
  <2>3. Managed'
    BY <1>t, <1>24
    DEF Operate, Steps, Managed, Sequenced, Starters, Starting, Gone, Orderly,
        ShuttingDown, TypeOK, Thread, Live, running, settings, history
  <2>4. StateFits'
    BY <1>t, <1>24
    DEF Operate, Steps, StateFits, Gone, Managed, Sequenced, Starters, Starting,
        TypeOK, Thread, Orderly, ShuttingDown, Live, running, settings, history
  <2>5. Gone'
    BY <1>t, <1>24
    DEF Operate, Steps, Gone, StateFits, Managed, Places, Sequenced, Starters,
        Starting, TypeOK, Thread, Orderly, ShuttingDown, Live, running, settings,
        history
  <2>6. Down'
    BY <1>t, <1>24
    DEF Operate, Steps, Down, Managed, StateFits, Gone, Starters, TypeOK, Thread,
        Orderly, ShuttingDown, Live, running, settings, history
  <2> QED
    BY <2>1, <2>2, <2>3, <2>4, <2>5, <2>6 DEF Inv
<1>25. CASE setMonitorServiceState
  <2>1. TypeOK'
    BY <1>t, <1>25
    DEF setMonitorServiceState, TypeOK, Thread, Sequenced, Starting, settings, history
  <2>2. Places' /\ Sequenced' /\ Starters'
    BY <1>t, <1>25
    DEF setMonitorServiceState, Places, Sequenced, Starters, Starting, TypeOK, Thread,
        Live, running, settings, history
  <2>3. Managed'
    BY <1>t, <1>25
    DEF setMonitorServiceState, Managed, Sequenced, Starters, Starting, Gone, Orderly,
        ShuttingDown, TypeOK, Thread, Live, running, settings, history
  <2>4. StateFits'
    BY <1>t, <1>25
    DEF setMonitorServiceState, StateFits, Gone, Managed, Sequenced, Starters,
        Starting, TypeOK, Thread, Orderly, ShuttingDown, Live, running, settings,
        history
  <2>5. Gone'
    BY <1>t, <1>25
    DEF setMonitorServiceState, Gone, StateFits, Managed, Places, Sequenced, Starters,
        Starting, TypeOK, Thread, Orderly, ShuttingDown, Live, running, settings,
        history
  <2>6. Down'
    BY <1>t, <1>25
    DEF setMonitorServiceState, Down, Managed, StateFits, Gone, Starters, TypeOK,
        Thread, Orderly, ShuttingDown, Live, running, settings, history
  <2> QED
    BY <2>1, <2>2, <2>3, <2>4, <2>5, <2>6 DEF Inv
<1>26. CASE setAutoRestart
  <2>1. TypeOK'
    BY <1>t, <1>26
    DEF setAutoRestart, TypeOK, Thread, Sequenced, Starting, settings, history
  <2>2. Places' /\ Sequenced' /\ Starters'
    BY <1>t, <1>26
    DEF setAutoRestart, Places, Sequenced, Starters, Starting, TypeOK, Thread, Live,
        running, settings, history
  <2>3. Managed'
    BY <1>t, <1>26
    DEF setAutoRestart, Managed, Sequenced, Starters, Starting, Gone, Orderly,
        ShuttingDown, TypeOK, Thread, Live, running, settings, history
  <2>4. StateFits'
    BY <1>t, <1>26
    DEF setAutoRestart, StateFits, Gone, Managed, Sequenced, Starters, Starting,
        TypeOK, Thread, Orderly, ShuttingDown, Live, running, settings, history
  <2>5. Gone'
    BY <1>t, <1>26
    DEF setAutoRestart, Gone, StateFits, Managed, Places, Sequenced, Starters,
        Starting, TypeOK, Thread, Orderly, ShuttingDown, Live, running, settings,
        history
  <2>6. Down'
    BY <1>t, <1>26
    DEF setAutoRestart, Down, Managed, StateFits, Gone, Starters, TypeOK, Thread,
        Orderly, ShuttingDown, Live, running, settings, history
  <2> QED
    BY <2>1, <2>2, <2>3, <2>4, <2>5, <2>6 DEF Inv
<1>27. ASSUME NEW p \in Pid, Serve(p) \/ Crash(p) PROVE Inv'
  <2>1. TypeOK'
    BY <1>t, <1>27
    DEF Serve, Crash, TypeOK, Thread, Sequenced, Starting, settings, history
  <2>2. Places' /\ Sequenced' /\ Starters'
    BY <1>t, <1>27
    DEF Serve, Crash, Places, Sequenced, Starters, Starting, TypeOK, Thread, Live,
        running, settings, history
  <2>3. Managed'
    BY <1>t, <1>27
    DEF Serve, Crash, Managed, Sequenced, Starters, Starting, Gone, Orderly,
        ShuttingDown, TypeOK, Thread, Live, running, settings, history
  <2>4. StateFits'
    BY <1>t, <1>27
    DEF Serve, Crash, StateFits, Gone, Managed, Sequenced, Starters, Starting, TypeOK,
        Thread, Orderly, ShuttingDown, Live, running, settings, history
  <2>5. Gone'
    BY <1>t, <1>27
    DEF Serve, Crash, Gone, StateFits, Managed, Places, Sequenced, Starters, Starting,
        TypeOK, Thread, Orderly, ShuttingDown, Live, running, settings, history
  <2>6. Down'
    BY <1>t, <1>27
    DEF Serve, Crash, Down, Managed, StateFits, Gone, Starters, TypeOK, Thread,
        Orderly, ShuttingDown, Live, running, settings, history
  <2> QED
    BY <2>1, <2>2, <2>3, <2>4, <2>5, <2>6 DEF Inv
<1>28. CASE UNCHANGED vars
  BY <1>28
  DEF vars, Inv, TypeOK, Places, Sequenced, Starters, Managed, StateFits, Gone, Down,
      Orderly, ShuttingDown, Live, running, settings, history
<1> QED
  BY <1>1, <1>2, <1>3, <1>4, <1>5, <1>6, <1>7, <1>8, <1>9, <1>10, <1>11, <1>12, <1>13,
     <1>14, <1>15, <1>16, <1>17, <1>18, <1>19, <1>20, <1>21, <1>22, <1>23, <1>24,
     <1>25, <1>26, <1>27, <1>28
  DEF Next, Procedure

(* The invariant is inductive. *)
THEOREM Invariance == Spec => []Inv
  BY InitInv, NextInv, PTL DEF Spec

(* The types; the service's thread runs only if netopeer2-server came up   *)
(* at start-up.                                                            *)
THEOREM TypeCorrect == Spec => []TypeOK
  BY Invariance, PTL DEF Inv

(* The netopeer2-server in mNetopeerProcess is the only one, until an      *)
(* operator who starts one meets automatic restart or shutdown.            *)
THEOREM OnlyTheChild == Spec => []Managed
  BY Invariance, PTL DEF Inv

(* shutdown leaves no netopeer2-server behind, if the operator started     *)
(* none and automatic restart was never on.                                *)
THEOREM ShutdownLeavesNone == Spec => []NoneLeft
<1>1. Inv => NoneLeft
  BY DEF Inv, Down, NoneLeft
<1> QED
  BY <1>1, Invariance, PTL
=============================================================================
