---------------------- MODULE MpclientSessionsProofs ----------------------
(***************************************************************************)
(* Proofs about MpclientSessions: its type invariant and the safety        *)
(* properties that tie the gRPC threads, the callback table and the        *)
(* notification threads to the life of a session, for any number of        *)
(* threads, sessions, callbacks and notifications.                         *)
(***************************************************************************)
EXTENDS MpclientSessions, TLAPS

(***************************************************************************)
(* The type invariant.                                                     *)
(***************************************************************************)
\* Init establishes the type invariant.
LEMMA InitTypeOK == Init => TypeOK
BY BoundAssumption DEF Init, TypeOK, Session, PC, Life, NtfState, Name

\* Every step preserves the type invariant.
LEMMA NextTypeOK == TypeOK /\ [Next]_vars => TypeOK'
<1> SUFFICES ASSUME TypeOK, [Next]_vars PROVE TypeOK'
  OBVIOUS
<1> USE BoundAssumption DEF TypeOK, Session, tableVars, callVars, objectVars,
        ntfVars
<1>1. ASSUME NEW t \in Thread, ConnectCall(t) PROVE TypeOK'
  BY <1>1 DEF ConnectCall, PC
<1>2. ASSUME NEW t \in Thread, NetconfConnect(t) PROVE TypeOK'
  BY <1>2 DEF NetconfConnect, PC
<1>3. ASSUME NEW t \in Thread, AddSession(t) PROVE TypeOK'
  <2>1. pc' \in [Thread -> PC] /\ object' \in [Session -> Life]
    BY <1>3 DEF AddSession, PC, Life
  <2>2. sessionsCounter \in Session /\ sid' \in [Thread -> Session]
        /\ sessions' \in SUBSET Session /\ sessionsCounter' \in 0 .. MaxSessions
    BY <1>3 DEF AddSession
  <2> QED
    BY <1>3, <2>1, <2>2 DEF AddSession
<1>4. ASSUME NEW t \in Thread, CallOnSession(t) PROVE TypeOK'
  <2>1. PICK s \in sessions, c \in SessionCalls :
          pc' = [pc EXCEPT ![t] = c] /\ sid' = [sid EXCEPT ![t] = s]
    BY <1>4 DEF CallOnSession
  <2>2. c \in PC
    BY DEF SessionCalls, PC
  <2> QED
    BY <1>4, <2>1, <2>2 DEF CallOnSession
<1>5. ASSUME NEW t \in Thread, DisconnectCall(t) PROVE TypeOK'
  BY <1>5 DEF DisconnectCall, PC
<1>6. ASSUME NEW s \in Session, Notification(s) PROVE TypeOK'
  <2>1. name' \in [Session -> Name]
    BY <1>6 DEF Notification
  <2>2. at' \in [Session -> Nat \ {0}]
    BY <1>6 DEF Notification
  <2> QED
    BY <1>6, <2>1, <2>2 DEF Notification, NtfState
<1>7. ASSUME NEW t \in Thread, RpcReturn(t) PROVE TypeOK'
  BY <1>7 DEF RpcReturn, PC
<1>8. ASSUME NEW t \in Thread, LockNotificationState(t) PROVE TypeOK'
  BY <1>8 DEF LockNotificationState, PC
<1>9. ASSUME NEW t \in Thread, AddNotificationCallback(t) PROVE TypeOK'
  <2> DEFINE cb == IF pc[t] = "attachS" THEN StreamCallback(t)
                                        ELSE SuperviseCallback
  <2>1. cb \in Callback
    BY DEF Callback, StreamCallback, SuperviseCallback
  <2>2. Append(callbacks[sid[t]], cb) \in Seq(Callback)
    BY <2>1
  <2>3. callbacks' \in [Session -> Seq(Callback)]
    BY <1>9, <2>2 DEF AddNotificationCallback
  <2> QED
    BY <1>9, <2>3 DEF AddNotificationCallback, PC, NtfState
<1>10. ASSUME NEW t \in Thread, StreamReturn(t) PROVE TypeOK'
  BY <1>10 DEF StreamReturn, PC
<1>11. ASSUME NEW t \in Thread, RemoveSession(t) PROVE TypeOK'
  BY <1>11 DEF RemoveSession, PC
<1>12. ASSUME NEW t \in Thread, DropReference(t) PROVE TypeOK'
  BY <1>12 DEF DropReference, AfterDtor, HoldingPC, PC, Life
<1>13. ASSUME NEW s \in Session, EraseCallbacks(s) PROVE TypeOK'
  BY <1>13 DEF EraseCallbacks, Life
<1>14. ASSUME NEW s \in Session, FulfilPromises(s) PROVE TypeOK'
  BY <1>14 DEF FulfilPromises, Life
<1>15. ASSUME NEW s \in Session, FreeSession(s) PROVE TypeOK'
  <2>1. pc' \in [Thread -> PC]
    BY <1>15 DEF FreeSession, AfterDtor, PC
  <2> QED
    BY <1>15, <2>1 DEF FreeSession, Life, NtfState
<1>16. ASSUME NEW s \in Session, RunCallback(s) PROVE TypeOK'
  <2>1. at[s] + 1 \in Nat \ {0}
    OBVIOUS
  <2>2. at' \in [Session -> Nat \ {0}]
    BY <1>16, <2>1 DEF RunCallback
  <2>3. ntf' \in [Session -> NtfState]
    BY <1>16 DEF RunCallback, NtfState
  <2> QED
    BY <1>16, <2>2, <2>3 DEF RunCallback
<1>17. ASSUME NEW s \in Session, ResetWatchdog(s) PROVE TypeOK'
  <2>1. at[s] + 1 \in Nat \ {0}
    OBVIOUS
  <2>2. at' \in [Session -> Nat \ {0}]
    BY <1>17, <2>1 DEF ResetWatchdog
  <2>3. ntf' \in [Session -> NtfState]
    BY <1>17 DEF ResetWatchdog, NtfState
  <2>4. object' \in [Session -> Life]
    BY <1>17 DEF ResetWatchdog, Life
  <2> QED
    BY <1>17, <2>2, <2>3, <2>4 DEF ResetWatchdog
<1>18. ASSUME NEW s \in Session, HandlerReturn(s) PROVE TypeOK'
  BY <1>18 DEF HandlerReturn, NtfState
<1>19. CASE UNCHANGED vars
  BY <1>19 DEF vars
<1> QED
  BY <1>1, <1>2, <1>3, <1>4, <1>5, <1>6, <1>7, <1>8, <1>9, <1>10, <1>11,
     <1>12, <1>13, <1>14, <1>15, <1>16, <1>17, <1>18, <1>19
     DEF Next, Environment, ThreadStep, SessionStep

\* Every reachable state of the session manager is well typed.
THEOREM TypeCorrect == Spec => []TypeOK
<1>1. Init => TypeOK
  BY InitTypeOK
<1>2. TypeOK /\ [Next]_vars => TypeOK'
  BY NextTypeOK
<1> QED
  BY <1>1, <1>2, PTL DEF Spec

(***************************************************************************)
(* The inductive invariant.                                                *)
(***************************************************************************)
\* Init establishes the inductive invariant.
LEMMA InitInv == Init => Inv
BY BoundAssumption DEF Init, Inv, TableInv, ReferenceInv, PromiseInv, LifeInv,
   NtfInv, Session, ReadingPC, HoldingPC

\* Whoever waits for a promise goes on waiting for it.
LEMMA PromiseKept ==
  ASSUME PromiseInv, UNCHANGED <<callbacks, promises, ready>>,
         \A u \in Thread : pc[u] = "await" => pc'[u] = "await" /\ sid'[u] = sid[u],
         promises \in [Session -> SUBSET Thread], ready \in SUBSET Thread
  PROVE  PromiseInv'
BY DEF PromiseInv

\* Every step preserves the inductive invariant.
LEMMA NextInv == TypeOK /\ Inv /\ [Next]_vars => Inv'
<1> SUFFICES ASSUME TypeOK, Inv, [Next]_vars PROVE Inv'
  OBVIOUS
<1> USE BoundAssumption DEF TypeOK, Session, tableVars, callVars, objectVars,
        ntfVars, Inv, ReadingPC, HoldingPC
<1>1. ASSUME NEW t \in Thread, ConnectCall(t) PROVE Inv'
  <2>1. TableInv'
    BY <1>1 DEF ConnectCall, TableInv
  <2>2. ReferenceInv'
    BY <1>1 DEF ConnectCall, ReferenceInv
  <2>3. PromiseInv'
    BY <1>1 DEF ConnectCall, PromiseInv
  <2>4. LifeInv'
    BY <1>1 DEF ConnectCall, LifeInv
  <2>5. NtfInv'
    BY <1>1 DEF ConnectCall, NtfInv
  <2> QED
    BY <2>1, <2>2, <2>3, <2>4, <2>5
<1>2. ASSUME NEW t \in Thread, NetconfConnect(t) PROVE Inv'
  <2>0. /\ \A u \in Thread : u # t => pc'[u] = pc[u]
        /\ pc'[t] \in {"idle", "opened", "accepted"}
        /\ pc[t] \in {"connect", "listen"}
        /\ UNCHANGED <<tableVars, sid, objectVars, ntfVars>>
    BY <1>2 DEF NetconfConnect
  <2>1. TableInv'
    BY <1>2 DEF NetconfConnect, TableInv
  <2>2. ReferenceInv'
    <3>1. \A u \in Thread : pc'[u] \in ReadingPC \cup HoldingPC => pc'[u] = pc[u]
      BY <2>0
    <3>2. sid' = sid /\ sessions' = sessions /\ object' = object
      BY <2>0
    <3> QED
      BY <3>1, <3>2 DEF ReferenceInv
  <2>3. PromiseInv'
    <3>1. \A u \in Thread : pc[u] = "await" => pc'[u] = "await" /\ sid'[u] = sid[u]
      BY <2>0
    <3>2. UNCHANGED <<callbacks, promises, ready>>
      BY <2>0
    <3> QED
      BY <3>1, <3>2, PromiseKept
  <2>4. LifeInv'
    BY <1>2 DEF NetconfConnect, LifeInv
  <2>5. NtfInv'
    BY <1>2 DEF NetconfConnect, NtfInv
  <2> QED
    BY <2>1, <2>2, <2>3, <2>4, <2>5
<1>3. ASSUME NEW t \in Thread, AddSession(t) PROVE Inv'
  <2>0. /\ sessionsCounter \in Session
        /\ object[sessionsCounter] = "none"
        /\ sessionsCounter \notin sessions
    BY <1>3 DEF AddSession, TableInv
  <2>1. TableInv'
    BY <1>3 DEF AddSession, TableInv
  <2>2. ReferenceInv'
    <3>1. \A u \in Thread \ {t} : pc'[u] = pc[u] /\ sid'[u] = sid[u]
      BY <1>3 DEF AddSession
    <3>2. pc'[t] \in {"added", "heard"} /\ sid'[t] = sessionsCounter
      BY <1>3 DEF AddSession
    <3>3. /\ sessions \subseteq sessions' /\ object'[sessionsCounter] = "open"
          /\ \A x \in Session : object[x] = "open" => object'[x] = "open"
      BY <1>3, <2>0 DEF AddSession
    <3> QED
      BY <3>1, <3>2, <3>3 DEF ReferenceInv
  <2>3. PromiseInv'
    BY <1>3 DEF AddSession, PromiseInv
  <2>4. LifeInv'
    BY <1>3 DEF AddSession, LifeInv
  <2>5. NtfInv'
    <3>1. ntf[sessionsCounter] = "off"
      BY <2>0 DEF LifeInv
    <3> QED
      BY <1>3, <2>0, <3>1 DEF AddSession, NtfInv
  <2> QED
    BY <2>1, <2>2, <2>3, <2>4, <2>5
<1>4. ASSUME NEW t \in Thread, CallOnSession(t) PROVE Inv'
  <2>0. PICK s \in sessions, c \in SessionCalls :
          pc' = [pc EXCEPT ![t] = c] /\ sid' = [sid EXCEPT ![t] = s]
    BY <1>4 DEF CallOnSession
  <2>00. c \in {"rpc", "stream", "supervise"}
    BY DEF SessionCalls
  <2>1. TableInv'
    BY <1>4 DEF CallOnSession, TableInv
  <2>2. ReferenceInv'
    BY <1>4, <2>0, <2>00 DEF CallOnSession, ReferenceInv
  <2>3. PromiseInv'
    <3>1. pc[t] = "idle" /\ UNCHANGED <<callbacks, promises, ready>>
      BY <1>4 DEF CallOnSession
    <3>2. \A u \in Thread : pc[u] = "await" => pc'[u] = "await" /\ sid'[u] = sid[u]
      BY <2>0, <3>1
    <3> QED
      BY <3>1, <3>2, PromiseKept
  <2>4. LifeInv'
    BY <1>4 DEF CallOnSession, LifeInv
  <2>5. NtfInv'
    BY <1>4 DEF CallOnSession, NtfInv
  <2> QED
    BY <2>1, <2>2, <2>3, <2>4, <2>5
<1>5. ASSUME NEW t \in Thread, DisconnectCall(t) PROVE Inv'
  <2>1. TableInv'
    BY <1>5 DEF DisconnectCall, TableInv
  <2>2. ReferenceInv'
    BY <1>5 DEF DisconnectCall, ReferenceInv
  <2>3. PromiseInv'
    BY <1>5 DEF DisconnectCall, PromiseInv
  <2>4. LifeInv'
    BY <1>5 DEF DisconnectCall, LifeInv
  <2>5. NtfInv'
    BY <1>5 DEF DisconnectCall, NtfInv
  <2> QED
    BY <2>1, <2>2, <2>3, <2>4, <2>5
<1>6. ASSUME NEW s \in Session, Notification(s) PROVE Inv'
  <2>1. TableInv'
    BY <1>6 DEF Notification, TableInv
  <2>2. ReferenceInv'
    BY <1>6 DEF Notification, ReferenceInv
  <2>3. PromiseInv'
    BY <1>6 DEF Notification, PromiseInv
  <2>4. LifeInv'
    BY <1>6 DEF Notification, LifeInv
  <2>5. NtfInv'
    BY <1>6 DEF Notification, NtfInv
  <2> QED
    BY <2>1, <2>2, <2>3, <2>4, <2>5
<1>7. ASSUME NEW t \in Thread, RpcReturn(t) PROVE Inv'
  <2>1. TableInv'
    BY <1>7 DEF RpcReturn, TableInv
  <2>2. ReferenceInv'
    BY <1>7 DEF RpcReturn, ReferenceInv
  <2>3. PromiseInv'
    BY <1>7 DEF RpcReturn, PromiseInv
  <2>4. LifeInv'
    BY <1>7 DEF RpcReturn, LifeInv
  <2>5. NtfInv'
    BY <1>7 DEF RpcReturn, NtfInv
  <2> QED
    BY <2>1, <2>2, <2>3, <2>4, <2>5
<1>8. ASSUME NEW t \in Thread, LockNotificationState(t) PROVE Inv'
  <2>1. TableInv'
    BY <1>8 DEF LockNotificationState, TableInv
  <2>2. ReferenceInv'
    BY <1>8 DEF LockNotificationState, ReferenceInv
  <2>3. PromiseInv'
    BY <1>8 DEF LockNotificationState, PromiseInv
  <2>4. LifeInv'
    BY <1>8 DEF LockNotificationState, LifeInv
  <2>5. NtfInv'
    BY <1>8 DEF LockNotificationState, NtfInv
  <2> QED
    BY <2>1, <2>2, <2>3, <2>4, <2>5
<1>9. ASSUME NEW t \in Thread, AddNotificationCallback(t) PROVE Inv'
  <2> DEFINE s == sid[t]
             cb == IF pc[t] = "attachS" THEN StreamCallback(t)
                                        ELSE SuperviseCallback
  <2>0. s \in sessions /\ s \in Session /\ object[s] = "open"
    BY <1>9 DEF AddNotificationCallback, TableInv, ReferenceInv
  <2>00. t \notin ready /\ \A x \in Session : t \notin promises[x]
    BY <1>9 DEF AddNotificationCallback, PromiseInv
  <2>1. TableInv'
    BY <1>9 DEF AddNotificationCallback, TableInv
  <2>2. ReferenceInv'
    BY <1>9 DEF AddNotificationCallback, ReferenceInv
  <2>3. PromiseInv'
    <3>1. \A x \in Session : \A i \in 1 .. Len(callbacks'[x]) :
            callbacks'[x][i].kind = "stream" =>
                callbacks'[x][i].writer \in promises'[x]
      <4> SUFFICES ASSUME NEW x \in Session, NEW i \in 1 .. Len(callbacks'[x]),
                          callbacks'[x][i].kind = "stream"
                   PROVE  callbacks'[x][i].writer \in promises'[x]
        OBVIOUS
      <4>1. CASE x # s
        <5>1. callbacks'[x] = callbacks[x] /\ promises'[x] = promises[x]
          BY <1>9, <4>1 DEF AddNotificationCallback
        <5> QED
          BY <5>1 DEF PromiseInv
      <4>2. CASE x = s /\ i <= Len(callbacks[s])
        <5>1. callbacks'[x] = Append(callbacks[s], cb)
          BY <1>9, <4>2 DEF AddNotificationCallback
        <5>2. callbacks'[x][i] = callbacks[s][i]
          BY <5>1, <4>2
        <5>3. callbacks[s][i].writer \in promises[s]
          BY <4>2, <5>2 DEF PromiseInv
        <5>4. promises[s] \subseteq promises'[s]
          BY <1>9 DEF AddNotificationCallback
        <5> QED
          BY <4>2, <5>2, <5>3, <5>4
      <4>3. CASE x = s /\ i > Len(callbacks[s])
        <5>1. callbacks'[x] = Append(callbacks[s], cb)
          BY <1>9, <4>3 DEF AddNotificationCallback
        <5>2. callbacks'[x][i] = cb
          BY <5>1, <4>3
        <5>3. pc[t] = "attachS" /\ cb.writer = t
          BY <5>2 DEF StreamCallback, SuperviseCallback
        <5> QED
          BY <1>9, <4>3, <5>2, <5>3 DEF AddNotificationCallback
      <4> QED
        BY <4>1, <4>2, <4>3
    <3>2. \A x \in Session : \A u \in promises'[x] :
            pc'[u] = "await" /\ sid'[u] = x /\ u \notin ready'
      BY <1>9, <2>00 DEF AddNotificationCallback, PromiseInv
    <3>3. \A u \in ready' : pc'[u] = "await"
      BY <1>9, <2>00 DEF AddNotificationCallback, PromiseInv
    <3> QED
      BY <3>1, <3>2, <3>3 DEF PromiseInv
  <2>4. LifeInv'
    BY <1>9, <2>0 DEF AddNotificationCallback, LifeInv
  <2>5. NtfInv'
    BY <1>9 DEF AddNotificationCallback, NtfInv
  <2> QED
    BY <2>1, <2>2, <2>3, <2>4, <2>5
<1>10. ASSUME NEW t \in Thread, StreamReturn(t) PROVE Inv'
  <2>1. TableInv'
    BY <1>10 DEF StreamReturn, TableInv
  <2>2. ReferenceInv'
    BY <1>10 DEF StreamReturn, ReferenceInv
  <2>3. PromiseInv'
    BY <1>10 DEF StreamReturn, PromiseInv
  <2>4. LifeInv'
    BY <1>10 DEF StreamReturn, LifeInv
  <2>5. NtfInv'
    BY <1>10 DEF StreamReturn, NtfInv
  <2> QED
    BY <2>1, <2>2, <2>3, <2>4, <2>5
<1>11. ASSUME NEW t \in Thread, RemoveSession(t) PROVE Inv'
  <2>1. TableInv'
    BY <1>11 DEF RemoveSession, TableInv
  <2>2. ReferenceInv'
    <3>1. \A u \in Thread : /\ pc'[u] # pc[u] => u = t
                            /\ pc'[t] \in {"idle", "drop"}
                            /\ pc'[t] = "drop" => sid[t] \in sessions
      BY <1>11 DEF RemoveSession
    <3>2. \A u \in Thread : pc'[u] \notin ReadingPC
      BY <1>11, <3>1 DEF RemoveSession, Reading
    <3>3. \A u \in Thread : pc'[u] \in HoldingPC => object'[sid'[u]] = "open"
      BY <1>11, <3>1 DEF RemoveSession, ReferenceInv, TableInv
    <3> QED
      BY <3>2, <3>3 DEF ReferenceInv
  <2>3. PromiseInv'
    BY <1>11 DEF RemoveSession, PromiseInv
  <2>4. LifeInv'
    BY <1>11 DEF RemoveSession, LifeInv
  <2>5. NtfInv'
    BY <1>11 DEF RemoveSession, NtfInv
  <2> QED
    BY <2>1, <2>2, <2>3, <2>4, <2>5
<1>12. ASSUME NEW t \in Thread, DropReference(t) PROVE Inv'
  <2> DEFINE s == sid[t]
             kept == s \in sessions \/ Holders(s) # {t} \/ ntf[s] = "rpc"
  <2>0. /\ object[s] = "open"
        /\ kept => object' = object
        /\ ~kept => object' = [object EXCEPT ![s] = "erase"]
        /\ \A u \in Thread \ {t} : pc'[u] = pc[u]
        /\ pc'[t] \in {"idle", "listen", "dtor", "dtorL"}
        /\ UNCHANGED <<tableVars, sid, ntfVars>>
    BY <1>12 DEF DropReference, AfterDtor, ReferenceInv
  <2>1. TableInv'
    BY <2>0 DEF TableInv
  <2>2. ReferenceInv'
    <3>1. ASSUME NEW u \in Thread, pc'[u] \in HoldingPC
          PROVE  object'[sid'[u]] = "open"
      <4>1. u # t /\ pc[u] \in HoldingPC /\ object[sid[u]] = "open"
        BY <2>0, <3>1 DEF ReferenceInv
      <4>2. ~kept => sid[u] # s
        BY <4>1 DEF Holders
      <4> QED
        BY <2>0, <4>1, <4>2
    <3> QED
      BY <2>0, <3>1 DEF ReferenceInv
  <2>3. PromiseInv'
    <3>1. pc[t] # "await" /\ UNCHANGED <<callbacks, promises, ready>>
      BY <1>12 DEF DropReference
    <3>2. \A u \in Thread : pc[u] = "await" => pc'[u] = "await" /\ sid'[u] = sid[u]
      BY <2>0, <3>1
    <3> QED
      BY <3>1, <3>2, PromiseKept
  <2>4. LifeInv'
    BY <1>12 DEF DropReference, LifeInv
  <2>5. NtfInv'
    BY <1>12 DEF DropReference, NtfInv
  <2> QED
    BY <2>1, <2>2, <2>3, <2>4, <2>5
<1>13. ASSUME NEW s \in Session, EraseCallbacks(s) PROVE Inv'
  <2>1. TableInv'
    BY <1>13 DEF EraseCallbacks, TableInv
  <2>2. ReferenceInv'
    BY <1>13 DEF EraseCallbacks, ReferenceInv
  <2>3. PromiseInv'
    BY <1>13 DEF EraseCallbacks, PromiseInv
  <2>4. LifeInv'
    BY <1>13 DEF EraseCallbacks, LifeInv
  <2>5. NtfInv'
    BY <1>13 DEF EraseCallbacks, NtfInv, Dispatching
  <2> QED
    BY <2>1, <2>2, <2>3, <2>4, <2>5
<1>14. ASSUME NEW s \in Session, FulfilPromises(s) PROVE Inv'
  <2>1. TableInv'
    BY <1>14 DEF FulfilPromises, TableInv
  <2>2. ReferenceInv'
    BY <1>14 DEF FulfilPromises, ReferenceInv
  <2>3. PromiseInv'
    <3>1. callbacks[s] = << >>
      BY <1>14 DEF FulfilPromises, LifeInv
    <3>2. \A x \in Session : \A i \in 1 .. Len(callbacks'[x]) :
            callbacks'[x][i].kind = "stream" =>
                callbacks'[x][i].writer \in promises'[x]
      <4>1. callbacks' = callbacks /\ Len(callbacks[s]) = 0
        BY <1>14, <3>1 DEF FulfilPromises
      <4>2. \A x \in Session : x # s => promises'[x] = promises[x]
        BY <1>14 DEF FulfilPromises
      <4> SUFFICES ASSUME NEW x \in Session, NEW i \in 1 .. Len(callbacks'[x]),
                          callbacks'[x][i].kind = "stream"
                   PROVE  callbacks'[x][i].writer \in promises'[x]
        OBVIOUS
      <4>3. x # s
        BY <4>1
      <4> QED
        BY <4>1, <4>2, <4>3 DEF PromiseInv
    <3>3. \A x \in Session : \A u \in promises'[x] :
            pc'[u] = "await" /\ sid'[u] = x /\ u \notin ready'
      BY <1>14 DEF FulfilPromises, PromiseInv
    <3>4. \A u \in ready' : pc'[u] = "await"
      BY <1>14 DEF FulfilPromises, PromiseInv
    <3> QED
      BY <3>2, <3>3, <3>4 DEF PromiseInv
  <2>4. LifeInv'
    BY <1>14 DEF FulfilPromises, LifeInv
  <2>5. NtfInv'
    BY <1>14 DEF FulfilPromises, NtfInv
  <2> QED
    BY <2>1, <2>2, <2>3, <2>4, <2>5
<1>15. ASSUME NEW s \in Session, FreeSession(s) PROVE Inv'
  <2>1. TableInv'
    BY <1>15 DEF FreeSession, TableInv
  <2>2. ReferenceInv'
    <3>1. \A u \in Thread : pc'[u] \in ReadingPC \cup HoldingPC => pc'[u] = pc[u]
      BY <1>15 DEF FreeSession, AfterDtor
    <3>2. \A x \in Session : object[x] = "open" => object'[x] = "open"
      BY <1>15 DEF FreeSession
    <3> QED
      BY <1>15, <3>1, <3>2 DEF FreeSession, ReferenceInv
  <2>3. PromiseInv'
    <3>1. \A u \in Thread : pc[u] = "await" => pc'[u] = "await"
      BY <1>15 DEF FreeSession, AfterDtor
    <3> QED
      BY <1>15, <3>1 DEF FreeSession, PromiseInv
  <2>4. LifeInv'
    BY <1>15 DEF FreeSession, LifeInv
  <2>5. NtfInv'
    BY <1>15 DEF FreeSession, NtfInv
  <2> QED
    BY <2>1, <2>2, <2>3, <2>4, <2>5
<1>16. ASSUME NEW s \in Session, RunCallback(s) PROVE Inv'
  <2>1. TableInv'
    BY <1>16 DEF RunCallback, TableInv
  <2>2. ReferenceInv'
    BY <1>16 DEF RunCallback, ReferenceInv
  <2>3. PromiseInv'
    BY <1>16 DEF RunCallback, PromiseInv
  <2>4. LifeInv'
    BY <1>16 DEF RunCallback, LifeInv
  <2>5. NtfInv'
    <3>0. \A x \in Session : x # s => ntf'[x] = ntf[x] /\ at'[x] = at[x]
      BY <1>16 DEF RunCallback
    <3>1. callbacks' = callbacks /\ object' = object
      BY <1>16 DEF RunCallback
    <3>2. at[s] <= Len(callbacks[s]) /\ ntf[s] = "calling"
      BY <1>16 DEF RunCallback
    <3>3. Len(callbacks[s]) \in Nat /\ at[s] \in Nat
      OBVIOUS
    <3>4. CASE Referenced(s) /\ ntf' = [ntf EXCEPT ![s] = "rpc"] /\ at' = at
      <4>1. object[s] = "open"
        BY <3>2, <3>4 DEF Referenced, Holders, TableInv, ReferenceInv
      <4> QED
        BY <3>0, <3>1, <3>2, <3>4, <4>1 DEF NtfInv
    <3>5. CASE at' = [at EXCEPT ![s] = @ + 1] /\ ntf' = ntf
      <4>1. at'[s] <= Len(callbacks[s]) + 1
        BY <3>2, <3>3, <3>5
      <4> QED
        BY <3>0, <3>1, <3>2, <3>5, <4>1 DEF NtfInv
    <3> QED
      BY <1>16, <3>4, <3>5 DEF RunCallback
  <2> QED
    BY <2>1, <2>2, <2>3, <2>4, <2>5
<1>17. ASSUME NEW s \in Session, ResetWatchdog(s) PROVE Inv'
  <2>1. TableInv'
    BY <1>17 DEF ResetWatchdog, TableInv, NtfInv
  <2>2. ReferenceInv'
    <3>1. UNCHANGED <<tableVars, callVars>>
      BY <1>17 DEF ResetWatchdog
    <3>2. ASSUME NEW u \in Thread, pc[u] \in HoldingPC
          PROVE  object'[sid[u]] = object[sid[u]]
      <4>1. sid[u] = s => Holders(s) # {}
        BY <3>2 DEF Holders
      <4> QED
        BY <1>17, <4>1 DEF ResetWatchdog
    <3> QED
      BY <3>1, <3>2 DEF ReferenceInv
  <2>3. PromiseInv'
    BY <1>17 DEF ResetWatchdog, PromiseInv
  <2>4. LifeInv'
    BY <1>17 DEF ResetWatchdog, LifeInv, NtfInv
  <2>5. NtfInv'
    <3>0. \A x \in Session : x # s => /\ ntf'[x] = ntf[x]
                                      /\ at'[x] = at[x]
                                      /\ object'[x] = object[x]
      BY <1>17 DEF ResetWatchdog
    <3>1. callbacks' = callbacks /\ at[s] <= Len(callbacks[s])
      BY <1>17 DEF ResetWatchdog, NtfInv
    <3>2. Len(callbacks[s]) \in Nat /\ at[s] \in Nat
      OBVIOUS
    <3>3. CASE ntf' = [ntf EXCEPT ![s] = "calling"]
               /\ at' = [at EXCEPT ![s] = @ + 1]
      <4>1. at'[s] <= Len(callbacks[s]) + 1
        BY <3>1, <3>2, <3>3
      <4> QED
        BY <3>0, <3>1, <3>3, <4>1 DEF NtfInv
    <3>4. CASE ntf' = [ntf EXCEPT ![s] = "dtor"]
               /\ object' = [object EXCEPT ![s] = "erase"]
      BY <3>0, <3>1, <3>4 DEF NtfInv
    <3> QED
      BY <1>17, <3>3, <3>4 DEF ResetWatchdog
  <2> QED
    BY <2>1, <2>2, <2>3, <2>4, <2>5
<1>18. ASSUME NEW s \in Session, HandlerReturn(s) PROVE Inv'
  <2>1. TableInv'
    BY <1>18 DEF HandlerReturn, TableInv
  <2>2. ReferenceInv'
    BY <1>18 DEF HandlerReturn, ReferenceInv
  <2>3. PromiseInv'
    BY <1>18 DEF HandlerReturn, PromiseInv
  <2>4. LifeInv'
    BY <1>18 DEF HandlerReturn, LifeInv
  <2>5. NtfInv'
    BY <1>18 DEF HandlerReturn, NtfInv
  <2> QED
    BY <2>1, <2>2, <2>3, <2>4, <2>5
<1>19. CASE UNCHANGED vars
  <2>1. TableInv' /\ ReferenceInv'
    BY <1>19 DEF vars, TableInv, ReferenceInv
  <2>2. PromiseInv' /\ LifeInv'
    BY <1>19 DEF vars, PromiseInv, LifeInv
  <2>3. NtfInv'
    BY <1>19 DEF vars, NtfInv
  <2> QED
    BY <2>1, <2>2, <2>3
<1> QED
  BY <1>1, <1>2, <1>3, <1>4, <1>5, <1>6, <1>7, <1>8, <1>9, <1>10, <1>11,
     <1>12, <1>13, <1>14, <1>15, <1>16, <1>17, <1>18, <1>19
     DEF Next, Environment, ThreadStep, SessionStep

\* The inductive invariant holds in every reachable state.
THEOREM InductiveInvariant == Spec => [](TypeOK /\ Inv)
<1>1. Init => TypeOK /\ Inv
  BY InitTypeOK, InitInv
<1>2. TypeOK /\ Inv /\ [Next]_vars => (TypeOK /\ Inv)'
  BY NextTypeOK, NextInv
<1> QED
  BY <1>1, <1>2, PTL DEF Spec

\* streamNotifications does not return, and its gRPC writer does not go away,
\* while a callback that writes to it is registered.
THEOREM WriterAliveTheorem == Spec => []WriterAlive
<1>1. TypeOK /\ Inv => WriterAlive
  BY DEF TypeOK, Inv, PromiseInv, WriterAlive
<1> QED
  BY <1>1, InductiveInvariant, PTL

\* No thread sends on a session whose destructor has begun.
THEOREM SessionAliveTheorem == Spec => []SessionAlive
<1>1. TypeOK /\ Inv => SessionAlive
  BY DEF TypeOK, Inv, TableInv, ReferenceInv, NtfInv, SessionAlive, Reading
<1> QED
  BY <1>1, InductiveInvariant, PTL

\* globalNotificationCallbacks does not change while a handler is in it: who
\* registers a callback or erases a session's needs the lock for himself.
THEOREM IterationValidTheorem == Spec => IterationValid
<1>1. [Next]_vars => [Dispatching # {} => callbacks' = callbacks]_vars
  <2> SUFFICES ASSUME Next, callbacks' # callbacks PROVE Dispatching = {}
    BY DEF vars, objectVars
  <2> USE DEF objectVars
  <2>1. ASSUME NEW t \in Thread, ThreadStep(t) PROVE Dispatching = {}
    BY <2>1 DEF ThreadStep, NetconfConnect, AddSession, RpcReturn,
        LockNotificationState, AddNotificationCallback, StreamReturn,
        RemoveSession, DropReference
  <2>2. ASSUME NEW s \in Session, SessionStep(s) PROVE Dispatching = {}
    BY <2>2 DEF SessionStep, EraseCallbacks, FulfilPromises, FreeSession,
        RunCallback, ResetWatchdog, HandlerReturn
  <2>3. ~ Environment
    BY DEF Environment, ConnectCall, CallOnSession, DisconnectCall, Notification
  <2> QED
    BY <2>1, <2>2, <2>3 DEF Next
<1> QED
  BY <1>1, PTL DEF Spec, IterationValid

\* No callback and no promise outlives the nc_session they belong to.
THEOREM NothingOutlivesTheorem == Spec => []NothingOutlivesSession
<1>1. TypeOK /\ Inv => NothingOutlivesSession
  BY DEF Inv, LifeInv, NothingOutlivesSession
<1> QED
  BY <1>1, InductiveInvariant, PTL
=============================================================================
