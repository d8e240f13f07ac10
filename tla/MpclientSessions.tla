-------------------------- MODULE MpclientSessions --------------------------
(***************************************************************************)
(* The session manager of mplane_client: MpclientImpl (the gRPC service),  *)
(* NetconfSession (one NETCONF connection) and, as far as the code relies  *)
(* on it, the notification thread libnetconf2 runs for a session.          *)
(*                                                                         *)
(* Every gRPC call is served by its own Thread.  Three locks are involved: *)
(*                                                                         *)
(*  - sessionsMutex_ (shared_mutex): readers are the threads whose pc is   *)
(*    in Reading; the writers, addSession and removeSession, do not block  *)
(*    inside, so each is one step that needs Reading to be empty;          *)
(*  - notificationStateMutex_ of a session: held while pc = "attach";      *)
(*  - globalNotificationMutex (shared_mutex): readers are the notification *)
(*    threads that run the callbacks of a notification (Dispatching); the  *)
(*    writers are single steps that need Dispatching to be empty.          *)
(*                                                                         *)
(* The life of a NetconfSession is that of a shared_ptr: the references    *)
(* are the entry of sessions_, the local variables of connect, listen and  *)
(* disconnect, and the one the supervision callback takes from its         *)
(* weak_ptr.  Whoever drops the last one runs the destructor.              *)
(***************************************************************************)
EXTENDS Naturals, Sequences, FiniteSets

CONSTANTS
    Thread,        \* threads of the gRPC server
    MaxSessions,   \* bound: sessions connected over a run (far below 2^32,
                   \* where sessionsCounter_, a uint32_t, wraps)
    MaxCallbacks,  \* bound: callbacks registered with one session
    MaxNotifs,     \* bound: notifications delivered over a run
    Supervision    \* whether clients call startSupervision

ASSUME ThreadAssumption == IsFiniteSet(Thread)
ASSUME BoundAssumption ==
    /\ MaxSessions \in Nat \ {0}
    /\ MaxCallbacks \in Nat
    /\ MaxNotifs \in Nat
    /\ Supervision \in BOOLEAN

VARIABLES
    sessionsCounter,  \* sessionsCounter_: the next session id
    sessions,         \* the ids in sessions_
    pc,               \* where each gRPC thread is in its call
    sid,              \* the session id of that call
    object,           \* the life of each NetconfSession
    callbacks,        \* globalNotificationCallbacks
    promises,         \* sessionDonePromises_: the threads that wait on them
    ready,            \* the threads whose promise has been set
    ntf,              \* the notification thread of each session,
    at,               \* the callback it is at,
    name,             \* and the name of the notification it handles
    notifs            \* notifications delivered so far

tableVars == <<sessionsCounter, sessions>>
callVars == <<pc, sid>>
objectVars == <<object, callbacks, promises, ready>>
ntfVars == <<ntf, at, name, notifs>>

vars == <<tableVars, callVars, objectVars, ntfVars>>

Session == 0 .. MaxSessions - 1

\* A callback is the capture of streamNotifications (the writer of the
\* waiting thread) or that of startSupervision (a weak_ptr).
Callback == [kind : {"stream"}, writer : Thread] \cup [kind : {"supervise"}]

StreamCallback(t) == [kind |-> "stream", writer |-> t]
SuperviseCallback == [kind |-> "supervise"]

(***************************************************************************)
(* Program counters.                                                       *)
(*   connect  NetconfSession::connect runs; opened  it succeeded, the      *)
(*   thread waits for sessionsMutex_; listen, accepted  the same for       *)
(*   listen, which loops; added, heard  addSession is over and connect's   *)
(*   or listen's own shared_ptr still there; remove  disconnect waits for  *)
(*   sessionsMutex_; drop  it holds the removed shared_ptr; dtor, dtorL    *)
(*   the call, or the round of listen, runs ~NetconfSession;               *)
(*   rpc  netconfRpc waits for the reply; stream, supervise  the call      *)
(*   waits for notificationStateMutex_; attachS, attachV  it holds that    *)
(*   mutex and waits for globalNotificationMutex; await  it waits for its  *)
(*   promise; subscribe  startSupervision waits for its subscribe RPC.     *)
(***************************************************************************)
PC == {"idle", "connect", "opened", "added", "listen", "accepted", "heard",
       "remove", "drop", "dtor", "dtorL", "rpc", "stream", "attachS", "await",
       "supervise", "attachV", "subscribe"}

\* The calls with a shared_ptr of their own.
HoldingPC == {"added", "heard", "drop"}

ReadingPC == {"rpc", "stream", "attachS", "supervise", "attachV", "subscribe"}

\* The destructor's progress, from "open" to "freed".
Life == {"none", "open", "erase", "fulfil", "free", "freed"}

\* off: no thread; poll: between notifications; calling: at callback number
\* at, for a notification of that name; rpc: in the supervision callback, with a
\* shared_ptr; dtor: that shared_ptr was the last one.
Name == {"supervision-notification", "other"}
NtfState == {"off", "poll", "calling", "rpc", "dtor"}

TypeOK ==
    /\ sessionsCounter \in 0 .. MaxSessions
    /\ sessions \in SUBSET Session
    /\ pc \in [Thread -> PC]
    /\ sid \in [Thread -> Session]
    /\ object \in [Session -> Life]
    /\ callbacks \in [Session -> Seq(Callback)]
    /\ promises \in [Session -> SUBSET Thread]
    /\ ready \in SUBSET Thread
    /\ ntf \in [Session -> NtfState]
    /\ at \in [Session -> Nat \ {0}]
    /\ name \in [Session -> Name]
    /\ notifs \in 0 .. MaxNotifs

Init ==
    /\ sessionsCounter = 0
    /\ sessions = {}
    /\ pc = [t \in Thread |-> "idle"]
    /\ sid = [t \in Thread |-> 0]
    /\ object = [s \in Session |-> "none"]
    /\ callbacks = [s \in Session |-> << >>]
    /\ promises = [s \in Session |-> {}]
    /\ ready = {}
    /\ ntf = [s \in Session |-> "off"]
    /\ at = [s \in Session |-> 1]
    /\ name = [s \in Session |-> "other"]
    /\ notifs = 0

-----------------------------------------------------------------------------
\* Lock and reference states.

Reading == {t \in Thread : pc[t] \in ReadingPC}

Dispatching == {s \in Session : ntf[s] \in {"calling", "rpc", "dtor"}}

StateMutexHeld(s) ==
    \E t \in Thread : pc[t] \in {"attachS", "attachV"} /\ sid[t] = s

Holders(s) == {t \in Thread : pc[t] \in HoldingPC /\ sid[t] = s}

\* The use count of the shared_ptr is not zero: weak_ptr::lock succeeds.
Referenced(s) == \/ s \in sessions
                 \/ Holders(s) # {}
                 \/ ntf[s] = "rpc"

\* Where the call goes on that has destroyed a session.
AfterDtor(p) == CASE p = "dtor" -> "idle" [] p = "dtorL" -> "listen" [] OTHER -> p

-----------------------------------------------------------------------------
(***************************************************************************)
(* Faulty variants.  No specification uses them: each one takes the place  *)
(* of the action it is named after to show that a property can fail.       *)
(***************************************************************************)
\* removeSession without its unique_lock.
FaultyRemoveSession(t) ==
    /\ pc[t] = "remove"
    /\ sessions' = sessions \ {sid[t]}
    /\ pc' = [pc EXCEPT ![t] = IF sid[t] \in sessions THEN "drop" ELSE "idle"]
    /\ UNCHANGED <<sessionsCounter, sid, objectVars, ntfVars>>

\* The destructor sets the promises before it erases the callbacks.
FaultyEraseOrder(s) ==
    /\ object[s] = "erase"
    /\ ready' = ready \cup promises[s]
    /\ object' = [object EXCEPT ![s] = "fulfil"]
    /\ UNCHANGED <<tableVars, callVars, callbacks, promises, ntfVars>>

\* removeGlobalNotificationCallbacks without its unique_lock.
FaultyEraseUnlocked(s) ==
    /\ object[s] = "erase"
    /\ callbacks' = [callbacks EXCEPT ![s] = << >>]
    /\ object' = [object EXCEPT ![s] = "fulfil"]
    /\ UNCHANGED <<tableVars, callVars, promises, ready, ntfVars>>

\* The destructor forgets the callback table.
FaultyEraseNothing(s) ==
    /\ object[s] = "erase"
    /\ object' = [object EXCEPT ![s] = "fulfil"]
    /\ UNCHANGED <<tableVars, callVars, callbacks, promises, ready, ntfVars>>

\* The destructor drops its promises without setting them.
FaultyFulfilNothing(s) ==
    /\ object[s] = "fulfil"
    /\ promises' = [promises EXCEPT ![s] = {}]
    /\ object' = [object EXCEPT ![s] = "free"]
    /\ UNCHANGED <<tableVars, callVars, callbacks, ready, ntfVars>>

\* nc_session_free waits for the notification thread without ending it.
FaultyFreeJoin(s) ==
    /\ object[s] = "free"
    /\ ntf[s] = "off"
    /\ object' = [object EXCEPT ![s] = "freed"]
    /\ pc' = [t \in Thread |-> IF sid[t] = s THEN AfterDtor(pc[t]) ELSE pc[t]]
    /\ UNCHANGED <<tableVars, sid, callbacks, promises, ready, ntfVars>>

\* The iteration begins one position too early.
FaultyNotificationStart(s) ==
    /\ ntf[s] = "poll"
    /\ notifs < MaxNotifs
    /\ notifs' = notifs + 1
    /\ ntf' = [ntf EXCEPT ![s] = "calling"]
    /\ at' = [at EXCEPT ![s] = 0]
    /\ \E n \in Name : name' = [name EXCEPT ![s] = n]
    /\ UNCHANGED <<tableVars, callVars, objectVars>>

-----------------------------------------------------------------------------
(***************************************************************************)
(* connect and listen.  A connection attempt that fails destroys a         *)
(* NetconfSession without a session_, which does nothing.                  *)
(***************************************************************************)
Connected == {t \in Thread : pc[t] \in {"opened", "accepted"}}

ConnectCall(t) ==
    /\ pc[t] = "idle"
    /\ \E c \in {"connect", "listen"} : pc' = [pc EXCEPT ![t] = c]
    /\ UNCHANGED <<tableVars, sid, objectVars, ntfVars>>

NetconfConnect(t) ==
    /\ pc[t] \in {"connect", "listen"}
    /\ \/ pc' = [pc EXCEPT ![t] = "idle"]
       \/ /\ sessionsCounter + Cardinality(Connected) < MaxSessions
          /\ pc' = [pc EXCEPT ![t] =
                       IF pc[t] = "connect" THEN "opened" ELSE "accepted"]
    /\ UNCHANGED <<tableVars, sid, objectVars, ntfVars>>

AddSession(t) ==
    /\ pc[t] \in {"opened", "accepted"}
    /\ sessionsCounter < MaxSessions
    /\ Reading = {}
    /\ sessions' = sessions \cup {sessionsCounter}
    /\ sessionsCounter' = sessionsCounter + 1
    /\ object' = [object EXCEPT ![sessionsCounter] = "open"]
    /\ sid' = [sid EXCEPT ![t] = sessionsCounter]
    /\ pc' = [pc EXCEPT ![t] = IF pc[t] = "opened" THEN "added" ELSE "heard"]
    /\ UNCHANGED <<callbacks, promises, ready, ntfVars>>

(***************************************************************************)
(* The calls on a session.  A call with an unknown id only answers so.     *)
(***************************************************************************)
SessionCalls == {"rpc", "stream"} \cup
                (IF Supervision THEN {"supervise"} ELSE {})

Attaching(s) == {t \in Thread : /\ sid[t] = s
                               /\ pc[t] \in ReadingPC \ {"rpc", "subscribe"}}

CallOnSession(t) ==
    /\ pc[t] = "idle"
    /\ \E s \in sessions, c \in SessionCalls :
         /\ \/ c = "rpc"
            \/ Len(callbacks[s]) + Cardinality(Attaching(s)) < MaxCallbacks
         /\ pc' = [pc EXCEPT ![t] = c]
         /\ sid' = [sid EXCEPT ![t] = s]
    /\ UNCHANGED <<tableVars, objectVars, ntfVars>>

\* The reply, an error or the timeout of an RPC: the loop over
\* nc_recv_reply ends and the call returns, releasing sessionsMutex_.
RpcReturn(t) ==
    /\ pc[t] \in {"rpc", "subscribe"}
    /\ pc' = [pc EXCEPT ![t] = "idle"]
    /\ UNCHANGED <<tableVars, sid, objectVars, ntfVars>>

LockNotificationState(t) ==
    /\ pc[t] \in {"stream", "supervise"}
    /\ ~ StateMutexHeld(sid[t])
    /\ pc' = [pc EXCEPT ![t] =
                 IF pc[t] = "stream" THEN "attachS" ELSE "attachV"]
    /\ UNCHANGED <<tableVars, sid, objectVars, ntfVars>>

\* The rest of addNotificationCallback; a stream then releases sessionsMutex_
\* and waits, a supervision sends its subscribe RPC under it.
AddNotificationCallback(t) ==
    LET s == sid[t] IN
    /\ pc[t] \in {"attachS", "attachV"}
    /\ Dispatching = {}
    /\ callbacks' = [callbacks EXCEPT ![s] = Append(@,
          IF pc[t] = "attachS" THEN StreamCallback(t) ELSE SuperviseCallback)]
    /\ ntf' = IF ntf[s] = "off" THEN [ntf EXCEPT ![s] = "poll"] ELSE ntf
    /\ promises' = IF pc[t] = "attachS"
                   THEN [promises EXCEPT ![s] = @ \cup {t}]
                   ELSE promises
    /\ pc' = [pc EXCEPT ![t] = IF @ = "attachS" THEN "await" ELSE "subscribe"]
    /\ UNCHANGED <<tableVars, sid, object, ready, at, name, notifs>>

StreamReturn(t) ==
    /\ pc[t] = "await"
    /\ t \in ready
    /\ ready' = ready \ {t}
    /\ pc' = [pc EXCEPT ![t] = "idle"]
    /\ UNCHANGED <<tableVars, sid, object, callbacks, promises, ntfVars>>

(***************************************************************************)
(* disconnect.                                                             *)
(***************************************************************************)
DisconnectCall(t) ==
    /\ pc[t] = "idle"
    /\ \E s \in sessions : sid' = [sid EXCEPT ![t] = s]
    /\ pc' = [pc EXCEPT ![t] = "remove"]
    /\ UNCHANGED <<tableVars, objectVars, ntfVars>>

\* removeSession: a session that is no longer there yields a null pointer.
RemoveSession(t) ==
    /\ pc[t] = "remove"
    /\ Reading = {}
    /\ sessions' = sessions \ {sid[t]}
    /\ pc' = [pc EXCEPT ![t] = IF sid[t] \in sessions THEN "drop" ELSE "idle"]
    /\ UNCHANGED <<sessionsCounter, sid, objectVars, ntfVars>>

\* connect or disconnect returns, or listen goes round: its shared_ptr goes
\* out of scope.
DropReference(t) ==
    LET s == sid[t]
        dtor == IF pc[t] = "heard" THEN "dtorL" ELSE "dtor" IN
    /\ pc[t] \in HoldingPC
    /\ IF s \in sessions \/ Holders(s) # {t} \/ ntf[s] = "rpc"
       THEN /\ pc' = [pc EXCEPT ![t] = AfterDtor(dtor)]
            /\ UNCHANGED object
       ELSE /\ pc' = [pc EXCEPT ![t] = dtor]
            /\ object' = [object EXCEPT ![s] = "erase"]
    /\ UNCHANGED <<tableVars, sid, callbacks, promises, ready, ntfVars>>

(***************************************************************************)
(* ~NetconfSession, in the order of its statements.  The thread that runs  *)
(* it is the one in a dtor pc, or the session's own notification thread.   *)
(***************************************************************************)
EraseCallbacks(s) ==
    /\ object[s] = "erase"
    /\ Dispatching = {}
    /\ callbacks' = [callbacks EXCEPT ![s] = << >>]
    /\ object' = [object EXCEPT ![s] = "fulfil"]
    /\ UNCHANGED <<tableVars, callVars, promises, ready, ntfVars>>

FulfilPromises(s) ==
    /\ object[s] = "fulfil"
    /\ ready' = ready \cup promises[s]
    /\ promises' = [promises EXCEPT ![s] = {}]
    /\ object' = [object EXCEPT ![s] = "free"]
    /\ UNCHANGED <<tableVars, callVars, callbacks, ntfVars>>

\* nc_session_free ends the notification thread and waits for it.
FreeSession(s) ==
    /\ object[s] = "free"
    /\ ntf[s] \in {"off", "poll"}
    /\ ntf' = [ntf EXCEPT ![s] = "off"]
    /\ object' = [object EXCEPT ![s] = "freed"]
    /\ pc' = [t \in Thread |-> IF sid[t] = s THEN AfterDtor(pc[t]) ELSE pc[t]]
    /\ UNCHANGED <<tableVars, sid, callbacks, promises, ready, at, name,
                   notifs>>

(***************************************************************************)
(* The notification thread of a session, in globalNotificationHandler.     *)
(***************************************************************************)
Notification(s) ==
    /\ ntf[s] = "poll"
    /\ notifs < MaxNotifs
    /\ notifs' = notifs + 1
    /\ ntf' = [ntf EXCEPT ![s] = "calling"]
    /\ at' = [at EXCEPT ![s] = 1]
    /\ \E n \in Name : name' = [name EXCEPT ![s] = n]
    /\ UNCHANGED <<tableVars, callVars, objectVars>>

\* One callback of the vector: a stream writes to its gRPC writer; the
\* supervision callback goes on only for a supervision-notification and
\* while the session is still referenced.
RunCallback(s) ==
    /\ ntf[s] = "calling"
    /\ at[s] <= Len(callbacks[s])
    /\ IF /\ callbacks[s][at[s]].kind = "supervise"
          /\ name[s] = "supervision-notification"
          /\ Referenced(s)
       THEN /\ ntf' = [ntf EXCEPT ![s] = "rpc"]
            /\ UNCHANGED at
       ELSE /\ at' = [at EXCEPT ![s] = @ + 1]
            /\ UNCHANGED ntf
    /\ UNCHANGED <<tableVars, callVars, objectVars, name, notifs>>

\* The watchdog reset RPC is over and the callback's shared_ptr is dropped.
ResetWatchdog(s) ==
    /\ ntf[s] = "rpc"
    /\ IF s \in sessions \/ Holders(s) # {}
       THEN /\ ntf' = [ntf EXCEPT ![s] = "calling"]
            /\ at' = [at EXCEPT ![s] = @ + 1]
            /\ UNCHANGED object
       ELSE /\ ntf' = [ntf EXCEPT ![s] = "dtor"]
            /\ object' = [object EXCEPT ![s] = "erase"]
            /\ UNCHANGED at
    /\ UNCHANGED <<tableVars, callVars, callbacks, promises, ready,
                   name, notifs>>

HandlerReturn(s) ==
    /\ ntf[s] = "calling"
    /\ at[s] > Len(callbacks[s])
    /\ ntf' = [ntf EXCEPT ![s] = "poll"]
    /\ UNCHANGED <<tableVars, callVars, objectVars, at, name, notifs>>

-----------------------------------------------------------------------------
\* Steps a client may or may not cause.
Environment ==
    \/ \E t \in Thread : ConnectCall(t) \/ CallOnSession(t) \/ DisconnectCall(t)
    \/ \E s \in Session : Notification(s)

\* Steps of a gRPC thread in the middle of a call.
ThreadStep(t) ==
    \/ NetconfConnect(t) \/ AddSession(t)
    \/ RpcReturn(t) \/ LockNotificationState(t) \/ AddNotificationCallback(t)
    \/ StreamReturn(t) \/ RemoveSession(t) \/ DropReference(t)

\* Steps of the destructor and of the notification thread.
SessionStep(s) ==
    \/ EraseCallbacks(s) \/ FulfilPromises(s) \/ FreeSession(s)
    \/ RunCallback(s) \/ ResetWatchdog(s) \/ HandlerReturn(s)

Next == \/ Environment
        \/ \E t \in Thread : ThreadStep(t)
        \/ \E s \in Session : SessionStep(s)

\* Every started call, callback and destructor goes on when it can.
Fairness == /\ \A t \in Thread : WF_vars(ThreadStep(t))
            /\ \A s \in Session : WF_vars(SessionStep(s))

Spec == Init /\ [][Next]_vars /\ Fairness

-----------------------------------------------------------------------------
\* A registered stream callback writes to a gRPC writer that still exists:
\* streamNotifications does not return before the destructor has erased the
\* callback from globalNotificationCallbacks.
WriterAlive ==
    \A s \in Session : \A i \in 1 .. Len(callbacks[s]) :
        callbacks[s][i].kind = "stream" =>
            LET t == callbacks[s][i].writer IN
            pc[t] = "await" /\ sid[t] = s /\ t \notin ready

\* Nobody sends on a nc_session whose destructor has begun: not a gRPC thread
\* under sessionsMutex_, not the watchdog reset of the supervision callback.
SessionAlive ==
    /\ \A t \in Reading : sid[t] \in sessions /\ object[sid[t]] = "open"
    /\ \A s \in Session : ntf[s] = "rpc" => object[s] = "open"

\* While globalNotificationHandler is in globalNotificationCallbacks for any
\* session, also in the RPC of a callback it has called, no thread registers
\* or erases callbacks: a vector it iterates over does not grow, move or
\* vanish under it, whoever connects, streams or disconnects meanwhile.
IterationValid == [][Dispatching # {} => callbacks' = callbacks]_vars

\* Before nc_session_free gives the address back no callback is registered
\* under it any more, and after it no thread dispatches for it: a later
\* session at the same address starts without foreign callbacks.
NothingOutlivesSession ==
    \A s \in Session :
        /\ object[s] \in {"none", "free", "freed"} => callbacks[s] = << >>
        /\ object[s] = "freed" => ntf[s] = "off" /\ promises[s] = {}

\* README of mplane_client: disconnect "stops notification streaming".  A
\* stream whose session has been removed from sessions_ returns.
StreamsEnd ==
    \A t \in Thread :
        (pc[t] = "await" /\ sid[t] \notin sessions) ~> pc[t] = "idle"

\* A session that disconnect has removed is closed: its destructor runs to
\* the end, in whichever thread drops the last reference.
RemovedSessionFreed ==
    \A s \in Session :
        (object[s] = "open" /\ s \notin sessions) ~> object[s] = "freed"

-----------------------------------------------------------------------------
(***************************************************************************)
(* The inductive invariant behind the safety properties.                   *)
(***************************************************************************)
\* sessions_ holds live objects with ids already handed out; ids not handed
\* out yet have left no trace.
TableInv ==
    /\ \A s \in sessions : object[s] = "open"
    /\ \A s \in Session : object[s] = "none" <=> s >= sessionsCounter

\* The references held outside the table: a reader of sessions_ keeps its
\* session in the table, and a call with a pointer of its own keeps the
\* object open.
ReferenceInv ==
    /\ \A t \in Thread : pc[t] \in ReadingPC => sid[t] \in sessions
    /\ \A t \in Thread : pc[t] \in HoldingPC => object[sid[t]] = "open"

\* A stream callback has a promise, and whoever has a promise that is not
\* set is waiting for it.
PromiseInv ==
    /\ \A s \in Session : \A i \in 1 .. Len(callbacks[s]) :
          callbacks[s][i].kind = "stream" =>
              callbacks[s][i].writer \in promises[s]
    /\ \A s \in Session : \A t \in promises[s] :
          pc[t] = "await" /\ sid[t] = s /\ t \notin ready
    /\ \A t \in ready : pc[t] = "await"

\* What each stage of the destructor has already undone.
LifeInv ==
    \A s \in Session :
        /\ object[s] \in {"none", "fulfil", "free", "freed"} =>
              callbacks[s] = << >>
        /\ object[s] \in {"none", "free", "freed"} => promises[s] = {}
        /\ object[s] \in {"none", "freed"} => ntf[s] = "off"

\* What the notification thread holds while it runs callbacks.
NtfInv ==
    \A s \in Session :
        /\ ntf[s] = "calling" => at[s] <= Len(callbacks[s]) + 1
        /\ ntf[s] = "rpc" => object[s] = "open" /\ at[s] <= Len(callbacks[s])
        /\ ntf[s] = "dtor" => object[s] = "erase"

Inv == TableInv /\ ReferenceInv /\ PromiseInv /\ LifeInv /\ NtfInv
=============================================================================
