---------------------------- MODULE SftpSessions ----------------------------
(***************************************************************************)
(* SFTP sessions: SftpMgr keeps one per user and host, counted by          *)
(* shared_ptr; callers put transfers into a session's queue; the session   *)
(* is a TaskEvent whose thread takes them one by one and calls back.       *)
(*                                                                         *)
(* One user and host.  A call of the manager is one step: it holds no      *)
(* lock, so its callers take turns.  libssh is external: every call of it  *)
(* may fail, or not return.  What it does with a session that was freed    *)
(* under it is undefined: here it fails or goes on, or no step follows.    *)
(*                                                                         *)
(* A transfer is named after its caller, which has one at a time, and data *)
(* is counted in fillings of mDataBuffer.                                  *)
(***************************************************************************)
EXTENDS Naturals, Sequences, FiniteSets

CONSTANTS
  Caller, Session, None,
  Kind,    \* the transfer that a caller asks for
  Length,  \* how many times its data fills the buffer
  DiskFull \* write() may take part of the data

Kinds   == {"fileUpload", "dataUpload", "fileDownload", "dataDownload"}
Uploads == {"fileUpload", "dataUpload"}

ASSUME TransferAssumption ==
  /\ None \notin Session /\ IsFiniteSet(Caller)
  /\ Kind \in [Caller -> Kinds] /\ Length \in [Caller -> Nat]
  /\ DiskFull \in BOOLEAN

VARIABLES
  cached,      \* the session in SftpMgr::mSessions
  held,        \* the session that a caller has a pointer to, or destroys
  pc,          \* idle, holds, mkdir, push, event, asked, destroys, stopping
  answer,      \* what the callback was told: none, ok, error
  data,        \* what had been transferred, if that was ok
  object,      \* new, alive, closing: ~SftpSession is done, gone: ~TaskEvent too
  mConnected,  \* and mSession is not freed
  mJobs,
  mEvent,      \* the flag of the conditional
  mTaskRun, mTaskRunning,
  thread,      \* none (yet, or for ever), starting, loop, wait, next, job, transfer,
               \* ending, ended
  done, job,   \* of runEvent
  moved,       \* of doUpload and doDownload: the pieces so far
  cut          \* history: the sessions that were closed under their users

callers == <<held, pc>>
answers == <<answer, data>>
queue   == <<mJobs, mEvent>>
task    == <<mTaskRun, mTaskRunning, thread, done, job, moved>>
vars    == <<cached, callers, answers, object, mConnected, queue, task, cut>>

Init ==
  /\ cached = None
  /\ held = [c \in Caller |-> None] /\ pc = [c \in Caller |-> "idle"]
  /\ answer = [c \in Caller |-> "none"] /\ data = [c \in Caller |-> <<>>]
  /\ object = [s \in Session |-> "new"]
  /\ mConnected = [s \in Session |-> FALSE]
  /\ mJobs = [s \in Session |-> <<>>] /\ mEvent = [s \in Session |-> FALSE]
  /\ mTaskRun = [s \in Session |-> TRUE] /\ mTaskRunning = [s \in Session |-> FALSE]
  /\ thread = [s \in Session |-> "none"]
  /\ done = [s \in Session |-> TRUE]
  /\ job = [s \in Session |-> None] /\ moved = [s \in Session |-> <<>>]
  /\ cut = {}
-----------------------------------------------------------------------------
(* The manager *)

Holders(s) == {c \in Caller : held[c] = s}

UseCount(s) == Cardinality(Holders(s)) + IF cached = s THEN 1 ELSE 0

Fresh == CHOOSE s \in Session : object[s] = "new"

CanCreate(c) ==
  pc[c] = "idle" /\ cached = None /\ \E s \in Session : object[s] = "new"

(* factoryCreate: the session that is there ... *)
FactoryReuse(c) ==
  /\ pc[c] = "idle" /\ cached # None
  /\ held' = [held EXCEPT ![c] = cached]
  /\ pc' = [pc EXCEPT ![c] = "holds"]
  /\ UNCHANGED <<cached, answers, object, mConnected, queue, task, cut>>

(* ... or a new one.  Its base class, TaskEvent, has started the thread,   *)
(* and does not look whether pthread_create could ...                      *)
FactoryConnect(c, s) ==
  /\ CanCreate(c) /\ s = Fresh
  /\ object' = [object EXCEPT ![s] = "alive"]
  /\ \E made \in {"starting", "none"} : thread' = [thread EXCEPT ![s] = made]
  /\ mConnected' = [mConnected EXCEPT ![s] = TRUE]
  /\ cached' = s
  /\ held' = [held EXCEPT ![c] = s]
  /\ pc' = [pc EXCEPT ![c] = "holds"]
  /\ UNCHANGED <<answers, queue, mTaskRun, mTaskRunning, done, job, moved, cut>>

(* ... or, where SFTP cannot be had over the ssh session, none: the object *)
(* is destroyed at once.                                                   *)
FactoryFails(c, s) ==
  /\ CanCreate(c) /\ s = Fresh
  /\ object' = [object EXCEPT ![s] = "closing"]
  /\ \E made \in {"starting", "none"} : thread' = [thread EXCEPT ![s] = made]
  /\ held' = [held EXCEPT ![c] = s]
  /\ pc' = [pc EXCEPT ![c] = "destroys"]
  /\ UNCHANGED <<cached, answers, mConnected, queue, mTaskRun, mTaskRunning, done, job,
                 moved, cut>>

Forgets(c) ==
  answer' = [answer EXCEPT ![c] = "none"] /\ data' = [data EXCEPT ![c] = <<>>]

(* The last pointer to s goes, in c: ~SftpSession, then ~TaskEvent. *)
Destroy(c, s) ==
  /\ object' = [object EXCEPT ![s] = "closing"]
  /\ held' = [held EXCEPT ![c] = s]
  /\ pc' = [pc EXCEPT ![c] = "destroys"]

(* Faulty: the caller's pointer is not reset. *)
LetGoNot(c) ==
  /\ pc' = [pc EXCEPT ![c] = "idle"]
  /\ UNCHANGED <<held, object>>

LetGo(c) ==
  /\ held' = [held EXCEPT ![c] = None]
  /\ pc' = [pc EXCEPT ![c] = "idle"]
  /\ UNCHANGED object

Busy(c) == pc[c] \in {"mkdir", "push", "event", "asked"}

(* A caller may leave without its answer. *)
MayLeave(c) == pc[c] \in {"holds", "asked"}

(* Faulty: disconnectSession does not count the users. *)
DisconnectUncounted(c) ==
  /\ MayLeave(c)
  /\ mConnected[held[c]] /\ cached # None
  /\ mConnected' = [mConnected EXCEPT ![cached] = FALSE]
  /\ cached' = None
  /\ IF Holders(cached) \subseteq {c} THEN Destroy(c, cached) ELSE LetGo(c)
  /\ Forgets(c)
  /\ UNCHANGED <<queue, task, cut>>

(* Faulty: the entry is left in mSessions. *)
DisconnectKeepEntry(c) ==
  /\ MayLeave(c)
  /\ mConnected[held[c]] /\ cached # None
  /\ UseCount(held[c]) <= 2
  /\ mConnected' = [mConnected EXCEPT ![cached] = FALSE]
  /\ UNCHANGED cached
  /\ LetGo(c)
  /\ Forgets(c)
  /\ UNCHANGED <<queue, task, cut>>

(* disconnectSession: with more users than the cache and the caller it     *)
(* does nothing.  Of a session that was closed already, user()             *)
(* dereferences null.                                                      *)
DisconnectSession(c) ==
  /\ MayLeave(c)
  /\ mConnected[held[c]] /\ cached # None
  /\ UseCount(held[c]) <= 2
  /\ mConnected' = [mConnected EXCEPT ![cached] = FALSE]
  /\ cached' = None
  /\ IF Holders(cached) \subseteq {c} THEN Destroy(c, cached) ELSE LetGo(c)
  /\ Forgets(c)
  /\ UNCHANGED <<queue, task, cut>>

(* disconnectAll asks for no counts. *)
DisconnectAll(c) ==
  /\ pc[c] = "idle" /\ cached # None
  /\ mConnected' = [mConnected EXCEPT ![cached] = FALSE]
  /\ cached' = None
  /\ cut' = cut \union {cached}
  /\ IF Holders(cached) = {} THEN Destroy(c, cached) ELSE UNCHANGED <<object, callers>>
  /\ UNCHANGED <<answers, queue, task>>

(* SftpSession::disconnect, which a caller may use itself: the entry stays *)
(* in mSessions.                                                           *)
DisconnectItself(c) ==
  /\ MayLeave(c)
  /\ mConnected' = [mConnected EXCEPT ![held[c]] = FALSE]
  /\ cut' = cut \union {held[c]}
  /\ UNCHANGED <<cached, callers, answers, object, queue, task>>

(* The caller's own pointer goes out of scope. *)
Drop(c) ==
  /\ MayLeave(c)
  /\ IF UseCount(held[c]) = 1
       THEN Destroy(c, held[c]) /\ mConnected' = [mConnected EXCEPT ![held[c]] = FALSE]
       ELSE LetGo(c) /\ UNCHANGED mConnected
  /\ Forgets(c)
  /\ UNCHANGED <<cached, queue, task, cut>>

(* ~TaskEvent is done, and the memory is freed. *)
Freed(c) ==
  /\ object' = [object EXCEPT ![held[c]] = "gone"]
  /\ mJobs' = [mJobs EXCEPT ![held[c]] = <<>>]
  /\ cut' = cut \ {held[c]}
  /\ held' = [held EXCEPT ![c] = None]
  /\ pc' = [pc EXCEPT ![c] = "idle"]

(* Faulty: the run flag is not cleared. *)
ShutdownForgets(c) ==
  /\ pc[c] = "destroys"
  /\ IF mTaskRunning[held[c]]
       THEN /\ pc' = [pc EXCEPT ![c] = "stopping"]
            /\ UNCHANGED <<held, object, mJobs, cut>>
       ELSE Freed(c)
  /\ UNCHANGED <<cached, answers, mConnected, mEvent, task>>

(* TaskEvent::shutdown, called by ~TaskEvent: a task that does not run yet *)
(* is not waited for.                                                      *)
ShutdownBegins(c) ==
  /\ pc[c] = "destroys"
  /\ IF mTaskRunning[held[c]]
       THEN /\ mTaskRun' = [mTaskRun EXCEPT ![held[c]] = FALSE]
            /\ pc' = [pc EXCEPT ![c] = "stopping"]
            /\ UNCHANGED <<held, object, mJobs, cut>>
       ELSE Freed(c) /\ UNCHANGED mTaskRun
  /\ UNCHANGED <<cached, answers, mConnected, mEvent, mTaskRunning, thread, done, job,
                 moved>>

ShutdownTries(c) ==
  /\ pc[c] = "stopping" /\ mTaskRunning[held[c]]
  /\ mEvent' = [mEvent EXCEPT ![held[c]] = TRUE]
  /\ UNCHANGED <<cached, callers, answers, object, mConnected, mJobs, task, cut>>

ShutdownEnds(c) ==
  /\ pc[c] = "stopping" /\ ~mTaskRunning[held[c]]
  /\ mEvent' = [mEvent EXCEPT ![held[c]] = FALSE]
  /\ Freed(c)
  /\ UNCHANGED <<cached, answers, mConnected, task>>
-----------------------------------------------------------------------------
(* fileUpload, fileDownload, dataUpload, dataDownload *)

(* The bound on what a caller asks for: it has a job under way. *)
UnderWay(c) ==
  \E s \in Session :
    \/ \E i \in 1 .. Len(mJobs[s]) : mJobs[s][i][2] = c
    \/ thread[s] \in {"job", "transfer"} /\ job[s][2] = c

(* Refused without a connection; a bad path or no local file: the same.    *)
Ask(c) ==
  /\ pc[c] = "holds" /\ mConnected[held[c]] /\ ~UnderWay(c)
  /\ pc' = [pc EXCEPT ![c] = IF Kind[c] \in Uploads THEN "mkdir" ELSE "push"]
  /\ UNCHANGED <<cached, held, answers, object, mConnected, queue, task, cut>>

(* addMkdir *)
Mkdir(c) ==
  /\ pc[c] = "mkdir"
  /\ mJobs' = [mJobs EXCEPT ![held[c]] = Append(@, <<"mkdir", c>>)]
  /\ pc' = [pc EXCEPT ![c] = "push"]
  /\ UNCHANGED <<cached, held, answers, object, mConnected, mEvent, task, cut>>

Push(c) ==
  /\ pc[c] = "push"
  /\ mJobs' = [mJobs EXCEPT ![held[c]] = Append(@, <<"transfer", c>>)]
  /\ pc' = [pc EXCEPT ![c] = "event"]
  /\ UNCHANGED <<cached, held, answers, object, mConnected, mEvent, task, cut>>

Event(c) ==
  /\ pc[c] = "event"
  /\ mEvent' = [mEvent EXCEPT ![held[c]] = TRUE]
  /\ pc' = [pc EXCEPT ![c] = "asked"]
  /\ UNCHANGED <<cached, held, answers, object, mConnected, mJobs, task, cut>>

(* The caller has had its callback. *)
Answered(c) ==
  /\ pc[c] = "asked" /\ answer[c] # "none"
  /\ answer' = [answer EXCEPT ![c] = "none"]
  /\ data' = [data EXCEPT ![c] = <<>>]
  /\ pc' = [pc EXCEPT ![c] = "holds"]
  /\ UNCHANGED <<cached, held, object, mConnected, queue, task, cut>>
-----------------------------------------------------------------------------
(* The thread: TaskEvent::run and SftpSession::runEvent *)

Goes(s, place) == thread' = [thread EXCEPT ![s] = place]

Idle == UNCHANGED <<cached, callers, object, mConnected, cut>>

ThreadStarts(s) ==
  /\ thread[s] = "starting"
  /\ mTaskRunning' = [mTaskRunning EXCEPT ![s] = TRUE]
  /\ Goes(s, "loop")
  /\ UNCHANGED <<answers, queue, mTaskRun, done, job, moved>> /\ Idle

Loop(s) ==
  /\ thread[s] = "loop"
  /\ Goes(s, IF mTaskRun[s] THEN "wait" ELSE "ending")
  /\ UNCHANGED <<answers, queue, mTaskRun, mTaskRunning, done, job, moved>> /\ Idle

(* mEvent.wait(), and runEvent begins. *)
Wait(s) ==
  /\ thread[s] = "wait" /\ mEvent[s]
  /\ mEvent' = [mEvent EXCEPT ![s] = FALSE]
  /\ Goes(s, IF mTaskRun[s] THEN "next" ELSE "ending")
  /\ UNCHANGED <<answers, mJobs, mTaskRun, mTaskRunning, done, job, moved>> /\ Idle

NoJob(s) ==
  /\ thread[s] = "next" /\ mJobs[s] = <<>>
  /\ done' = [done EXCEPT ![s] = TRUE]
  /\ Goes(s, "loop")
  /\ UNCHANGED <<answers, queue, mTaskRun, mTaskRunning, job, moved>> /\ Idle

(* Faulty: one job for each event. *)
TakeOne(s) ==
  /\ thread[s] = "next" /\ mJobs[s] # <<>>
  /\ job' = [job EXCEPT ![s] = Head(mJobs[s])]
  /\ mJobs' = [mJobs EXCEPT ![s] = Tail(@)]
  /\ Goes(s, "job")
  /\ UNCHANGED <<answers, mEvent, mTaskRun, mTaskRunning, done, moved>> /\ Idle

(* done stays false once there was more to do: the loop then ends only at  *)
(* an empty queue.                                                         *)
Take(s) ==
  /\ thread[s] = "next" /\ mJobs[s] # <<>>
  /\ job' = [job EXCEPT ![s] = Head(mJobs[s])]
  /\ mJobs' = [mJobs EXCEPT ![s] = Tail(@)]
  /\ done' = [done EXCEPT ![s] = @ /\ Len(mJobs[s]) = 1]
  /\ Goes(s, "job")
  /\ UNCHANGED <<answers, mEvent, mTaskRun, mTaskRunning, moved>> /\ Idle

JobEnds(s) ==
  /\ Goes(s, IF done[s] THEN "loop" ELSE "next")
  /\ job' = [job EXCEPT ![s] = None]
  /\ moved' = [moved EXCEPT ![s] = <<>>]
  /\ UNCHANGED <<queue, mTaskRun, mTaskRunning, done>> /\ Idle

(* handleMkdir: its error goes nowhere. *)
HandleMkdir(s) ==
  /\ thread[s] = "job" /\ job[s][1] = "mkdir"
  /\ JobEnds(s)
  /\ UNCHANGED answers

Open(s) ==
  /\ thread[s] = "job" /\ job[s][1] = "transfer"
  /\ Goes(s, "transfer")
  /\ UNCHANGED <<answers, queue, mTaskRun, mTaskRunning, done, job, moved>> /\ Idle

(* Of a callback whose caller has left, nothing is kept. *)
CallBack(s, result) ==
  IF pc[job[s][2]] \in {"event", "asked"}
    THEN /\ answer' = [answer EXCEPT ![job[s][2]] = result]
         /\ data' = [data EXCEPT ![job[s][2]] = IF result = "ok" THEN moved[s] ELSE <<>>]
    ELSE UNCHANGED answers

OpenFails(s) ==
  /\ thread[s] = "job" /\ job[s][1] = "transfer"
  /\ CallBack(s, "error")
  /\ JobEnds(s)

(* getData or putData of the next piece.  handleDataUpload's takes the     *)
(* first piece every time; a short write of a file is not noticed.         *)
Piece(s) ==
  IF Kind[job[s][2]] = "dataUpload" THEN {1}
  ELSE {Len(moved[s]) + 1} \union
       (IF DiskFull /\ Kind[job[s][2]] = "fileDownload" THEN {0} ELSE {})

Transfer(s) ==
  /\ thread[s] = "transfer" /\ Len(moved[s]) < Length[job[s][2]]
  /\ \E piece \in Piece(s) : moved' = [moved EXCEPT ![s] = Append(@, piece)]
  /\ UNCHANGED <<answers, queue, mTaskRun, mTaskRunning, thread, done, job>> /\ Idle

TransferEnds(s) ==
  /\ thread[s] = "transfer" /\ Len(moved[s]) = Length[job[s][2]]
  /\ CallBack(s, "ok")
  /\ JobEnds(s)

(* A failed read or write, or the time-out. *)
TransferFails(s) ==
  /\ thread[s] = "transfer"
  /\ CallBack(s, "error")
  /\ JobEnds(s)

RunEnds(s) ==
  /\ thread[s] = "ending"
  /\ mTaskRunning' = [mTaskRunning EXCEPT ![s] = FALSE]
  /\ Goes(s, "ended")
  /\ UNCHANGED <<answers, queue, mTaskRun, done, job, moved>> /\ Idle
-----------------------------------------------------------------------------
Calling(c) ==
  \/ Mkdir(c) \/ Push(c) \/ Event(c)
  \/ ShutdownBegins(c) \/ ShutdownTries(c) \/ ShutdownEnds(c)

(* The thread's own steps, and those that take calls of libssh. *)
Threads(s) ==
  \/ ThreadStarts(s) \/ Loop(s) \/ Wait(s) \/ NoJob(s) \/ Take(s) \/ RunEnds(s)

Works(s) ==
  \/ HandleMkdir(s) \/ Open(s) \/ OpenFails(s)
  \/ Transfer(s) \/ TransferEnds(s) \/ TransferFails(s)

Next ==
  \/ \E c \in Caller :
       \/ FactoryReuse(c) \/ DisconnectSession(c) \/ DisconnectAll(c)
       \/ DisconnectItself(c) \/ Drop(c)
       \/ Ask(c) \/ Answered(c) \/ Calling(c)
       \/ \E s \in Session : FactoryConnect(c, s) \/ FactoryFails(c, s)
  \/ \E s \in Session : Threads(s) \/ Works(s)

Spec == Init /\ [][Next]_vars

(* A call goes on, and so does a thread outside libssh.  There is no       *)
(* time-out on libssh's calls: SshSession sets none, and the job's timer   *)
(* is read between them.                                                   *)
FairSpec ==
  Spec /\ (\A c \in Caller : WF_vars(Calling(c))) /\ (\A s \in Session : WF_vars(Threads(s)))
-----------------------------------------------------------------------------
Jobs == {"mkdir", "transfer"} \X Caller

TypeOK ==
  /\ cached \in Session \union {None}
  /\ held \in [Caller -> Session \union {None}]
  /\ pc \in [Caller -> {"idle", "holds", "mkdir", "push", "event", "asked", "destroys",
                        "stopping"}]
  /\ answer \in [Caller -> {"none", "ok", "error"}]
  /\ data \in [Caller -> Seq(Nat)]
  /\ object \in [Session -> {"new", "alive", "closing", "gone"}]
  /\ mConnected \in [Session -> BOOLEAN]
  /\ mJobs \in [Session -> Seq(Jobs)]
  /\ mEvent \in [Session -> BOOLEAN]
  /\ mTaskRun \in [Session -> BOOLEAN] /\ mTaskRunning \in [Session -> BOOLEAN]
  /\ thread \in [Session -> {"none", "starting", "loop", "wait", "next", "job", "transfer",
                             "ending", "ended"}]
  /\ done \in [Session -> BOOLEAN]
  /\ job \in [Session -> Jobs \union {None}]
  /\ moved \in [Session -> Seq(Nat)]
  /\ cut \subseteq Session
  /\ \A c \in Caller : pc[c] # "idle" <=> held[c] # None

(* A session is not closed or destroyed under a caller that still has its  *)
(* pointer, whoever else shares the session and leaves: only disconnectAll *)
(* and a holder's own disconnect() do that.  So nothing else takes the     *)
(* session from a running job whose caller waits.                          *)
SessionAlive ==
  \A c \in Caller :
    pc[c] = "holds" \/ Busy(c) =>
      object[held[c]] = "alive" /\ (mConnected[held[c]] \/ held[c] \in cut)

(* What factoryCreate finds in mSessions is alive, and connected unless a  *)
(* holder has closed it itself; and no session is connected that it does   *)
(* not find.                                                               *)
CacheIsLive ==
  \A s \in Session :
    /\ mConnected[s] => s = cached
    /\ s = cached => object[s] = "alive" /\ (mConnected[s] \/ s \in cut)

(* libssh's calls come back. *)
LibraryReturns == \A s \in Session : []<>(thread[s] \notin {"job", "transfer"})

(* A transfer that was accepted is answered, if the session has a thread,  *)
(* its caller stays and libssh's calls return: neither its job nor the     *)
(* event that goes with it is lost among others' jobs.                     *)
EveryJobAnswered ==
  LibraryReturns =>
    \A c \in Caller :
      pc[c] = "push" ~>
        \/ answer[c] # "none" \/ pc[c] \notin {"push", "event", "asked"}
        \/ thread[held[c]] = "none"

(* The last holder of a session gets through its destructor, wherever the  *)
(* thread is at the time, if libssh's calls return.                        *)
DestructionEnds ==
  LibraryReturns => \A c \in Caller : pc[c] = "destroys" ~> pc[c] = "idle"

(* Stated, and refuted: a callback without an error means that all of the  *)
(* data went over, in order.  handleDataUpload sends the first piece again *)
(* and again; a short write to a full disk counts as a whole one.          *)
OkIsWhole ==
  \A c \in Caller : answer[c] = "ok" => data[c] = [i \in 1 .. Length[c] |-> i]

(* Stated, and refuted: a job has its SFTP session.  A use count of two is *)
(* no sign that the caller's own job has ended, and disconnectAll asks     *)
(* nobody.                                                                 *)
JobHasSession ==
  \A s \in Session : thread[s] \in {"job", "transfer"} => mConnected[s] /\ object[s] = "alive"

(* Stated, and refuted: the thread takes mMutex only of a living object.   *)
(* After the last callback, done may still be false.                       *)
QueueAlive ==
  \A s \in Session : thread[s] = "next" => object[s] = "alive"

(* Stated, and refuted: no thread outlives its object.  One that has not   *)
(* begun to run is not waited for.                                         *)
ObjectOutlivesThread ==
  \A s \in Session : object[s] = "gone" => thread[s] = "ended"
=============================================================================
