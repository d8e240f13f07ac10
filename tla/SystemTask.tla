----------------------------- MODULE SystemTask -----------------------------
(***************************************************************************)
(* Mplane::SystemTask: runCmd hands a shell command to the task's thread   *)
(* through one conditional, the thread forks and reaps it and answers      *)
(* through another, and the caller, polling that one, counts the seconds   *)
(* and kills the command when its time is up.                              *)
(*                                                                         *)
(* Commands are named by their callers; so are child processes' pids.      *)
(* Progress reports and the empty command, which change no state, are left *)
(* out.  The 32-bit timer, which wraps after it has fired, fires once.     *)
(***************************************************************************)
CONSTANTS
  Caller,
  Zero,    \* pid 0, and the exit status 0 a call starts from
  Minus1   \* fork's and waitpid's error

ASSUME CallerAssumption == Zero \notin Caller /\ Minus1 \notin Caller /\ Zero # Minus1

VARIABLES
  mutex,      \* mMutex: its holder or Zero
  call,       \* per caller: where it is in runCmd
  timer,      \* the running call's time-out: off, armed or fired (timedOut)
  result,     \* what runCmd last returned to the caller
  executing,  \* mExecuting
  cmd,        \* mCmd
  status,     \* mCmdStatus: the command whose exit status it holds
  childPid,   \* mChildPid
  child,      \* the child process: none, running, dead and not reaped, or left:
              \* running with nobody waiting for it
  task,       \* where the task's thread is
  taskRunning,\* mTaskRunning
  startFlag, startWaiter, \* mCondStart, the thread waits
  endFlag, endWaiter      \* mCondEnd, the caller waits

caller == <<mutex, call, timer, result>>
shared == <<executing, cmd>>
proc   == <<childPid, child>>
starts == <<startFlag, startWaiter>>
ends   == <<endFlag, endWaiter>>
vars   == <<caller, shared, status, proc, task, taskRunning, starts, ends>>

mCondStart == INSTANCE TimedConditional WITH flag <- startFlag, waiter <- startWaiter
mCondEnd   == INSTANCE TimedConditional WITH flag <- endFlag, waiter <- endWaiter

Pid == Caller \union {Zero, Minus1}

Init ==
  /\ mutex = Zero
  /\ call = [c \in Caller |-> "idle"]
  /\ timer = "off"
  /\ result = [c \in Caller |-> "none"]
  /\ executing = FALSE
  /\ cmd = Zero
  /\ status = Zero
  /\ childPid = Zero
  /\ child = "none"
  /\ task = "wait"
  /\ taskRunning = TRUE
  /\ mCondStart!Initial /\ mCondEnd!Initial
-----------------------------------------------------------------------------
(* runCmd *)

Goes(c, pc) == call' = [call EXCEPT ![c] = pc]
Returns(c, r) ==
  Goes(c, "idle") /\ result' = [result EXCEPT ![c] = r]

(* Faulty: the other error's exit code. *)
RefuseAsInvalid(c) ==
  /\ call[c] = "idle" /\ mutex = Zero /\ taskRunning
  /\ executing
  /\ Returns(c, "INVALID_ARG")
  /\ UNCHANGED <<mutex, timer, shared, status, proc, task, taskRunning, starts,
                 ends>>

Refuse(c) ==
  /\ call[c] = "idle" /\ mutex = Zero /\ taskRunning
  /\ executing
  /\ Returns(c, "ALREADY_RUNNING")
  /\ UNCHANGED <<mutex, timer, shared, status, proc, task, taskRunning, starts,
                 ends>>

Accept(c) ==
  /\ call[c] = "idle" /\ mutex = Zero /\ taskRunning
  /\ ~executing
  /\ mutex' = c
  /\ Goes(c, "start")
  /\ timer' \in {"off", "armed"}
  /\ executing' = TRUE
  /\ cmd' = c
  /\ status' = Zero
  /\ childPid' = Zero
  /\ UNCHANGED <<result, child, task, taskRunning, starts, ends>>

Initiate(c) ==
  /\ call[c] = "start"
  /\ mCondStart!Signal
  /\ Goes(c, "wait")
  /\ UNCHANGED <<mutex, timer, result, shared, status, proc, task, taskRunning,
                 ends>>

WaitEnd(c) ==
  /\ call[c] = "wait"
  /\ \/ (mCondEnd!Block \/ mCondEnd!Expire) /\ UNCHANGED call
     \/ (mCondEnd!Pass \/ mCondEnd!Wake) /\ Goes(c, "finish")
     \/ mCondEnd!GiveUp /\ Goes(c, IF timer = "armed" THEN "tick" ELSE "wait")
  /\ UNCHANGED <<mutex, timer, result, shared, status, proc, task, taskRunning,
                 starts>>

Tick(c) ==
  /\ call[c] = "tick"
  /\ Goes(c, "wait")
  /\ UNCHANGED <<mutex, timer, result, shared, status, proc, task, taskRunning,
                 starts, ends>>

(* What SIGKILL leaves of the process: if it is reaped already the signal  *)
(* goes to nobody, or to whoever has its pid now.                          *)
Killed == CASE child = "running" -> "dead" [] child = "left" -> "none" [] OTHER -> child

(* Faulty: the caller does not wait for the command it has killed. *)
KillAndLeave(c) ==
  /\ call[c] = "tick" /\ childPid \in Caller
  /\ timer' = "fired"
  /\ child' = Killed
  /\ Goes(c, "finish")
  /\ UNCHANGED <<mutex, result, shared, status, childPid, task, taskRunning,
                 starts, ends>>

Kill(c) ==
  /\ call[c] = "tick" /\ childPid \in Caller
  /\ timer' = "fired"
  /\ child' = Killed
  /\ Goes(c, "wait")
  /\ UNCHANGED <<mutex, result, shared, status, childPid, task, taskRunning,
                 starts, ends>>

(* With no child, mChildPid is 0 or fork's -1: SIGKILL goes to the process *)
(* group of the server, or to everybody, and that is the end of it.        *)
KillServer(c) ==
  /\ call[c] = "tick" /\ childPid \notin Caller
  /\ timer' = "fired"
  /\ child' = "none"
  /\ Goes(c, "killed") /\ task' = "killed"
  /\ UNCHANGED <<mutex, result, shared, status, childPid, taskRunning, starts, ends>>

Finish(c) ==
  /\ call[c] = "finish"
  /\ childPid' = Zero
  /\ Returns(c, IF timer = "fired" THEN "TIMEOUT" ELSE status)
  /\ mutex' = Zero
  /\ UNCHANGED <<timer, shared, status, child, task, taskRunning, starts, ends>>
-----------------------------------------------------------------------------
(* The thread: run and simpleSystem. *)

WaitStart ==
  /\ task = "wait" /\ (taskRunning \/ startWaiter # "away")
  /\ \/ (mCondStart!Block \/ mCondStart!Expire \/ mCondStart!GiveUp)
        /\ UNCHANGED task
     \/ (mCondStart!Pass \/ mCondStart!Wake) /\ task' = "fork"
  /\ UNCHANGED <<caller, shared, status, proc, taskRunning, ends>>

Fork ==
  /\ task = "fork"
  /\ \/ childPid' = cmd /\ child' = "running" /\ task' = "child"
        /\ UNCHANGED status
     \/ childPid' = Minus1 /\ status' = Minus1 /\ task' = "end"
        /\ UNCHANGED child
  /\ UNCHANGED <<caller, shared, taskRunning, starts, ends>>

ChildEnds ==
  /\ child \in {"running", "left"}
  /\ child' = Killed
  /\ UNCHANGED <<caller, shared, status, childPid, task, taskRunning, starts,
                 ends>>

(* Faulty: the status is forgotten. *)
SilentReap ==
  /\ task = "child" /\ child = "dead"
  /\ child' = "none"
  /\ task' = "end"
  /\ UNCHANGED <<caller, shared, status, childPid, taskRunning, starts, ends>>

Reap ==
  /\ task = "child" /\ child = "dead"
  /\ child' = "none"
  /\ status' = childPid
  /\ task' = "end"
  /\ UNCHANGED <<caller, shared, childPid, taskRunning, starts, ends>>

(* waitpid returns -1: a signal (main's handler of SIGINT) interrupted it. *)
(* The command runs on.                                                    *)
WaitpidFails ==
  /\ task = "child" /\ child = "running"
  /\ child' = "left"
  /\ status' = Minus1
  /\ task' = "end"
  /\ UNCHANGED <<caller, shared, childPid, taskRunning, starts, ends>>

SignalEnd ==
  /\ task = "end"
  /\ mCondEnd!Signal
  /\ task' = "idle"
  /\ UNCHANGED <<caller, shared, status, proc, taskRunning, starts>>

BackToIdle ==
  /\ task = "idle"
  /\ executing' = FALSE
  /\ task' = "wait"
  /\ UNCHANGED <<caller, cmd, status, proc, taskRunning, starts, ends>>

EndTask ==
  /\ task = "wait" /\ ~taskRunning /\ startWaiter = "away"
  /\ task' = "ended"
  /\ UNCHANGED <<caller, shared, status, proc, taskRunning, starts, ends>>

(* ~SystemTask, once nobody is in a call. *)
Destroy ==
  /\ mutex = Zero /\ taskRunning
  /\ taskRunning' = FALSE
  /\ child' = IF childPid \in Caller THEN Killed ELSE child
  /\ UNCHANGED <<caller, shared, status, childPid, task, starts, ends>>

RunCmd(c) == \/ Refuse(c) \/ Accept(c) \/ Initiate(c) \/ WaitEnd(c)
             \/ Tick(c) \/ Kill(c) \/ KillServer(c) \/ Finish(c)
Run == \/ WaitStart \/ Fork \/ Reap \/ WaitpidFails \/ SignalEnd \/ BackToIdle
       \/ EndTask

Next == (\E c \in Caller : RunCmd(c)) \/ Run \/ ChildEnds \/ Destroy

(* A call that was begun goes on, the thread is scheduled, commands end.   *)
InCall(c) == Initiate(c) \/ WaitEnd(c) \/ Tick(c) \/ Finish(c)
Fairness ==
  /\ WF_vars(Run) /\ WF_vars(ChildEnds)
  /\ \A c \in Caller : WF_vars(InCall(c))

Spec == Init /\ [][Next]_vars
FairSpec == Spec /\ Fairness
-----------------------------------------------------------------------------
Inside == {"start", "wait", "tick", "finish"}

TypeOK ==
  /\ mutex \in Caller \union {Zero}
  /\ call \in [Caller -> Inside \union {"idle", "killed"}]
  /\ timer \in {"off", "armed", "fired"}
  /\ result \in [Caller -> {"none", "ALREADY_RUNNING", "TIMEOUT"} \union Pid]
  /\ executing \in BOOLEAN
  /\ cmd \in Caller \union {Zero}
  /\ status \in Pid
  /\ childPid \in Pid
  /\ child \in {"none", "running", "dead", "left"}
  /\ task \in {"wait", "fork", "child", "end", "idle", "ended", "killed"}
  /\ taskRunning \in BOOLEAN
  /\ mCondStart!Type /\ mCondEnd!Type

(* A returning call has the exit status of its own command, or an error:   *)
(* never the 0 it started from, nor the status of an earlier command whose *)
(* end was signalled late (runCmd returns mCmdStatus).                     *)
OwnResult ==
  \A c \in Caller : call[c] = "finish" => status \in {c, Minus1}

(* As long as the thread waits for a command's process the caller is       *)
(* inside runCmd, so no second command can be accepted and nothing that    *)
(* was killed or has ended outlives its call unreaped.  Only a process     *)
(* whose waitpid failed is left running, and then its call does not return *)
(* a status.  (A process left behind is followed up to the next fork.)     *)
CommandWithinCall ==
  /\ child \in {"running", "dead"} => executing /\ cmd = mutex /\ childPid = cmd
  /\ child = "left" => \A c \in Caller : call[c] = "finish" => status = Minus1

(* SystemTask.cpp: "Get state and run if idle": a command is refused only  *)
(* while another one is running.                                           *)
RefusedOnlyWhenBusy ==
  [][\A c \in Caller :
       result'[c] = "ALREADY_RUNNING" => child \notin {"none", "left"} \/ mutex # Zero]_result

(* SystemTask.cpp: the time-out is there to "kill off command": it kills   *)
(* that command's process, which then exists, and nothing else.            *)
KillsTheCommand ==
  [][timer' = "fired" => childPid = mutex /\ child # "none"]_timer

(* SystemTask.h: runCmd "Runs the command and returns the system status".  *)
CallReturns == \A c \in Caller : call[c] = "start" ~> call[c] = "idle"
-----------------------------------------------------------------------------
(* The inductive invariant: the command is in one place at a time, handed  *)
(* to the thread, worked on, or answered, and always within its call.      *)

Resting == task \in {"wait", "idle", "ended", "killed"}
WithinCall == mutex \in Caller /\ call[mutex] \in {"wait", "tick", "killed"}

Holding == \A c \in Caller : call[c] # "idle" <=> mutex = c

Handed ==
  startFlag => /\ executing /\ task \in {"wait", "ended", "killed"} /\ ~endFlag
               /\ WithinCall /\ cmd = mutex

Working ==
  /\ task \in {"fork", "child", "end"} =>
       executing /\ ~startFlag /\ ~endFlag /\ WithinCall /\ cmd = mutex
  /\ child \in {"running", "dead"} <=> task = "child"
  /\ child = "left" => status \in {Zero, Minus1}
  /\ task = "child" => childPid = cmd
  /\ task = "end" => status \in {mutex, Minus1}
  /\ task = "idle" => executing /\ ~startFlag
  /\ task = "killed" => mutex \in Caller /\ call[mutex] = "killed"

Answered ==
  endFlag => ~startFlag /\ Resting /\ WithinCall /\ status \in {mutex, Minus1}

Entering ==
  \A c \in Caller : call[c] = "start" =>
    executing /\ task \in {"wait", "ended"} /\ ~startFlag /\ ~endFlag /\ cmd = c

Leaving ==
  \A c \in Caller : call[c] = "finish" =>
    ~startFlag /\ ~endFlag /\ Resting /\ status \in {c, Minus1}

Inv ==
  TypeOK /\ Holding /\ Handed /\ Working /\ Answered /\ Entering /\ Leaving
=============================================================================
