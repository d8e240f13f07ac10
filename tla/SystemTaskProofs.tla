-------------------------- MODULE SystemTaskProofs --------------------------
(***************************************************************************)
(* Proofs about SystemTask, for any number of callers: wherever caller and *)
(* thread are cut, the command is in one place and inside its own call, so *)
(* a call that returns brings its own command's status.                    *)
(***************************************************************************)
EXTENDS SystemTask, TLAPS

USE CallerAssumption
    DEF Inside, Pid, Resting, WithinCall, caller, shared, proc, starts, ends,
        Goes, Returns, Killed,
        mCondStart!Type, mCondStart!Initial, mCondStart!Signal,
        mCondStart!Pass, mCondStart!Block, mCondStart!Wake,
        mCondStart!Expire, mCondStart!GiveUp,
        mCondEnd!Type, mCondEnd!Initial, mCondEnd!Signal,
        mCondEnd!Pass, mCondEnd!Block, mCondEnd!Wake,
        mCondEnd!Expire, mCondEnd!GiveUp

(* A refused call leaves the command where it is.                          *)
LEMMA RefuseKeeps ==
  ASSUME Inv, NEW c \in Caller, Refuse(c)
  PROVE  Inv'
<1>1. TypeOK'
  BY DEF Inv, TypeOK, Refuse
<1>2. Holding'
  BY DEF Inv, TypeOK, Holding, Refuse
<1>3. Handed'
  BY DEF Inv, TypeOK, Holding, Handed, Working, Answered, Entering, Leaving, Refuse
<1>4. Working'
  BY DEF Inv, TypeOK, Holding, Handed, Working, Answered, Entering, Refuse
<1>5. Answered'
  BY DEF Inv, TypeOK, Holding, Handed, Working, Answered, Entering, Refuse
<1>6. Entering'
  BY DEF Inv, TypeOK, Holding, Handed, Working, Answered, Entering, Refuse
<1>7. Leaving'
  BY DEF Inv, TypeOK, Holding, Handed, Working, Answered, Leaving, Refuse
<1>8. QED BY <1>1, <1>2, <1>3, <1>4, <1>5, <1>6, <1>7 DEF Inv

(* Only with the thread at rest and nothing handed over is a call accepted. *)
LEMMA AcceptKeeps ==
  ASSUME Inv, NEW c \in Caller, Accept(c)
  PROVE  Inv'
<1>1. TypeOK'
  BY DEF Inv, TypeOK, Accept
<1>2. Holding'
  BY DEF Inv, TypeOK, Holding, Accept
<1>3. Handed'
  BY DEF Inv, TypeOK, Holding, Handed, Working, Answered, Entering, Leaving, Accept
<1>4. Working'
  BY DEF Inv, TypeOK, Holding, Handed, Working, Answered, Entering, Accept
<1>5. Answered'
  BY DEF Inv, TypeOK, Holding, Handed, Working, Answered, Entering, Accept
<1>6. Entering'
  BY DEF Inv, TypeOK, Holding, Handed, Working, Answered, Entering, Accept
<1>7. Leaving'
  BY DEF Inv, TypeOK, Holding, Handed, Working, Answered, Leaving, Accept
<1>8. QED BY <1>1, <1>2, <1>3, <1>4, <1>5, <1>6, <1>7 DEF Inv

(* The command is handed to the resting thread.                            *)
LEMMA InitiateKeeps ==
  ASSUME Inv, NEW c \in Caller, Initiate(c)
  PROVE  Inv'
<1>1. TypeOK'
  BY DEF Inv, TypeOK, Initiate
<1>2. Holding'
  BY DEF Inv, TypeOK, Holding, Initiate
<1>3. Handed'
  BY DEF Inv, TypeOK, Holding, Handed, Working, Answered, Entering, Leaving, Initiate
<1>4. Working'
  BY DEF Inv, TypeOK, Holding, Handed, Working, Answered, Entering, Initiate
<1>5. Answered'
  BY DEF Inv, TypeOK, Holding, Handed, Working, Answered, Entering, Initiate
<1>6. Entering'
  BY DEF Inv, TypeOK, Holding, Handed, Working, Answered, Entering, Initiate
<1>7. Leaving'
  BY DEF Inv, TypeOK, Holding, Handed, Working, Answered, Leaving, Initiate
<1>8. QED BY <1>1, <1>2, <1>3, <1>4, <1>5, <1>6, <1>7 DEF Inv

(* A wait ends with the answer, or without it.                             *)
LEMMA WaitEndKeeps ==
  ASSUME Inv, NEW c \in Caller, WaitEnd(c)
  PROVE  Inv'
<1>1. TypeOK'
  <2>1. endFlag' \in BOOLEAN /\ endWaiter' \in {"away", "blocked", "expired"}
    BY DEF Inv, TypeOK, WaitEnd
  <2>2. call' \in [Caller -> Inside \union {"idle", "killed"}]
    BY DEF Inv, TypeOK, WaitEnd
  <2>3. UNCHANGED <<mutex, timer, result, shared, status, proc, task,
                    taskRunning, starts>>
    BY DEF WaitEnd
  <2>4. QED BY <2>1, <2>2, <2>3 DEF Inv, TypeOK
<1>2. Holding'
  BY DEF Inv, TypeOK, Holding, WaitEnd
<1>3. Handed'
  BY DEF Inv, TypeOK, Holding, Handed, Working, Answered, Entering, Leaving, WaitEnd
<1>4. Working'
  BY DEF Inv, TypeOK, Holding, Handed, Working, Answered, Entering, WaitEnd
<1>5. Answered'
  BY DEF Inv, TypeOK, Holding, Handed, Working, Answered, Entering, WaitEnd
<1>6. Entering'
  BY DEF Inv, TypeOK, Holding, Handed, Working, Answered, Entering, WaitEnd
<1>7. Leaving'
  BY DEF Inv, TypeOK, Holding, Handed, Working, Answered, Leaving, WaitEnd
<1>8. QED BY <1>1, <1>2, <1>3, <1>4, <1>5, <1>6, <1>7 DEF Inv

(* A second that is not the last.                                          *)
LEMMA TickKeeps ==
  ASSUME Inv, NEW c \in Caller, Tick(c)
  PROVE  Inv'
<1>1. TypeOK'
  BY DEF Inv, TypeOK, Tick
<1>2. Holding'
  BY DEF Inv, TypeOK, Holding, Tick
<1>3. Handed'
  BY DEF Inv, TypeOK, Holding, Handed, Working, Answered, Entering, Leaving, Tick
<1>4. Working'
  BY DEF Inv, TypeOK, Holding, Handed, Working, Answered, Entering, Tick
<1>5. Answered'
  BY DEF Inv, TypeOK, Holding, Handed, Working, Answered, Entering, Tick
<1>6. Entering'
  BY DEF Inv, TypeOK, Holding, Handed, Working, Answered, Entering, Tick
<1>7. Leaving'
  BY DEF Inv, TypeOK, Holding, Handed, Working, Answered, Leaving, Tick
<1>8. QED BY <1>1, <1>2, <1>3, <1>4, <1>5, <1>6, <1>7 DEF Inv

(* The kill takes the process, not the command, away.                      *)
LEMMA KillKeeps ==
  ASSUME Inv, NEW c \in Caller, Kill(c)
  PROVE  Inv'
<1>1. TypeOK'
  BY DEF Inv, TypeOK, Kill
<1>2. Holding'
  BY DEF Inv, TypeOK, Holding, Kill
<1>3. Handed'
  BY DEF Inv, TypeOK, Holding, Handed, Working, Answered, Entering, Leaving, Kill
<1>4. Working'
  BY DEF Inv, TypeOK, Holding, Handed, Working, Answered, Entering, Kill
<1>5. Answered'
  BY DEF Inv, TypeOK, Holding, Handed, Working, Answered, Entering, Kill
<1>6. Entering'
  BY DEF Inv, TypeOK, Holding, Handed, Working, Answered, Entering, Kill
<1>7. Leaving'
  BY DEF Inv, TypeOK, Holding, Handed, Working, Answered, Leaving, Kill
<1>8. QED BY <1>1, <1>2, <1>3, <1>4, <1>5, <1>6, <1>7 DEF Inv

(* The kill that takes the server away leaves call and thread where nobody *)
(* goes on.                                                                *)
LEMMA KillServerKeeps ==
  ASSUME Inv, NEW c \in Caller, KillServer(c)
  PROVE  Inv'
<1>1. TypeOK'
  BY DEF Inv, TypeOK, KillServer
<1>2. Holding'
  BY DEF Inv, TypeOK, Holding, KillServer
<1>3. Handed'
  BY DEF Inv, TypeOK, Holding, Handed, Working, Answered, Entering, Leaving, KillServer
<1>4. Working'
  BY DEF Inv, TypeOK, Holding, Handed, Working, Answered, Entering, KillServer
<1>5. Answered'
  BY DEF Inv, TypeOK, Holding, Handed, Working, Answered, Entering, KillServer
<1>6. Entering'
  BY DEF Inv, TypeOK, Holding, Handed, Working, Answered, Entering, KillServer
<1>7. Leaving'
  BY DEF Inv, TypeOK, Holding, Handed, Working, Answered, Leaving, KillServer
<1>8. QED BY <1>1, <1>2, <1>3, <1>4, <1>5, <1>6, <1>7 DEF Inv

(* A finished call leaves nothing behind it.                               *)
LEMMA FinishKeeps ==
  ASSUME Inv, NEW c \in Caller, Finish(c)
  PROVE  Inv'
<1>1. TypeOK'
  BY DEF Inv, TypeOK, Finish
<1>2. Holding'
  BY DEF Inv, TypeOK, Holding, Finish
<1>3. Handed'
  BY DEF Inv, TypeOK, Holding, Handed, Working, Answered, Entering, Leaving, Finish
<1>4. Working'
  BY DEF Inv, TypeOK, Holding, Handed, Working, Answered, Entering, Finish
<1>5. Answered'
  BY DEF Inv, TypeOK, Holding, Handed, Working, Answered, Entering, Finish
<1>6. Entering'
  BY DEF Inv, TypeOK, Holding, Handed, Working, Answered, Entering, Finish
<1>7. Leaving'
  BY DEF Inv, TypeOK, Holding, Handed, Working, Answered, Leaving, Finish
<1>8. QED BY <1>1, <1>2, <1>3, <1>4, <1>5, <1>6, <1>7 DEF Inv

(* The thread takes the command or the signal is lost.                     *)
LEMMA WaitStartKeeps ==
  ASSUME Inv, WaitStart
  PROVE  Inv'
<1>1. TypeOK'
  <2>1. startFlag' \in BOOLEAN /\ startWaiter' \in {"away", "blocked", "expired"}
    BY DEF Inv, TypeOK, WaitStart
  <2>2. task' \in {"wait", "fork"}
    BY DEF Inv, TypeOK, WaitStart
  <2>3. UNCHANGED <<caller, shared, status, proc, taskRunning, ends>>
    BY DEF WaitStart
  <2>4. QED BY <2>1, <2>2, <2>3 DEF Inv, TypeOK
<1>2. Holding'
  BY DEF Inv, TypeOK, Holding, WaitStart
<1>3. Handed'
  BY DEF Inv, TypeOK, Holding, Handed, Working, Answered, Entering, Leaving, WaitStart
<1>4. Working'
  BY DEF Inv, TypeOK, Holding, Handed, Working, Answered, Entering, WaitStart
<1>5. Answered'
  BY DEF Inv, TypeOK, Holding, Handed, Working, Answered, Entering, WaitStart
<1>6. Entering'
  BY DEF Inv, TypeOK, Holding, Handed, Working, Answered, Entering, WaitStart
<1>7. Leaving'
  BY DEF Inv, TypeOK, Holding, Handed, Working, Answered, Leaving, WaitStart
<1>8. QED BY <1>1, <1>2, <1>3, <1>4, <1>5, <1>6, <1>7 DEF Inv

(* The process carries the pid of the command.                             *)
LEMMA ForkKeeps ==
  ASSUME Inv, Fork
  PROVE  Inv'
<1>1. TypeOK'
  BY DEF Inv, TypeOK, Fork
<1>2. Holding'
  BY DEF Inv, TypeOK, Holding, Fork
<1>3. Handed'
  BY DEF Inv, TypeOK, Holding, Handed, Working, Answered, Entering, Leaving, Fork
<1>4. Working'
  BY DEF Inv, TypeOK, Holding, Handed, Working, Answered, Entering, Fork
<1>5. Answered'
  BY DEF Inv, TypeOK, Holding, Handed, Working, Answered, Entering, Fork
<1>6. Entering'
  BY DEF Inv, TypeOK, Holding, Handed, Working, Answered, Entering, Fork
<1>7. Leaving'
  BY DEF Inv, TypeOK, Holding, Handed, Working, Answered, Leaving, Fork
<1>8. QED BY <1>1, <1>2, <1>3, <1>4, <1>5, <1>6, <1>7 DEF Inv

(* The status that is stored is that of the command.                       *)
LEMMA ReapKeeps ==
  ASSUME Inv, Reap
  PROVE  Inv'
<1>1. TypeOK'
  BY DEF Inv, TypeOK, Reap
<1>2. Holding'
  BY DEF Inv, TypeOK, Holding, Reap
<1>3. Handed'
  BY DEF Inv, TypeOK, Holding, Handed, Working, Answered, Entering, Leaving, Reap
<1>4. Working'
  BY DEF Inv, TypeOK, Holding, Handed, Working, Answered, Entering, Reap
<1>5. Answered'
  BY DEF Inv, TypeOK, Holding, Handed, Working, Answered, Entering, Reap
<1>6. Entering'
  BY DEF Inv, TypeOK, Holding, Handed, Working, Answered, Entering, Reap
<1>7. Leaving'
  BY DEF Inv, TypeOK, Holding, Handed, Working, Answered, Leaving, Reap
<1>8. QED BY <1>1, <1>2, <1>3, <1>4, <1>5, <1>6, <1>7 DEF Inv

(* A process the thread no longer waits for leaves an error as the status. *)
LEMMA WaitpidFailsKeeps ==
  ASSUME Inv, WaitpidFails
  PROVE  Inv'
<1>1. TypeOK'
  BY DEF Inv, TypeOK, WaitpidFails
<1>2. Holding'
  BY DEF Inv, TypeOK, Holding, WaitpidFails
<1>3. Handed'
  BY DEF Inv, TypeOK, Holding, Handed, Working, Answered, Entering, Leaving, WaitpidFails
<1>4. Working'
  BY DEF Inv, TypeOK, Holding, Handed, Working, Answered, Entering, WaitpidFails
<1>5. Answered'
  BY DEF Inv, TypeOK, Holding, Handed, Working, Answered, Entering, WaitpidFails
<1>6. Entering'
  BY DEF Inv, TypeOK, Holding, Handed, Working, Answered, Entering, WaitpidFails
<1>7. Leaving'
  BY DEF Inv, TypeOK, Holding, Handed, Working, Answered, Leaving, WaitpidFails
<1>8. QED BY <1>1, <1>2, <1>3, <1>4, <1>5, <1>6, <1>7 DEF Inv

(* The answer finds its caller still waiting.                              *)
LEMMA SignalEndKeeps ==
  ASSUME Inv, SignalEnd
  PROVE  Inv'
<1>1. TypeOK'
  BY DEF Inv, TypeOK, SignalEnd
<1>2. Holding'
  BY DEF Inv, TypeOK, Holding, SignalEnd
<1>3. Handed'
  BY DEF Inv, TypeOK, Holding, Handed, Working, Answered, Entering, Leaving, SignalEnd
<1>4. Working'
  BY DEF Inv, TypeOK, Holding, Handed, Working, Answered, Entering, SignalEnd
<1>5. Answered'
  BY DEF Inv, TypeOK, Holding, Handed, Working, Answered, Entering, SignalEnd
<1>6. Entering'
  BY DEF Inv, TypeOK, Holding, Handed, Working, Answered, Entering, SignalEnd
<1>7. Leaving'
  BY DEF Inv, TypeOK, Holding, Handed, Working, Answered, Leaving, SignalEnd
<1>8. QED BY <1>1, <1>2, <1>3, <1>4, <1>5, <1>6, <1>7 DEF Inv

(* The thread rests.                                                       *)
LEMMA BackToIdleKeeps ==
  ASSUME Inv, BackToIdle
  PROVE  Inv'
<1>1. TypeOK'
  <2>1. executing' \in BOOLEAN /\ task' = "wait"
    BY DEF BackToIdle
  <2>2. UNCHANGED <<caller, cmd, status, proc, taskRunning, starts, ends>>
    BY DEF BackToIdle
  <2>3. QED BY <2>1, <2>2 DEF Inv, TypeOK
<1>2. Holding'
  BY DEF Inv, TypeOK, Holding, BackToIdle
<1>3. Handed'
  BY DEF Inv, TypeOK, Holding, Handed, Working, Answered, Entering, Leaving, BackToIdle
<1>4. Working'
  BY DEF Inv, TypeOK, Holding, Handed, Working, Answered, Entering, BackToIdle
<1>5. Answered'
  BY DEF Inv, TypeOK, Holding, Handed, Working, Answered, Entering, BackToIdle
<1>6. Entering'
  BY DEF Inv, TypeOK, Holding, Handed, Working, Answered, Entering, BackToIdle
<1>7. Leaving'
  BY DEF Inv, TypeOK, Holding, Handed, Working, Answered, Leaving, BackToIdle
<1>8. QED BY <1>1, <1>2, <1>3, <1>4, <1>5, <1>6, <1>7 DEF Inv

(* The thread ends only at rest.                                           *)
LEMMA EndTaskKeeps ==
  ASSUME Inv, EndTask
  PROVE  Inv'
<1>1. TypeOK'
  BY DEF Inv, TypeOK, EndTask
<1>2. Holding'
  BY DEF Inv, TypeOK, Holding, EndTask
<1>3. Handed'
  BY DEF Inv, TypeOK, Holding, Handed, Working, Answered, Entering, Leaving, EndTask
<1>4. Working'
  BY DEF Inv, TypeOK, Holding, Handed, Working, Answered, Entering, EndTask
<1>5. Answered'
  BY DEF Inv, TypeOK, Holding, Handed, Working, Answered, Entering, EndTask
<1>6. Entering'
  BY DEF Inv, TypeOK, Holding, Handed, Working, Answered, Entering, EndTask
<1>7. Leaving'
  BY DEF Inv, TypeOK, Holding, Handed, Working, Answered, Leaving, EndTask
<1>8. QED BY <1>1, <1>2, <1>3, <1>4, <1>5, <1>6, <1>7 DEF Inv

(* A dying process changes nothing else, nor does the destructor, which    *)
(* finds no command.                                                       *)
LEMMA EnvironmentKeeps ==
  ASSUME Inv, ChildEnds \/ Destroy
  PROVE  Inv'
<1>1. TypeOK'
  <2>1. taskRunning' \in BOOLEAN /\ child' \in {"none", "running", "dead", "left"}
    BY DEF Inv, TypeOK, ChildEnds, Destroy
  <2>2. UNCHANGED <<caller, shared, status, childPid, task, starts, ends>>
    BY DEF ChildEnds, Destroy
  <2>3. QED BY <2>1, <2>2 DEF Inv, TypeOK
<1>2. Holding'
  BY DEF Inv, TypeOK, Holding, ChildEnds, Destroy
<1>3. Handed'
  BY DEF Inv, TypeOK, Holding, Handed, Working, Answered, Entering, Leaving, ChildEnds, Destroy
<1>4. Working'
  BY DEF Inv, TypeOK, Holding, Handed, Working, Answered, Entering, ChildEnds, Destroy
<1>5. Answered'
  BY DEF Inv, TypeOK, Holding, Handed, Working, Answered, Entering, ChildEnds, Destroy
<1>6. Entering'
  BY DEF Inv, TypeOK, Holding, Handed, Working, Answered, Entering, ChildEnds, Destroy
<1>7. Leaving'
  BY DEF Inv, TypeOK, Holding, Handed, Working, Answered, Leaving, ChildEnds, Destroy
<1>8. QED BY <1>1, <1>2, <1>3, <1>4, <1>5, <1>6, <1>7 DEF Inv

(* The invariant is inductive: it holds of a new SystemTask, and every     *)
(* step of a caller, of the thread and of the process keeps it.            *)
THEOREM InductiveInvariant == Spec => []Inv
<1>1. Init => Inv
  BY DEF Init, Inv, TypeOK, Holding, Handed, Working, Answered, Entering, Leaving
<1>2. Inv /\ [Next]_vars => Inv'
  <2> SUFFICES ASSUME Inv, [Next]_vars PROVE Inv'
    OBVIOUS
  <2>1. ASSUME NEW c \in Caller, RunCmd(c) PROVE Inv'
    BY <2>1, RefuseKeeps, AcceptKeeps, InitiateKeeps, WaitEndKeeps, TickKeeps,
       KillKeeps, KillServerKeeps, FinishKeeps DEF RunCmd
  <2>2. CASE Run
    BY <2>2, WaitStartKeeps, ForkKeeps, ReapKeeps, WaitpidFailsKeeps,
       SignalEndKeeps, BackToIdleKeeps, EndTaskKeeps DEF Run
  <2>3. CASE ChildEnds \/ Destroy
    BY <2>3, EnvironmentKeeps
  <2>4. CASE UNCHANGED vars
    BY <2>4 DEF vars, Inv, TypeOK, Holding, Handed, Working, Answered, Entering,
                Leaving
  <2>5. QED BY <2>1, <2>2, <2>3, <2>4 DEF Next
<1>3. QED BY <1>1, <1>2, PTL DEF Spec

(* Type correctness of caller, thread, process and both conditionals.      *)
THEOREM TypeCorrect == Spec => []TypeOK
<1>1. Inv => TypeOK BY DEF Inv
<1>2. QED BY <1>1, InductiveInvariant, PTL

(* A call that is about to return holds the status of its own command.     *)
THEOREM OwnResultTheorem == Spec => []OwnResult
<1>1. Inv => OwnResult BY DEF Inv, Leaving, OwnResult
<1>2. QED BY <1>1, InductiveInvariant, PTL

(* A command's process that the thread waits for exists only while its     *)
(* caller is in runCmd with the mutex and mExecuting is set; one that was  *)
(* left running because waitpid failed leaves its caller the error and no  *)
(* status.                                                                 *)
THEOREM CommandWithinCallTheorem == Spec => []CommandWithinCall
<1>1. Inv => CommandWithinCall
  BY DEF Inv, Holding, Working, Leaving, CommandWithinCall
<1>2. QED BY <1>1, InductiveInvariant, PTL
=============================================================================
