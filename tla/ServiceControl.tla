--------------------------- MODULE ServiceControl ---------------------------
(***************************************************************************)
(* Mplane::Service: a thread that calls service() periodically, and the    *)
(* one-place mailbox mControl through which the radio control process      *)
(* starts, resets, suspends, resumes and shuts it down.                    *)
(*                                                                         *)
(* A control method is one step (it holds mNotify throughout), except      *)
(* shutdown() of a task that does not run, which tests and stores without  *)
(* the lock.  The service thread is cut wherever it reads or writes what   *)
(* the methods share: mState, mControl and the conditional.                *)
(***************************************************************************)
VARIABLES
  state,      \* mState
  control,    \* mControl
  running,    \* Task::mRunning
  flag,       \* mNotify.condFlag
  waiter,     \* the service thread in mNotify.wait, see TimedConditional
  pc,         \* where the service thread is
  taken,      \* the control its switch has read
  stopper,    \* a shutdown() that found the task not running is to store
  destructor, \* ~Service: not called, holding, or over
  accepted    \* history: the control last answered with its own name and
              \* neither carried out nor superseded since

thread == <<running, pc, taken>>
notify == <<flag, waiter>>
vars   == <<state, control, notify, thread, stopper, destructor, accepted>>

mNotify == INSTANCE TimedConditional

Commands == {"Reset", "Suspend", "Resume", "Shutdown"}
CtlState == Commands \union {"Noop", "Start"}
State == {"ServiceCreated", "ServiceReset", "ServiceSuspended",
          "ServiceRunning", "ServiceShutdown"}
Pc == {"none", "created", "entering", "starting", "loop", "service", "wait",
       "switch", "apply", "resetting", "clear", "exit", "exited"}

Init ==
  /\ state = "ServiceCreated"
  /\ control = "Noop"
  /\ running = FALSE
  /\ mNotify!Initial
  /\ pc = "none"
  /\ taken = "Noop"
  /\ stopper = FALSE
  /\ destructor = "no"
  /\ accepted = "Noop"
-----------------------------------------------------------------------------
(* The radio control process. *)

(* AppServices starts its services once: no second thread is made while the *)
(* first has yet to leave ServiceCreated.                                   *)
Start ==
  /\ destructor = "no" /\ state = "ServiceCreated" /\ pc = "none"
  /\ control' = "Start"
  /\ pc' \in {"created", "none"} \* pthread_create may fail, unnoticed
  /\ UNCHANGED <<state, running, notify, taken, stopper, destructor, accepted>>

(* Faulty: nobody is told of the control. *)
SilentPost(c) ==
  /\ control' = c
  /\ accepted' = c
  /\ UNCHANGED <<state, notify, thread, stopper, destructor>>

Post(c) ==
  /\ control' = c
  /\ accepted' = c
  /\ mNotify!Signal
  /\ UNCHANGED <<state, thread, stopper, destructor>>

AnyReset == destructor = "no" /\ Post("Reset") \* Faulty: in every state
Reset    == destructor = "no" /\ state = "ServiceRunning" /\ Post("Reset")
Suspend  == destructor = "no" /\ state = "ServiceRunning" /\ Post("Suspend")
Resume   == destructor = "no" /\ state = "ServiceSuspended" /\ Post("Resume")

ShutdownTask ==
  destructor # "over" /\ running /\ state = "ServiceRunning" /\ Post("Shutdown")
ShutdownFindsStopped ==
  /\ destructor = "no" /\ ~running /\ ~stopper
  /\ stopper' = TRUE
  /\ UNCHANGED <<state, control, notify, thread, destructor, accepted>>
ShutdownStores ==
  /\ stopper
  /\ stopper' = FALSE
  /\ state' = "ServiceShutdown"
  /\ UNCHANGED <<control, notify, thread, destructor, accepted>>

EventNotify ==
  /\ destructor = "no"
  /\ mNotify!Signal
  /\ UNCHANGED <<state, control, thread, stopper, destructor, accepted>>
-----------------------------------------------------------------------------
(* The service thread: Task::execute and Service::run. *)

Execute ==
  /\ pc = "created"
  /\ running' = TRUE
  /\ pc' = "entering"
  /\ UNCHANGED <<state, control, notify, taken, stopper, destructor, accepted>>

EnterRunning ==
  /\ pc = "entering"
  /\ state' = "ServiceRunning"
  /\ pc' = "starting"
  /\ UNCHANGED <<control, notify, running, taken, stopper, destructor, accepted>>

(* Faulty: only a posted control keeps the thread from service(). *)
EagerLoop ==
  /\ pc = "loop"
  /\ pc' = CASE state = "ServiceShutdown" -> "exit"
             [] control = "Noop" -> "service"
             [] OTHER -> "wait"
  /\ UNCHANGED <<state, control, notify, running, taken, stopper, destructor,
                 accepted>>

Loop ==
  /\ pc = "loop"
  /\ pc' = CASE state = "ServiceShutdown" -> "exit"
             [] control = "Noop" /\ state = "ServiceRunning" -> "service"
             [] OTHER -> "wait"
  /\ UNCHANGED <<state, control, notify, running, taken, stopper, destructor,
                 accepted>>

ServiceReturns ==
  /\ pc = "service"
  /\ pc' = "wait"
  /\ UNCHANGED <<state, control, notify, running, taken, stopper, destructor,
                 accepted>>

(* service() failed: no wait, and the loop ends. *)
ServiceFails ==
  /\ pc = "service"
  /\ state' = "ServiceShutdown"
  /\ pc' = "loop"
  /\ UNCHANGED <<control, notify, running, taken, stopper, destructor, accepted>>

WaitBlocks  == pc = "wait" /\ mNotify!Block  /\ UNCHANGED pc
WaitExpires == pc = "wait" /\ mNotify!Expire /\ UNCHANGED pc
WaitTrue    == pc = "wait" /\ (mNotify!Pass \/ mNotify!Wake) /\ pc' = "switch"
WaitFalse   == pc = "wait" /\ mNotify!GiveUp /\ pc' = "loop"

Wait ==
  /\ WaitBlocks \/ WaitExpires \/ WaitTrue \/ WaitFalse
  /\ UNCHANGED <<state, control, running, taken, stopper, destructor, accepted>>

Switch ==
  /\ pc = "switch"
  /\ taken' = control
  /\ pc' = "apply"
  /\ UNCHANGED <<state, control, notify, running, stopper, destructor, accepted>>

(* Faulty: a resumed service is left in a state run() does not know. *)
ResumedApply ==
  /\ pc = "apply"
  /\ state' = CASE taken = "Reset"    -> "ServiceReset"
                [] taken = "Suspend"  -> "ServiceSuspended"
                [] taken = "Resume"   -> "ServiceResumed"
                [] taken = "Shutdown" -> "ServiceShutdown"
                [] OTHER              -> state
  /\ pc' = IF taken = "Reset" THEN "resetting" ELSE "clear"
  /\ accepted' = IF taken = accepted THEN "Noop" ELSE accepted
  /\ UNCHANGED <<control, notify, running, taken, stopper, destructor>>

Apply ==
  /\ pc = "apply"
  /\ state' = CASE taken = "Reset"    -> "ServiceReset"
                [] taken = "Suspend"  -> "ServiceSuspended"
                [] taken = "Resume"   -> "ServiceRunning"
                [] taken = "Shutdown" -> "ServiceShutdown"
                [] OTHER              -> state
  /\ pc' = IF taken = "Reset" THEN "resetting" ELSE "clear"
  /\ accepted' = IF taken = accepted THEN "Noop" ELSE accepted
  /\ UNCHANGED <<control, notify, running, taken, stopper, destructor>>

DoReset ==
  /\ pc = "resetting"
  /\ state' = "ServiceRunning"
  /\ pc' = "clear"
  /\ UNCHANGED <<control, notify, running, taken, stopper, destructor, accepted>>

(* Faulty: a control that was carried out stays in the mailbox. *)
KeepingClear ==
  /\ pc \in {"starting", "clear"}
  /\ control' = IF pc = "starting" THEN "Noop" ELSE control
  /\ pc' = "loop"
  /\ UNCHANGED <<state, notify, running, taken, stopper, destructor, accepted>>

(* mControl = Noop, at the start of run() and after every control. *)
Clear ==
  /\ pc \in {"starting", "clear"}
  /\ control' = "Noop"
  /\ pc' = "loop"
  /\ UNCHANGED <<state, notify, running, taken, stopper, destructor, accepted>>

Exit ==
  /\ pc = "exit"
  /\ running' = FALSE
  /\ pc' = "exited"
  /\ UNCHANGED <<state, control, notify, taken, stopper, destructor, accepted>>

Run == \/ Execute \/ EnterRunning \/ Loop \/ ServiceReturns \/ ServiceFails
       \/ Wait \/ Switch \/ Apply \/ DoReset \/ Clear \/ Exit
-----------------------------------------------------------------------------
(* ~Service: shutdown() once a millisecond while the service runs; no      *)
(* other call is made on an object that is being destroyed.                *)

Destroy ==
  /\ destructor = "no" /\ ~stopper
  /\ destructor' = "holding"
  /\ UNCHANGED <<state, control, notify, thread, stopper, accepted>>

DestroyShutdown == destructor = "holding" /\ ShutdownTask

DestroyEnds ==
  /\ destructor = "holding" /\ state # "ServiceRunning"
  /\ destructor' = "over"
  /\ UNCHANGED <<state, control, notify, thread, stopper, accepted>>

(* ~Task after it: stop() cancels the thread where it waits or works. *)
Stop ==
  /\ destructor = "over" /\ running /\ pc \in {"wait", "service"}
  /\ pc' = "exited"
  /\ running' = FALSE
  /\ waiter' = "away"
  /\ UNCHANGED <<state, control, flag, taken, stopper, destructor, accepted>>

Controller == \/ Start \/ Reset \/ Suspend \/ Resume
              \/ destructor = "no" /\ ShutdownTask
              \/ ShutdownFindsStopped \/ ShutdownStores \/ EventNotify
Destructor == Destroy \/ DestroyShutdown \/ DestroyEnds \/ Stop

Next == Controller \/ Run \/ Destructor

(* The thread is scheduled and its time-outs come; service() and doReset() *)
(* return; a caller inside shutdown() or the destructor goes on.  The      *)
(* destructor retries every millisecond and the thread waits for most of   *)
(* its period, so some retry finds it waiting.                             *)
Fairness ==
  /\ WF_vars(Run)
  /\ WF_vars(ShutdownStores)
  /\ WF_vars(DestroyEnds)
  /\ SF_vars(DestroyShutdown /\ pc = "wait" /\ waiter # "expired")

Spec == Init /\ [][Next]_vars
FairSpec == Spec /\ Fairness
-----------------------------------------------------------------------------
TypeOK ==
  /\ state \in State
  /\ control \in CtlState
  /\ mNotify!Type
  /\ running \in BOOLEAN
  /\ pc \in Pc
  /\ taken \in CtlState
  /\ stopper \in BOOLEAN
  /\ destructor \in {"no", "holding", "over"}
  /\ accepted \in Commands \union {"Noop"}

(* The work of a suspended or resetting service is never called, whenever  *)
(* the control arrived (Service.h: suspend() prevents service() from being *)
(* called).                                                                *)
NeverCalledSuspended ==
  pc = "service" => state \in {"ServiceRunning", "ServiceShutdown"}

(* A control is posted in one state and carried out later, by another      *)
(* thread: it is still one that state admits (Service.h: calling reset,    *)
(* suspend, resume in any other state has no effect).                      *)
Admits(s, c) ==
  /\ c = "Resume" => s \in {"ServiceSuspended", "ServiceShutdown"}
  /\ c \in {"Reset", "Suspend", "Shutdown"} =>
       s \in {"ServiceRunning", "ServiceShutdown"}
ControlStillFits == pc = "apply" => Admits(state, taken)

Early == pc \in {"none", "created", "entering"}

(* Service.cpp: "hold in destructor until the Service really is shutdown!" *)
DestructorHolds ==
  [][destructor' = "over" => Early \/ state = "ServiceShutdown"]_destructor

(* A suspension ends by a resume() that was answered with Resume since, or *)
(* by a shutdown.                                                          *)
SuspensionHolds ==
  [][state = "ServiceSuspended" =>
       \/ state' \in {"ServiceSuspended", "ServiceShutdown"}
       \/ state' = "ServiceRunning" /\ accepted = "Resume"]_vars

(* A destructor that holds for the thread is released, although each of    *)
(* the shutdowns it posts may be lost.                                     *)
DestructionEnds == destructor = "holding" ~> destructor = "over"

(* Service.h: a method returns "the control state used or Noop if control  *)
(* request ignored": one that was used is not thrown away.                 *)
UsedControlIsKept == [][control' = "Noop" => accepted = "Noop"]_control

(* Service.h: "The service method will continue to be called for as long   *)
(* as is returns zero".                                                    *)
ServiceKeepsBeingCalled == []<>(pc = "service" \/ state # "ServiceRunning")

(* Service.h: shutdown() shuts the service down, "after which the thread   *)
(* associated with service will be destroyed": the state is not left.      *)
ShutdownIsFinal ==
  [][state = "ServiceShutdown" => state' = "ServiceShutdown"]_vars

-----------------------------------------------------------------------------
(* The inductive invariant: what the mailbox may hold in each state.       *)

StateFitsPc ==
  /\ Early => state \in {"ServiceCreated", "ServiceShutdown"}
            /\ control \in {"Noop", "Start"}
  /\ state = "ServiceCreated" => Early
  /\ state = "ServiceReset" => pc = "resetting"
  /\ pc = "resetting" => state \in {"ServiceReset", "ServiceShutdown"}
  /\ pc = "starting" => state \in {"ServiceRunning", "ServiceShutdown"}

MailboxFits ==
  /\ Admits(state, control) \/ pc \in {"clear", "resetting"}
  /\ pc = "resetting" => control # "Resume"
  /\ pc = "apply" /\ control = "Resume" => taken \in {"Resume", "Noop", "Start"}

ResumeWasAccepted ==
  state = "ServiceSuspended" =>
    /\ control = "Resume" => accepted = "Resume"
    /\ pc = "apply" /\ taken = "Resume" => accepted = "Resume"

Inv ==
  /\ TypeOK
  /\ StateFitsPc
  /\ MailboxFits
  /\ ControlStillFits
  /\ NeverCalledSuspended
  /\ ResumeWasAccepted
=============================================================================
