-------------------------- MODULE TimedConditional --------------------------
(***************************************************************************)
(* Mplane::Conditional as Service and SystemTask use it: a flag under a    *)
(* mutex, signallers, and one thread in the timed wait.  Every operation   *)
(* below runs under the conditional's mutex and is atomic; the waiter is   *)
(* away, blocked in pthread_cond_timedwait, or expired: its time is up and *)
(* it has yet to take the mutex again.                                     *)
(***************************************************************************)
VARIABLES flag, waiter

Type == flag \in BOOLEAN /\ waiter \in {"away", "blocked", "expired"}

Initial == flag = FALSE /\ waiter = "away"

(* signal(): remembered until a wait takes it. *)
Signal == flag' = TRUE /\ UNCHANGED waiter

(* wait(timeout) with the flag up: it returns true at once. *)
Pass  == waiter = "away" /\ flag /\ flag' = FALSE /\ UNCHANGED waiter

Block == waiter = "away" /\ ~flag /\ waiter' = "blocked" /\ UNCHANGED flag

(* The blocked waiter was signalled: true. *)
Wake   == waiter = "blocked" /\ flag /\ flag' = FALSE /\ waiter' = "away"

Expire == waiter = "blocked" /\ ~flag /\ waiter' = "expired" /\ UNCHANGED flag

(* pthread_cond_timedwait returned ETIMEDOUT: false, and the flag is down, *)
(* a signal of the meantime with it.                                       *)
GiveUp == waiter = "expired" /\ flag' = FALSE /\ waiter' = "away"
=============================================================================
