------------------------ MODULE MCMpclientSessions ------------------------
(* Instances of MpclientSessions for TLC. *)
EXTENDS MpclientSessions, TLC

\* Threads are interchangeable (used by the runs without liveness only).
ThreadSymmetry == Permutations(Thread)
=============================================================================
