---------------------------- MODULE MCSystemTask ----------------------------
(* Two callers of one SystemTask. *)
EXTENDS SystemTask, TLC

CONSTANTS a, b

Symmetric == Permutations(Caller)
=============================================================================
