------------------------- MODULE MCConfigDownloads -------------------------
(* Two callers, each asking by name or installing its own file. *)
EXTENDS ConfigDownloads, TLC

CONSTANTS a, b

Symmetric == Permutations(Caller)
=============================================================================
