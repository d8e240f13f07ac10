-------------------------- MODULE MCUplaneCarriers --------------------------
(* The array-carrier handler on a small instance: two carriers and one     *)
(* endpoint, which exist or not.                                           *)
EXTENDS UplaneCarriers, TLC

CONSTANTS tx0, rx0, wide, none, ep0, id0

Symmetric == Permutations(Carrier)
=============================================================================
