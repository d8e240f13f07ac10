------------------------- MODULE MCTaskSupervision -------------------------
(* Two services, listed as they are made and started the other way round,  *)
(* as YangServices does with netopeer's monitor and the YANG manager.      *)
EXTENDS TaskSupervision, TLC

CONSTANTS netopeer, yang

Made == <<netopeer, yang>>
Inserted == <<yang, netopeer>>
Loops == (netopeer :> 2) @@ (yang :> 1)
=============================================================================
