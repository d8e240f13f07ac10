-------------------------- MODULE MCModuleStartup --------------------------
(* Two required modules and three configured ones, one of them in both. *)
EXTENDS ModuleStartup

CONSTANTS interfaces, ip, uplane, element

RequiredThenConfigured == <<<<interfaces, ip>>, <<ip, element, uplane>>>>
=============================================================================
