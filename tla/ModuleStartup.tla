---------------------------- MODULE ModuleStartup ----------------------------
(***************************************************************************)
(* The start of the YANG manager: YangModuleMgr::initialise connects to    *)
(* sysrepo, installs the required and then the configured modules, enables *)
(* their features, opens its sessions and starts netopeer2-server; if any  *)
(* of it fails, YangMgrService is not built and the server ends.  Any call *)
(* of sysrepo may fail, and the server may die at any point and be started *)
(* again: what sysrepo has installed and enabled stays.                    *)
(*                                                                         *)
(* sysrepo is external.  A failure is a sysrepo_exception, of which        *)
(* "exists" is a kind of its own.  NetopeerMonService::startService is     *)
(* modelled in NetopeerMonitor.  Every module's file is found or its       *)
(* installation fails.                                                     *)
(***************************************************************************)
EXTENDS Naturals, Sequences

CONSTANTS
  Module,
  Lists,    \* the required modules, then the configured ones
  Featured  \* the modules of which the configuration enables a feature

ASSUME ListsAssumption ==
  /\ Lists \in Seq(Seq(Module)) /\ Len(Lists) > 0 /\ Len(Lists[1]) > 0
  /\ Featured \subseteq Module

VARIABLES
  step,       \* begin, install, features, listed, activate, netopeer, up, failed, thrown
  list, index,\* the module that installModules is at
  result, successCount, \* its variables
  ds,         \* RadioDatastore::mState
  connected,  \* mSrConnection is not null
  sessions,   \* mSrSessions
  status,     \* YangModuleMgr::mStatus
  active,     \* the modules whose mActive is set
  netopeer,   \* netopeer2-server was started
  installed,  \* what sysrepo has installed
  enabled     \* the modules whose feature sysrepo has enabled

loop    == <<list, index, result, successCount>>
driver  == <<ds, connected, sessions>>
sysrepo == <<installed, enabled>>
vars    == <<step, loop, driver, status, active, netopeer, sysrepo>>

Fresh ==
  [step |-> "begin", list |-> 1, index |-> 1, result |-> "FAIL", successCount |-> 0,
   ds |-> "UNINITIALISED", connected |-> FALSE, sessions |-> 0,
   status |-> "UNINITIALISED", active |-> {}, netopeer |-> FALSE]

Init ==
  /\ step = Fresh.step
  /\ list = Fresh.list /\ index = Fresh.index
  /\ result = Fresh.result /\ successCount = Fresh.successCount
  /\ ds = Fresh.ds /\ connected = Fresh.connected /\ sessions = Fresh.sessions
  /\ status = Fresh.status /\ active = Fresh.active /\ netopeer = Fresh.netopeer
  /\ installed = {} /\ enabled = {}

(* The server dies, or ended by itself, and is started again. *)
Restart ==
  /\ step # "begin"
  /\ step' = Fresh.step
  /\ list' = Fresh.list /\ index' = Fresh.index
  /\ result' = Fresh.result /\ successCount' = Fresh.successCount
  /\ ds' = Fresh.ds /\ connected' = Fresh.connected /\ sessions' = Fresh.sessions
  /\ status' = Fresh.status /\ active' = Fresh.active /\ netopeer' = Fresh.netopeer
  /\ UNCHANGED sysrepo
-----------------------------------------------------------------------------
(* Faulty: a set-up failure is recorded while modules are installed. *)
MayBecomeFailed(from, to) ==
  \/ from = to
  \/ <<from, to>> \in {<<"UNINITIALISED", "INITIALISED">>, <<"INITIALISED", "CONFIGURING">>,
                       <<"CONFIGURING", "ACTIVE">>, <<"CONFIGURING", "SETUP_FAILURE">>}
  \/ from \in {"ACTIVE", "SETUP_FAILURE"}

(* setState: what may follow what.  Anything else throws runtime_error. *)
MayBecome(from, to) ==
  \/ from = to
  \/ <<from, to>> \in {<<"UNINITIALISED", "INITIALISED">>, <<"INITIALISED", "CONFIGURING">>,
                       <<"CONFIGURING", "ACTIVE">>}
  \/ from \in {"ACTIVE", "SETUP_FAILURE"}

(* initialise, activate: a failed set-up tries to become SETUP_FAILURE,    *)
(* and returns FAIL if it may.                                             *)
SetupFails ==
  IF MayBecome(ds, "SETUP_FAILURE")
    THEN ds' = "SETUP_FAILURE" /\ status' = "FAILED" /\ step' = "failed"
    ELSE UNCHANGED <<ds, status>> /\ step' = "thrown"

(* RadioDatastoreSysrepo::initialise *)
Connect ==
  /\ step = "begin"
  /\ connected' = TRUE
  /\ MayBecome(ds, "INITIALISED") /\ ds' = "INITIALISED"
  /\ step' = "install"
  /\ UNCHANGED <<loop, sessions, status, active, netopeer, sysrepo>>

ConnectFails ==
  /\ step = "begin"
  /\ SetupFails
  /\ UNCHANGED <<loop, connected, sessions, active, netopeer, sysrepo>>
-----------------------------------------------------------------------------
(* installModules *)

Modules == Lists[list]
Name == Modules[index]

(* Each begins with setState(CONFIGURING). *)
Installing ==
  /\ step = "install" /\ index <= Len(Modules)
  /\ MayBecome(ds, "CONFIGURING") /\ ds' = "CONFIGURING"

Skip ==
  /\ index' = index + 1
  /\ UNCHANGED <<step, list, result, successCount, active>>

InstallUnconnected ==
  /\ Installing
  /\ ~connected
  /\ Skip
  /\ UNCHANGED <<connected, sessions, status, netopeer, sysrepo>>

(* Faulty: only a module that is new has its features enabled. *)
SkipExisting ==
  /\ Installing
  /\ connected /\ Name \in installed
  /\ active' = active \union {Name}
  /\ index' = index + 1 /\ successCount' = successCount + 1
  /\ result' = "OK"
  /\ UNCHANGED <<step, list, connected, sessions, status, netopeer, sysrepo>>

InstallExisting ==
  /\ Installing
  /\ connected /\ Name \in installed
  /\ active' = active \union {Name}
  /\ step' = "features"
  /\ UNCHANGED <<loop, connected, sessions, status, netopeer, sysrepo>>

(* A new module, and then resetConnection. *)
InstallNew ==
  /\ Installing
  /\ connected /\ Name \notin installed
  /\ installed' = installed \union {Name}
  /\ active' = active \union {Name}
  /\ step' = "features"
  /\ UNCHANGED <<loop, connected, sessions, status, netopeer, enabled>>

ReconnectFails ==
  /\ Installing
  /\ connected /\ Name \notin installed
  /\ installed' = installed \union {Name}
  /\ connected' = FALSE
  /\ Skip
  /\ UNCHANGED <<sessions, status, netopeer, enabled>>

InstallThrows ==
  /\ Installing
  /\ connected
  /\ step' = "thrown"
  /\ UNCHANGED <<loop, connected, sessions, status, active, netopeer, sysrepo>>

(* enableFeatures *)
EnableFeatures ==
  /\ step = "features"
  /\ ds = "CONFIGURING" /\ connected
  /\ enabled' = IF Name \in Featured THEN enabled \union {Name} ELSE enabled
  /\ result' = "OK"
  /\ successCount' = successCount + 1
  /\ index' = index + 1
  /\ step' = "install"
  /\ UNCHANGED <<list, driver, status, active, netopeer, installed>>

EnableFeaturesExists ==
  /\ step = "features" /\ Name \in Featured
  /\ result' = "FAIL"
  /\ step' = "listed"
  /\ UNCHANGED <<list, index, successCount, driver, status, active, netopeer, sysrepo>>

EnableFeaturesThrows ==
  /\ step = "features" /\ Name \in Featured
  /\ step' = "thrown"
  /\ UNCHANGED <<loop, driver, status, active, netopeer, sysrepo>>

(* The result is that of the last module's features, unless all succeeded. *)
InstallModulesReturns ==
  /\ step = "listed" \/ (step = "install" /\ index > Len(Modules))
  /\ IF result # "OK" /\ successCount # Len(Modules)
       THEN /\ status' = "FAILED" /\ step' = "failed"
            /\ UNCHANGED loop
       ELSE /\ UNCHANGED status
            /\ IF list < Len(Lists)
                 THEN /\ list' = list + 1 /\ index' = 1
                      /\ result' = "FAIL" /\ successCount' = 0
                      /\ step' = "install"
                 ELSE step' = "activate" /\ UNCHANGED loop
  /\ UNCHANGED <<driver, active, netopeer, sysrepo>>
-----------------------------------------------------------------------------
(* activate *)

Activate ==
  /\ step = "activate"
  /\ connected
  /\ sessions' = 2
  /\ MayBecome(ds, "ACTIVE") /\ ds' = "ACTIVE"
  /\ step' = "netopeer"
  /\ UNCHANGED <<loop, connected, status, active, netopeer, sysrepo>>

(* There is no connection, or resetConnection finds none. *)
ActivateUnconnected ==
  /\ step = "activate"
  /\ connected' = FALSE
  /\ SetupFails
  /\ UNCHANGED <<loop, sessions, active, netopeer, sysrepo>>

(* The first or the second session. *)
ActivateThrows ==
  /\ step = "activate"
  /\ connected
  /\ sessions' \in {0, 1}
  /\ step' = "thrown"
  /\ UNCHANGED <<loop, ds, connected, status, active, netopeer, sysrepo>>

StartNetopeer(ok) ==
  /\ step = "netopeer"
  /\ netopeer' = ok
  /\ status' = IF ok THEN "INITIALISED" ELSE "FAILED"
  /\ step' = IF ok THEN "up" ELSE "failed"
  /\ UNCHANGED <<loop, driver, active, sysrepo>>

Next ==
  \/ Restart \/ Connect \/ ConnectFails
  \/ InstallUnconnected \/ InstallExisting \/ InstallNew \/ ReconnectFails \/ InstallThrows
  \/ EnableFeatures \/ EnableFeaturesExists \/ EnableFeaturesThrows
  \/ InstallModulesReturns
  \/ Activate \/ ActivateUnconnected \/ ActivateThrows
  \/ \E ok \in BOOLEAN : StartNetopeer(ok)

Spec == Init /\ [][Next]_vars
-----------------------------------------------------------------------------
Configured == UNION {{Lists[i][j] : j \in 1 .. Len(Lists[i])} : i \in 1 .. Len(Lists)}

(* Types; the datastore's set-up failure is never recorded: setState       *)
(* refuses it in every state in which a set-up can fail.                   *)
TypeOK ==
  /\ step \in {"begin", "install", "features", "listed", "activate", "netopeer", "up",
               "failed", "thrown"}
  /\ list \in 1 .. Len(Lists)
  /\ index \in 1 .. Len(Modules) + 1
  /\ result \in {"OK", "FAIL"}
  /\ successCount \in 0 .. Len(Modules)
  /\ ds \in {"UNINITIALISED", "INITIALISED", "CONFIGURING", "ACTIVE"}
  /\ connected \in BOOLEAN /\ sessions \in 0 .. 2
  /\ status \in {"UNINITIALISED", "INITIALISED", "FAILED"}
  /\ active \subseteq Module
  /\ netopeer \in BOOLEAN
  /\ installed \subseteq Module /\ enabled \subseteq Module

(* A server that comes up is complete: every module is installed and       *)
(* active, every feature enabled, the sessions are open and netopeer runs. *)
(* installModules alone does not see to it: after a failure it goes on,    *)
(* and may return OK.  It is the lost connection that stops the start.     *)
UpIsComplete ==
  step = "up" =>
    /\ Configured \subseteq installed \cap active
    /\ Configured \cap Featured \subseteq enabled
    /\ connected /\ sessions = 2 /\ ds = "ACTIVE" /\ netopeer
=============================================================================
