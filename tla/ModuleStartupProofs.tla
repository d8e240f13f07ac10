------------------------- MODULE ModuleStartupProofs -------------------------
(***************************************************************************)
(* Proofs about the start of the YANG manager, for every list of modules   *)
(* and every choice of features: the types, and that a server that is up   *)
(* is complete, through any failures and restarts before.                  *)
(***************************************************************************)
EXTENDS ModuleStartup, TLAPS

(* The module was installed, is marked active and has its feature. *)
Done(m) == m \in installed /\ m \in active /\ (m \in Featured => m \in enabled)

(* A start begins with nothing but what sysrepo has. *)
BeginsFresh ==
  step = "begin" =>
    /\ ds = "UNINITIALISED"
    /\ list = 1 /\ index = 1 /\ successCount = 0

(* Where the datastore is in its set-up: never where it could fail. *)
Configuring ==
  /\ step = "install" =>
       /\ ds \in {"INITIALISED", "CONFIGURING"}
       /\ list > 1 \/ index > 1 => ds = "CONFIGURING"
  /\ step \in {"features", "listed", "activate"} => ds = "CONFIGURING"

(* No more successes than modules: a list cut short is not a success. *)
Counting ==
  /\ step \in {"install", "features", "listed"} => successCount < index
  /\ step \in {"features", "listed"} => index <= Len(Modules)
  /\ step = "features" => connected /\ Name \in installed /\ Name \in active
  /\ step = "listed" => result = "FAIL"

(* As long as there is a connection, no module was passed over. *)
DoneSoFar ==
  connected /\ step \in {"install", "features", "listed"} =>
    /\ \A i \in 1 .. list - 1 : \A j \in 1 .. Len(Lists[i]) : Done(Lists[i][j])
    /\ \A j \in 1 .. index - 1 : Done(Lists[list][j])

AllDone ==
  connected /\ step \in {"activate", "netopeer", "up"} =>
    \A i \in 1 .. Len(Lists) : \A j \in 1 .. Len(Lists[i]) : Done(Lists[i][j])

Opened ==
  /\ step \in {"netopeer", "up"} => connected /\ sessions = 2 /\ ds = "ACTIVE"
  /\ step = "up" => netopeer

Inv ==
  /\ TypeOK
  /\ BeginsFresh /\ Configuring /\ Counting /\ DoneSoFar /\ AllDone /\ Opened
-----------------------------------------------------------------------------
(* Every list is a sequence of modules. *)
LEMMA ListTypes ==
  \A i \in 1 .. Len(Lists) :
    /\ Len(Lists[i]) \in Nat
    /\ \A j \in 1 .. Len(Lists[i]) : Lists[i][j] \in Module
  BY ListsAssumption

LEMMA LengthTypes == Len(Lists) \in Nat /\ Len(Lists) > 0 /\ Len(Lists[1]) > 0
  BY ListsAssumption

(* The module that installModules is at, while it is in the list. *)
LEMMA NameTypes ==
  ASSUME TypeOK
  PROVE  /\ Len(Modules) \in Nat /\ list \in Nat /\ index \in Nat /\ successCount \in Nat
         /\ index <= Len(Modules) => Name \in Module
  BY ListTypes, LengthTypes DEF TypeOK, Modules, Name

LEMMA InitInv == Init => Inv
  BY ListTypes, LengthTypes
  DEF Init, Fresh, Inv, TypeOK, BeginsFresh, Configuring, Counting, DoneSoFar, AllDone, Opened, Modules

(* Every step keeps the invariant. *)
LEMMA NextInv == Inv /\ [Next]_vars => Inv'
<1> SUFFICES ASSUME Inv, [Next]_vars PROVE Inv'
  OBVIOUS
<1>t. TypeOK /\ BeginsFresh /\ Configuring /\ Counting /\ DoneSoFar /\ AllDone /\ Opened
  BY DEF Inv
<1>n. /\ Len(Modules) \in Nat /\ list \in Nat /\ index \in Nat /\ successCount \in Nat
      /\ index <= Len(Modules) => Name \in Module
  BY <1>t, NameTypes
<1>1. CASE Restart
  <2>1. TypeOK'
    BY <1>t, <1>1, ListTypes, LengthTypes
    DEF Restart, Fresh, sysrepo, TypeOK, Modules
  <2>2. BeginsFresh' /\ Configuring' /\ Counting' /\ DoneSoFar' /\ AllDone' /\ Opened'
    BY <1>1
    DEF Restart, Fresh, sysrepo, BeginsFresh, Configuring, Counting, DoneSoFar,
        AllDone, Opened
  <2> QED
    BY <2>1, <2>2 DEF Inv
<1>2. CASE Connect
  <2>1. TypeOK'
    BY <1>t, <1>2 DEF Connect, TypeOK, MayBecome, Modules, loop, sysrepo
  <2>2. Configuring'
    BY <1>t, <1>2 DEF Connect, Configuring, BeginsFresh, loop
  <2>3. Counting'
    BY <1>t, <1>2 DEF Connect, Counting, BeginsFresh, loop, TypeOK
  <2>4. DoneSoFar'
    BY <1>t, <1>2 DEF Connect, DoneSoFar, BeginsFresh, loop
  <2>5. BeginsFresh' /\ AllDone' /\ Opened'
    BY <1>2 DEF Connect, BeginsFresh, AllDone, Opened
  <2> QED
    BY <2>1, <2>2, <2>3, <2>4, <2>5 DEF Inv
<1>3. CASE ConnectFails
  <2>1. TypeOK'
    BY <1>t, <1>3
    DEF ConnectFails, SetupFails, MayBecome, BeginsFresh, TypeOK, Modules,
        loop, sysrepo
  <2>2. BeginsFresh' /\ Configuring' /\ Counting' /\ DoneSoFar' /\ AllDone' /\ Opened'
    BY <1>t, <1>3
    DEF ConnectFails, SetupFails, MayBecome, BeginsFresh, Configuring,
        Counting, DoneSoFar, AllDone, Opened
  <2> QED
    BY <2>1, <2>2 DEF Inv
<1>4. CASE InstallUnconnected
  <2>1. TypeOK'
    BY <1>t, <1>4, <1>n
    DEF InstallUnconnected, Installing, Skip, TypeOK, Modules, sysrepo
  <2>2. Configuring'
    BY <1>t, <1>4, <1>n DEF InstallUnconnected, Installing, Skip, Configuring
  <2>3. Counting'
    BY <1>t, <1>4, <1>n DEF InstallUnconnected, Installing, Skip, Counting
  <2>4. BeginsFresh' /\ DoneSoFar' /\ AllDone' /\ Opened'
    BY <1>4
    DEF InstallUnconnected, Installing, Skip, BeginsFresh, DoneSoFar, AllDone,
        Opened
  <2> QED
    BY <2>1, <2>2, <2>3, <2>4 DEF Inv
<1>5. CASE InstallExisting
  <2>1. TypeOK'
    BY <1>t, <1>5, <1>n
    DEF InstallExisting, Installing, TypeOK, Modules, loop, sysrepo
  <2>2. Configuring'
    BY <1>t, <1>5, <1>n DEF InstallExisting, Installing, Configuring
  <2>3. Counting'
    BY <1>t, <1>5, <1>n
    DEF InstallExisting, Installing, Counting, Modules, Name, loop, sysrepo
  <2>4. DoneSoFar'
    BY <1>t, <1>5, <1>n
    DEF InstallExisting, Installing, DoneSoFar, Done, loop, sysrepo
  <2>5. BeginsFresh' /\ AllDone' /\ Opened'
    BY <1>5 DEF InstallExisting, Installing, BeginsFresh, AllDone, Opened
  <2> QED
    BY <2>1, <2>2, <2>3, <2>4, <2>5 DEF Inv
<1>6. CASE InstallNew
  <2>1. TypeOK'
    BY <1>t, <1>6, <1>n DEF InstallNew, Installing, TypeOK, Modules, loop
  <2>2. Configuring'
    BY <1>t, <1>6, <1>n DEF InstallNew, Installing, Configuring
  <2>3. Counting'
    BY <1>t, <1>6, <1>n
    DEF InstallNew, Installing, Counting, Modules, Name, loop
  <2>4. DoneSoFar'
    BY <1>t, <1>6, <1>n DEF InstallNew, Installing, DoneSoFar, Done, loop
  <2>5. BeginsFresh' /\ AllDone' /\ Opened'
    BY <1>6 DEF InstallNew, Installing, BeginsFresh, AllDone, Opened
  <2> QED
    BY <2>1, <2>2, <2>3, <2>4, <2>5 DEF Inv
<1>7. CASE ReconnectFails
  <2>1. TypeOK'
    <3>1. installed' \subseteq Module /\ connected' \in BOOLEAN
      BY <1>t, <1>7, <1>n DEF ReconnectFails, Installing, TypeOK
    <3>2. index' \in 1 .. Len(Modules') + 1 /\ successCount' \in 0 .. Len(Modules')
      BY <1>t, <1>7, <1>n DEF ReconnectFails, Installing, Skip, TypeOK, Modules
    <3> QED
      BY <1>t, <1>7, <3>1, <3>2 DEF ReconnectFails, Installing, Skip, TypeOK
  <2>2. Configuring'
    BY <1>t, <1>7, <1>n DEF ReconnectFails, Installing, Skip, Configuring
  <2>3. Counting'
    BY <1>t, <1>7, <1>n DEF ReconnectFails, Installing, Skip, Counting
  <2>4. BeginsFresh' /\ DoneSoFar' /\ AllDone' /\ Opened'
    BY <1>7
    DEF ReconnectFails, Installing, Skip, BeginsFresh, DoneSoFar, AllDone,
        Opened
  <2> QED
    BY <2>1, <2>2, <2>3, <2>4 DEF Inv
<1>8. CASE InstallThrows
  <2>1. TypeOK'
    BY <1>t, <1>8 DEF InstallThrows, Installing, TypeOK, Modules, loop, sysrepo
  <2>2. BeginsFresh' /\ Configuring' /\ Counting' /\ DoneSoFar' /\ AllDone' /\ Opened'
    BY <1>8
    DEF InstallThrows, Installing, BeginsFresh, Configuring, Counting,
        DoneSoFar, AllDone, Opened
  <2> QED
    BY <2>1, <2>2 DEF Inv
<1>9. CASE EnableFeatures
  <2>1. TypeOK'
    BY <1>t, <1>9, <1>n DEF EnableFeatures, TypeOK, Counting, Modules, driver
  <2>2. Configuring'
    BY <1>t, <1>9, <1>n DEF EnableFeatures, Configuring, driver
  <2>3. Counting'
    BY <1>t, <1>9, <1>n DEF EnableFeatures, Counting
  <2>4. DoneSoFar'
    BY <1>t, <1>9, <1>n
    DEF EnableFeatures, DoneSoFar, Counting, Done, Modules, Name, driver
  <2>5. BeginsFresh' /\ AllDone' /\ Opened'
    BY <1>9 DEF EnableFeatures, BeginsFresh, AllDone, Opened
  <2> QED
    BY <2>1, <2>2, <2>3, <2>4, <2>5 DEF Inv
<1>10. CASE EnableFeaturesExists
  <2>1. TypeOK'
    BY <1>t, <1>10 DEF EnableFeaturesExists, TypeOK, Modules, driver, sysrepo
  <2>2. Configuring'
    BY <1>t, <1>10 DEF EnableFeaturesExists, Configuring, driver
  <2>3. Counting'
    BY <1>t, <1>10 DEF EnableFeaturesExists, Counting, Modules, driver
  <2>4. DoneSoFar'
    BY <1>t, <1>10 DEF EnableFeaturesExists, DoneSoFar, Done, driver, sysrepo
  <2>5. BeginsFresh' /\ AllDone' /\ Opened'
    BY <1>10 DEF EnableFeaturesExists, BeginsFresh, AllDone, Opened
  <2> QED
    BY <2>1, <2>2, <2>3, <2>4, <2>5 DEF Inv
<1>11. CASE EnableFeaturesThrows
  <2>1. TypeOK'
    BY <1>t, <1>11
    DEF EnableFeaturesThrows, TypeOK, Modules, loop, driver, sysrepo
  <2>2. BeginsFresh' /\ Configuring' /\ Counting' /\ DoneSoFar' /\ AllDone' /\ Opened'
    BY <1>11
    DEF EnableFeaturesThrows, BeginsFresh, Configuring, Counting, DoneSoFar,
        AllDone, Opened
  <2> QED
    BY <2>1, <2>2 DEF Inv
<1>12. CASE InstallModulesReturns
  <2>1. TypeOK'
    BY <1>t, <1>12, <1>n, ListTypes, LengthTypes
    DEF InstallModulesReturns, TypeOK, Modules, loop, driver, sysrepo
  <2>2. Configuring'
    BY <1>t, <1>12, <1>n, ListTypes, LengthTypes
    DEF InstallModulesReturns, Configuring, Modules, driver, Counting
  <2>3. Counting'
    BY <1>t, <1>12, <1>n, ListTypes, LengthTypes
    DEF InstallModulesReturns, Counting
  <2>4. DoneSoFar'
    <3>1. CASE step' = "install"
      <4>1. /\ result = "OK" \/ successCount = Len(Modules)
            /\ list' = list + 1 /\ index' = 1
        BY <1>12, <3>1 DEF InstallModulesReturns
      <4>2. step = "install" /\ index > Len(Modules)
        BY <1>t, <1>12, <1>n, <4>1 DEF InstallModulesReturns, Counting
      <4>3. connected =>
              /\ \A i \in 1 .. list - 1 : \A j \in 1 .. Len(Lists[i]) : Done(Lists[i][j])
              /\ \A j \in 1 .. Len(Lists[list]) : Done(Lists[list][j])
        BY <1>t, <1>n, <4>2 DEF DoneSoFar, Modules
      <4>4. UNCHANGED <<connected, installed, enabled, active>>
        BY <1>12 DEF InstallModulesReturns, driver, sysrepo
      <4>5. \A i \in 1 .. list' - 1 : i = list \/ i \in 1 .. list - 1
        BY <1>n, <4>1
      <4> QED
        BY <4>1, <4>3, <4>4, <4>5 DEF DoneSoFar, Done
    <3>2. CASE step' # "install"
      BY <1>12, <3>2 DEF InstallModulesReturns, DoneSoFar
    <3> QED
      BY <3>1, <3>2
  <2>5. AllDone'
    BY <1>t, <1>12, <1>n, ListTypes, LengthTypes
    DEF InstallModulesReturns, AllDone, TypeOK, Counting, DoneSoFar, Done,
        Modules, loop, driver, sysrepo
  <2>6. BeginsFresh' /\ Opened'
    BY <1>12 DEF InstallModulesReturns, BeginsFresh, Opened
  <2> QED
    BY <2>1, <2>2, <2>3, <2>4, <2>5, <2>6 DEF Inv
<1>13. CASE Activate
  <2>1. TypeOK'
    BY <1>t, <1>13 DEF Activate, TypeOK, MayBecome, Modules, loop, sysrepo
  <2>2. AllDone'
    BY <1>t, <1>13 DEF Activate, AllDone, Done, sysrepo
  <2>3. Opened'
    BY <1>t, <1>13 DEF Activate, Opened
  <2>4. BeginsFresh' /\ Configuring' /\ Counting' /\ DoneSoFar'
    BY <1>13 DEF Activate, BeginsFresh, Configuring, Counting, DoneSoFar
  <2> QED
    BY <2>1, <2>2, <2>3, <2>4 DEF Inv
<1>14. CASE ActivateUnconnected
  <2>1. TypeOK'
    BY <1>t, <1>14
    DEF ActivateUnconnected, SetupFails, MayBecome, Configuring, TypeOK,
        Modules, loop, sysrepo
  <2>2. BeginsFresh' /\ Configuring' /\ Counting' /\ DoneSoFar' /\ AllDone' /\ Opened'
    BY <1>t, <1>14
    DEF ActivateUnconnected, SetupFails, MayBecome, Configuring, BeginsFresh,
        Counting, DoneSoFar, AllDone, Opened
  <2> QED
    BY <2>1, <2>2 DEF Inv
<1>15. CASE ActivateThrows
  <2>1. TypeOK'
    BY <1>t, <1>15 DEF ActivateThrows, TypeOK, Modules, loop, sysrepo
  <2>2. BeginsFresh' /\ Configuring' /\ Counting' /\ DoneSoFar' /\ AllDone' /\ Opened'
    BY <1>15
    DEF ActivateThrows, BeginsFresh, Configuring, Counting, DoneSoFar, AllDone,
        Opened
  <2> QED
    BY <2>1, <2>2 DEF Inv
<1>16. CASE \E ok \in BOOLEAN : StartNetopeer(ok)
  <2>1. TypeOK'
    BY <1>t, <1>16 DEF StartNetopeer, TypeOK, Modules, loop, driver, sysrepo
  <2>2. AllDone'
    BY <1>t, <1>16 DEF StartNetopeer, AllDone, Done, driver, sysrepo
  <2>3. Opened'
    BY <1>t, <1>16 DEF StartNetopeer, Opened, driver
  <2>4. BeginsFresh' /\ Configuring' /\ Counting' /\ DoneSoFar'
    BY <1>16 DEF StartNetopeer, BeginsFresh, Configuring, Counting, DoneSoFar
  <2> QED
    BY <2>1, <2>2, <2>3, <2>4 DEF Inv
<1>17. CASE UNCHANGED vars
  BY <1>t, <1>17
  DEF Inv, vars, loop, driver, sysrepo, TypeOK, BeginsFresh, Configuring, Counting,
      DoneSoFar, AllDone, Opened, Done, Modules, Name
<1> QED
  BY <1>1, <1>2, <1>3, <1>4, <1>5, <1>6, <1>7, <1>8, <1>9,
     <1>10, <1>11, <1>12, <1>13, <1>14, <1>15, <1>16, <1>17 DEF Next

(* The invariant holds through every start, failed or not. *)
THEOREM Invariance == Spec => []Inv
  BY InitInv, NextInv, PTL DEF Spec

(* The types; a set-up failure is never recorded by setState. *)
THEOREM TypeCorrect == Spec => []TypeOK
  BY Invariance, PTL DEF Inv

(* A server that YangMgrService brings up has every module of the lists    *)
(* installed and active with its features, its sessions and netopeer.      *)
THEOREM Complete == Spec => []UpIsComplete
<1>1. Inv => UpIsComplete
  BY DEF Inv, UpIsComplete, AllDone, Opened, Done, Configured
<1> QED
  BY <1>1, Invariance, PTL
=============================================================================
