--------------------------- MODULE UplaneCarriers ---------------------------
(***************************************************************************)
(* The o-ran-uplane-conf handler of mplane_server: how an edit of array    *)
(* carriers and endpoints travels through sysrepo's CHANGE and DONE        *)
(* callbacks (HandlerCallback, OranUplaneConfHandler) into the hardware    *)
(* abstraction layer, and how the HAL's state callback, on a thread of the *)
(* HAL, comes back as operational state and as a NETCONF notification.     *)
(*                                                                         *)
(* The tx and rx halves of the handler are the same code on two maps: a    *)
(* carrier here is one entry of either.  sysrepo runs one edit of the      *)
(* module at a time; only the HAL's threads run beside it.  Of the HAL     *)
(* nothing is assumed but that the reports of one carrier do not overlap:  *)
(* it may take or refuse any command, and report any state, before or      *)
(* after a command returns, or none.                                       *)
(***************************************************************************)
EXTENDS Naturals, FiniteSets

CONSTANTS
  Carrier, Config, NoConfig, Endpoint, Eaxc, NoEaxc, \* as in CarrierControl
  HalThreads   \* how many state callbacks the HAL may have under way

ASSUME ConfigAssumption ==
  /\ NoConfig \notin Config
  /\ NoEaxc \notin Eaxc

VARIABLES
  active, params, eaxc,  \* the running datastore, as in CarrierControl
  command, commandParams,\* what the HAL was told and accepted, likewise
  halEaxc,
  reported,              \* the carrier_state_t of the HAL's last report
  callback,              \* where the HAL thread is in the carrier's callback
  carrierState,          \* mTxCarrierState / mRxCarrierState
  notified,              \* the state a subscriber believes the carrier is in
  phase,                 \* the sysrepo event being handled
  named, todo, ends,     \* DONE: "name", "active" and eAxC leaves to process
  applying,              \* the carrier handleActivate calls the HAL for
  excused                \* history: carriers the HAL was left to activate, as
                         \* long as they stay INACTIVE, for a reason that
                         \* SilentWhenInactive names

running     == <<active, params, eaxc>>
radio       == <<command, commandParams>>
pending     == <<named, todo, ends, applying, excused>>
reports     == <<reported, callback>>
operational == <<carrierState, notified>>
vars        == <<running, radio, halEaxc, reports, operational, phase, pending>>

Control == INSTANCE CarrierControl

Active    == {"INACTIVE", "SLEEP", "ACTIVE"}
Absent    == "ABSENT"
State     == {"DISABLED", "BUSY", "READY"}
NoEntry   == ""
NoReport  == "NONE"
Carriers  == [Carrier -> Active \union {Absent}]
Params    == [Carrier -> Config \union {NoConfig}]
Endpoints == [Endpoint -> Eaxc \union {NoEaxc}]
Existing(act) == {c \in Carrier : act[c] # Absent}
Proper(act, par) == \A c \in Carrier : act[c] = Absent <=> par[c] = NoConfig

(* Faulty: the entry is made anew although it is already present. *)
FaultyUpdateCarrier(states, cs) ==
  [c \in Carrier |-> IF c \in cs THEN "DISABLED" ELSE states[c]]

(* The entry for a carrier in mTxCarrierState or mRxCarrierState: made      *)
(* DISABLED, and kept when it is there.                                     *)
UpdateCarrier(states, cs) ==
  [c \in Carrier |-> IF c \in cs /\ states[c] = NoEntry THEN "DISABLED" ELSE states[c]]

(* updateTxEndpointEaxc, updateRxEndpointEaxc: the HAL gets the eAxC ids.   *)
UpdateEaxc(es, eax) == [e \in Endpoint |-> IF e \in es THEN eax[e] ELSE halEaxc[e]]

(* Faulty: the carriers of the datastore are not read at start-up. *)
FaultyInitialised(act) == [c \in Carrier |-> NoEntry]

(* initialise: an entry for every carrier of the datastore, DISABLED.  The  *)
(* HAL is neither asked for the carriers' states nor told anything.         *)
Initialised(act) == UpdateCarrier([c \in Carrier |-> NoEntry], Existing(act))

Init ==
  /\ active \in Carriers /\ params \in Params /\ eaxc \in Endpoints
  /\ Proper(active, params)
  /\ command = [c \in Carrier |-> "INACTIVE"]
  /\ commandParams = [c \in Carrier |-> NoConfig]
  /\ halEaxc = [e \in Endpoint |-> NoEaxc]
  /\ reported = [c \in Carrier |-> NoReport]
  /\ callback = [c \in Carrier |-> "IDLE"]
  /\ carrierState = Initialised(active)
  /\ notified = [c \in Carrier |-> "DISABLED"]
  /\ phase = "IDLE"
  /\ named = {} /\ todo = {} /\ ends = {} /\ applying = {} /\ excused = {}
-----------------------------------------------------------------------------
(* Leaves of an edit that differ from the running datastore: "active" of a  *)
(* carrier, "name" of a new one, the eAxC id of an endpoint.                *)
Changed(act)    == {c \in Existing(act) : act[c] # active[c]}
Created(act)    == {c \in Changed(act) : active[c] = Absent}
Activating(act) == {c \in Changed(act) : act[c] = "ACTIVE"}
Resent(eax)     == {e \in Endpoint : eax[e] # eaxc[e] /\ eax[e] # NoEaxc}

(* validate applies leaves other than "active" to see whether the carriers  *)
(* can be made active.                                                      *)
AppliesRest(cs, es, eax) ==
  /\ carrierState' = UpdateCarrier(carrierState, cs)
  /\ halEaxc' = UpdateEaxc(es, eax)

(* The datastore has the edit, and SR_EV_DONE will walk its changes. *)
Commit(act, par, eax) ==
  /\ active' = act /\ params' = par /\ eaxc' = eax
  /\ named' = Created(act) /\ todo' = Changed(act) /\ ends' = Resent(eax)
  /\ phase' = "DONE"

(* validate returns an error, or another module's subscriber does and       *)
(* SR_EV_ABORT is ignored here.                                             *)
Abort == UNCHANGED <<running, named, todo, ends, phase>>

(* validate is through the leaves.  An edit that activates no carrier is    *)
(* not looked at; for each activation halmplane_*_carrier_state_change is   *)
(* asked, without applying it, and given the parameters of the running      *)
(* datastore, which does not have the edit yet.  It may say no to any.      *)
Validated(act, par, eax) ==
  /\ IF Activating(act) = {} THEN UNCHANGED <<carrierState, halEaxc>>
                             ELSE AppliesRest(Created(act), Resent(eax), eax)
  /\ Commit(act, par, eax) \/ Abort

(* The edit creates a link as well: its "name" leaf, wherever it stands     *)
(* among the leaves, ends validate with an error (processValue).            *)
LinkRefused(act, eax) ==
  /\ Activating(act) # {}
  /\ \E cs \in SUBSET Created(act), es \in SUBSET Resent(eax) : AppliesRest(cs, es, eax)
  /\ Abort

(* Faulty: the activation is applied while it is only to be validated. *)
FaultyHandleChange(act, par, eax) ==
  /\ phase = "IDLE"
  /\ Proper(act, par) /\ <<act, par, eax>> # running
  /\ Validated(act, par, eax)
  /\ command' = [c \in Carrier |-> IF c \in Activating(act) THEN act[c] ELSE command[c]]
  /\ excused' = {c \in excused : active'[c] = "INACTIVE"}
  /\ UNCHANGED <<commandParams, reports, notified, applying>>

(* A client's edit-config creates, changes and deletes carriers, changes    *)
(* endpoints and perhaps creates a link; SR_EV_CHANGE brings it to          *)
(* HandlerCallback::handleChangeEvent and validate, and sysrepo stores it   *)
(* or drops it.  What sysrepo does between the two events touches nothing   *)
(* that the HAL's threads use, and is part of the step.                     *)
HandleChange(act, par, eax) ==
  /\ phase = "IDLE"
  /\ Proper(act, par) /\ <<act, par, eax>> # running
  /\ Validated(act, par, eax) \/ LinkRefused(act, eax)
  /\ excused' = {c \in excused : active'[c] = "INACTIVE"}
  /\ UNCHANGED <<radio, reports, notified, applying>>

(* The "name" leaf of a created carrier: updateTxCarrier, updateRxCarrier. *)
DoneName(c) ==
  /\ phase = "DONE" /\ applying = {}
  /\ c \in named
  /\ named' = named \ {c}
  /\ carrierState' = UpdateCarrier(carrierState, {c})
  /\ UNCHANGED <<running, radio, halEaxc, reports, notified, phase>>
  /\ UNCHANGED <<todo, ends, applying, excused>>

(* The eAxC leaves of an endpoint: handleEaxc. *)
DoneEaxc(e) ==
  /\ phase = "DONE" /\ applying = {}
  /\ e \in ends
  /\ ends' = ends \ {e}
  /\ halEaxc' = UpdateEaxc({e}, eaxc)
  /\ UNCHANGED <<running, radio, reports, operational, phase>>
  /\ UNCHANGED <<named, todo, applying, excused>>

(* Faulty: a carrier that is still BUSY is taken for a silent one. *)
FaultySkipped(c) == active[c] = "INACTIVE" /\ carrierState[c] # "READY"

(* The "active" leaf: a carrier already DISABLED is not deactivated again. *)
Skipped(c) == active[c] = "INACTIVE" /\ carrierState[c] = "DISABLED"

(* The HAL's last report, if any has come through, is that the carrier is   *)
(* off; one that is just coming in does not count.                          *)
SaidDisabled(c) == reported[c] \in {NoReport, "DISABLED"} \/ callback[c] = "ENTER"

DoneActive(c) ==
  /\ phase = "DONE" /\ applying = {}
  /\ c \in todo \ named
  /\ todo' = todo \ {c}
  /\ applying' = IF Skipped(c) THEN {} ELSE {c}
  /\ excused' = IF SaidDisabled(c) /\ command[c] = "ACTIVE" /\ active[c] = "INACTIVE"
                THEN excused \union {c} ELSE excused \ {c}
  /\ UNCHANGED <<running, radio, halEaxc, reports, operational, phase, named, ends>>

(* handleActivate with VALUE_APPLY: the HAL takes the command ...           *)
Apply(c) ==
  /\ c \in applying
  /\ applying' = {}
  /\ command' = [command EXCEPT ![c] = active[c]]
  /\ commandParams' = [commandParams EXCEPT ![c] = params[c]]
  /\ excused' = excused \ {c}
  /\ UNCHANGED <<running, halEaxc, reports, operational, phase>>
  /\ UNCHANGED <<named, todo, ends>>

(* ... or refuses it, and valueChange does not look at the result.          *)
ApplyRefused(c) ==
  /\ c \in applying
  /\ applying' = {}
  /\ excused' = IF active[c] = "INACTIVE" /\ command[c] = "ACTIVE"
                THEN excused \union {c} ELSE excused
  /\ UNCHANGED <<running, radio, halEaxc, reports, operational, phase>>
  /\ UNCHANGED <<named, todo, ends>>

(* The last change has been processed and the callback returns. *)
DoneReturn ==
  /\ phase = "DONE" /\ todo = {} /\ named = {} /\ ends = {} /\ applying = {}
  /\ phase' = "IDLE"
  /\ UNCHANGED <<running, radio, halEaxc, reports, operational, pending>>
-----------------------------------------------------------------------------
(* A thread of the HAL, or the one that is in Apply, enters the callback    *)
(* with whatever state the hardware is in.                                  *)
Report(c, s) ==
  /\ callback[c] = "IDLE"
  /\ Cardinality({d \in Carrier : callback[d] # "IDLE"}) < HalThreads
  /\ reported' = [reported EXCEPT ![c] = s]
  /\ callback' = [callback EXCEPT ![c] = "ENTER"]
  /\ UNCHANGED <<running, radio, halEaxc, operational, phase, pending>>

(* Faulty: the old state is read after the new one has been stored. *)
FaultyCallbackStore(c) ==
  /\ callback[c] = "ENTER"
  /\ callback' = [callback EXCEPT ![c] = "IDLE"]
  /\ carrierState' = [carrierState EXCEPT ![c] = reported[c]]
  /\ UNCHANGED <<running, radio, halEaxc, reported, notified, phase, pending>>

(* tx/rxCarrierStateCallback, up to the store in the map ... *)
CallbackStore(c) ==
  /\ callback[c] = "ENTER"
  /\ LET old == UpdateCarrier(carrierState, {c})[c]
     IN  callback' = [callback EXCEPT ![c] = IF old = reported[c] THEN "IDLE" ELSE "NOTIFY"]
  /\ carrierState' = [carrierState EXCEPT ![c] = reported[c]]
  /\ UNCHANGED <<running, radio, halEaxc, reported, notified, phase, pending>>

(* ... and carrierChangeNotification, when the state is a new one. *)
CallbackNotify(c) ==
  /\ callback[c] = "NOTIFY"
  /\ notified' = [notified EXCEPT ![c] = reported[c]]
  /\ callback' = [callback EXCEPT ![c] = "IDLE"]
  /\ UNCHANGED <<running, radio, halEaxc, reported, carrierState, phase, pending>>

(* The server process ends, at any point, and initialise runs again.  The   *)
(* datastore is sysrepo's and stays; the hardware is as it was, or starts   *)
(* again too.  A client that reconnects reads the operational state anew.   *)
HalStartsAgain ==
  /\ command' = [c \in Carrier |-> "INACTIVE"]
  /\ commandParams' = [c \in Carrier |-> NoConfig]
  /\ halEaxc' = [e \in Endpoint |-> NoEaxc]

Restart ==
  /\ HalStartsAgain \/ UNCHANGED <<radio, halEaxc>>
  /\ reported' = [c \in Carrier |-> NoReport]
  /\ callback' = [c \in Carrier |-> "IDLE"]
  /\ carrierState' = Initialised(active)
  /\ notified' = [c \in Carrier |-> "DISABLED"]
  /\ phase' = "IDLE"
  /\ named' = {} /\ todo' = {} /\ ends' = {} /\ applying' = {}
  /\ excused' = {c \in Carrier : active[c] = "INACTIVE" /\ command'[c] = "ACTIVE"}
  /\ UNCHANGED running

Next ==
  \/ /\ phase = "IDLE"
     /\ \E act \in Carriers, par \in Params :
          Proper(act, par) /\ \E eax \in Endpoints : HandleChange(act, par, eax)
  \/ \E c \in Carrier : DoneName(c) \/ DoneActive(c) \/ Apply(c) \/ ApplyRefused(c)
  \/ \E e \in Endpoint : DoneEaxc(e)
  \/ DoneReturn \/ Restart
  \/ \E c \in Carrier, s \in State : Report(c, s)
  \/ \E c \in Carrier : CallbackStore(c) \/ CallbackNotify(c)

Spec == Init /\ [][Next]_vars
-----------------------------------------------------------------------------
Types ==
  /\ active \in Carriers /\ params \in Params /\ eaxc \in Endpoints
  /\ command \in [Carrier -> Active]
  /\ commandParams \in Params
  /\ halEaxc \in Endpoints
  /\ reported \in [Carrier -> State \union {NoReport}]
  /\ callback \in [Carrier -> {"IDLE", "ENTER", "NOTIFY"}]
  /\ carrierState \in [Carrier -> State \union {NoEntry}]
  /\ notified \in [Carrier -> State]
  /\ phase \in {"IDLE", "DONE"}
  /\ named \subseteq todo /\ todo \subseteq Carrier /\ applying \subseteq Carrier
  /\ ends \subseteq Endpoint /\ excused \subseteq Carrier

Bookkeeping ==
  /\ phase # "DONE" => todo = {} /\ ends = {} /\ applying = {}
  /\ applying \intersect todo = {}
  /\ \A c, d \in applying : c = d
  /\ \A c \in todo \union applying : active[c] # Absent
  /\ \A c \in Carrier \ named : active[c] # Absent => carrierState[c] # NoEntry

(* The types, and the callback's bookkeeping: changes are pending in the    *)
(* DONE phase alone, one is applied at a time, and every carrier of the     *)
(* datastore whose "name" leaf has been processed has an entry in the state *)
(* map (initialise, updateTxCarrier, updateRxCarrier).                      *)
TypeOK == Types /\ Bookkeeping

(* Once an edit is done, a carrier the datastore has INACTIVE is one the    *)
(* HAL was not left to activate, unless the HAL refused the deactivation,   *)
(* or had itself reported the carrier DISABLED, or nothing since the server *)
(* started, when it was due (processValue, "activated or deactivated        *)
(* (transition)"), or the server was restarted before.  No edit, deletion   *)
(* or re-creation makes the handler take a carrier for DISABLED that the    *)
(* HAL called BUSY or READY.                                                *)
SilentWhenInactive ==
  \A c \in Carrier :
    active[c] = "INACTIVE" /\ c \notin todo \union applying \union excused =>
      command[c] # "ACTIVE"

(* Outside the callback, the operational state the handler serves is the    *)
(* last one the HAL has reported, and DISABLED before the first: neither a  *)
(* re-created carrier nor a rejected edit overwrites an entry               *)
(* (updateTxCarrier, "skip if already present").                            *)
OperationalIsReported ==
  \A c \in Carrier :
    carrierState[c] # NoEntry /\ callback[c] # "ENTER" =>
      carrierState[c] = IF reported[c] = NoReport THEN "DISABLED" ELSE reported[c]

(* A subscriber that follows tx/rx-array-carriers-state-change knows the    *)
(* operational state: carrierChangeNotification skips no change.            *)
NotifiedIsOperational ==
  \A c \in Carrier :
    carrierState[c] # NoEntry /\ callback[c] # "NOTIFY" => notified[c] = carrierState[c]

(* The HAL switches a carrier only as the running datastore has it.  What   *)
(* an edit that is refused proposes reaches the HAL for endpoints alone,    *)
(* and only when the edit would activate a carrier (validate: "ideally this *)
(* whole transaction would cause no changes if it's rejected").             *)
FollowsDatastore == Control!Spec

(* A carrier without an entry is one the HAL has not reported since the     *)
(* server started: the entry it may get says DISABLED, as it should.        *)
NothingWithoutEntry ==
  \A c \in Carrier : carrierState[c] = NoEntry =>
    /\ callback[c] = "ENTER" \/ reported[c] = NoReport
    /\ notified[c] = "DISABLED" /\ callback[c] # "NOTIFY"

(* A report is there while a callback is under way. *)
CallbackHasReport ==
  \A c \in Carrier : callback[c] # "IDLE" => reported[c] # NoReport

(* The inductive invariant. *)
Inv ==
  /\ TypeOK
  /\ NothingWithoutEntry
  /\ CallbackHasReport
  /\ OperationalIsReported
  /\ NotifiedIsOperational
  /\ SilentWhenInactive
-----------------------------------------------------------------------------
(* Stated, and refuted by the code: these have no run of their own.         *)

(* Every deactivation reaches the HAL.  It does not when the HAL has not    *)
(* reported the activation yet, or the server was restarted since.          *)
DeactivationPassedOn ==
  \A c \in Carrier :
    active[c] = "INACTIVE" /\ c \notin todo \union applying => command[c] # "ACTIVE"

(* An edit that is refused leaves the HAL as it was (validate's comment     *)
(* says that it does not).                                                  *)
RefusedLeavesNoTrace ==
  [][\A act \in Carriers, par \in Params, eax \in Endpoints :
       HandleChange(act, par, eax) /\ Abort => UNCHANGED halEaxc]_vars

(* What validate has asked the HAL about is what the edit proposes          *)
(* (YangHandlerSysrepoUnlogged.h, "have this class validate the proposed    *)
(* values changes"): but the parameters were those of the datastore.        *)
ValidatedIsProposed ==
  [][phase = "IDLE" /\ phase' = "DONE" =>
       \A c \in Carrier :
         active'[c] = "ACTIVE" /\ active[c] # "ACTIVE" => params[c] = params'[c]]_vars

(* What the datastore has accepted the HAL is doing, once the edit is done: *)
(* valueChange drops the HAL's refusal.                                     *)
AcceptedIsApplied ==
  [][\A c \in Carrier : c \in applying /\ c \notin applying' /\ phase' = "DONE" =>
       command'[c] = active[c]]_vars

(* The YANG model's "active": a carrier in SLEEP takes no other request     *)
(* than to become ACTIVE or to be deleted.                                  *)
SleepRefusesRest ==
  [][\A c \in Carrier : active[c] = "SLEEP" => active'[c] # "INACTIVE"]_vars

(* The YANG model's "active": an ACTIVE carrier is providing the signal.    *)
(* Not one that the datastore has ACTIVE when the server starts.            *)
ActiveIsProvided ==
  \A c \in Carrier : phase = "IDLE" /\ active[c] = "ACTIVE" => command[c] = "ACTIVE"
=============================================================================
