--------------------------- MODULE CarrierControl ---------------------------
(***************************************************************************)
(* What the user-plane configuration handler promises the operator of the  *)
(* radio.  A carrier is only ever switched as the running datastore has    *)
(* it: nothing a refused edit proposes reaches it.  The eAxC ids of the    *)
(* endpoints are promised less: those of an edit that would activate a     *)
(* carrier may reach the radio, and stay there, although it is refused.    *)
(***************************************************************************)
CONSTANTS
  Carrier,      \* the tx and rx array carriers a client can configure
  Config,       \* values of channel-bandwidth, centre frequency and gain
  NoConfig,     \* the parameters read back for a carrier that does not exist
  Endpoint,     \* the low-level tx and rx endpoints
  Eaxc, NoEaxc  \* their eAxC ids, and none

Active == {"INACTIVE", "SLEEP", "ACTIVE"}
Absent == "ABSENT"
Carriers  == [Carrier -> Active \union {Absent}]
Params    == [Carrier -> Config \union {NoConfig}]
Endpoints == [Endpoint -> Eaxc \union {NoEaxc}]

VARIABLES
  active,       \* running datastore: the carrier's "active" leaf, or Absent
  params,       \* running datastore: the carrier's radio parameters
  eaxc,         \* running datastore: the endpoint's eAxC id
  command,      \* what the HAL was last told to do, and accepted
  commandParams,\* with which parameters
  halEaxc       \* the eAxC ids the HAL was told

running == <<active, params, eaxc>>
radio   == <<command, commandParams>>

Init ==
  /\ active \in Carriers /\ params \in Params /\ eaxc \in Endpoints
  /\ command = [c \in Carrier |-> "INACTIVE"]
  /\ commandParams = [c \in Carrier |-> NoConfig]
  /\ halEaxc = [e \in Endpoint |-> NoEaxc]

(* The datastore accepts an edit.  If it activates a carrier, the radio may *)
(* take over eAxC ids of it at once.                                        *)
Accept ==
  /\ active' \in Carriers /\ params' \in Params /\ eaxc' \in Endpoints
  /\ halEaxc' \in Endpoints
  /\ halEaxc' # halEaxc =>
       /\ \E c \in Carrier : active'[c] = "ACTIVE" /\ active[c] # "ACTIVE"
       /\ \A e \in Endpoint : halEaxc'[e] \in {halEaxc[e], eaxc'[e]}
  /\ UNCHANGED radio

(* An edit that would activate a carrier is refused, but eAxC ids of it     *)
(* stay with the radio.                                                     *)
Refuse ==
  /\ \E c \in Carrier : active[c] # "ACTIVE"
  /\ halEaxc' \in Endpoints
  /\ UNCHANGED <<running, radio>>

(* The radio takes over one carrier as the datastore has it ... *)
Follow(c) ==
  /\ active[c] # Absent
  /\ command' = [command EXCEPT ![c] = active[c]]
  /\ commandParams' = [commandParams EXCEPT ![c] = params[c]]
  /\ UNCHANGED <<running, halEaxc>>

(* ... or one endpoint. *)
FollowEndpoint(e) ==
  /\ halEaxc' = [halEaxc EXCEPT ![e] = eaxc[e]]
  /\ UNCHANGED <<running, radio>>

(* The HAL starts again with the server. *)
Reset ==
  /\ command' = [c \in Carrier |-> "INACTIVE"]
  /\ commandParams' = [c \in Carrier |-> NoConfig]
  /\ halEaxc' = [e \in Endpoint |-> NoEaxc]
  /\ UNCHANGED running

Next ==
  \/ Accept \/ Refuse \/ Reset
  \/ \E c \in Carrier : Follow(c)
  \/ \E e \in Endpoint : FollowEndpoint(e)

Spec == Init /\ [][Next]_<<running, radio, halEaxc>>
=============================================================================
