------------------------ MODULE UplaneCarriersProofs ------------------------
(***************************************************************************)
(* Proofs about UplaneCarriers, for every set of carriers, parameters and  *)
(* endpoints and whatever the HAL takes, refuses and reports.  Inv is      *)
(* split into what it says of one carrier (Local, Silent) and of the DONE  *)
(* callback (Bookkeeping): a step touches one carrier or none, so each     *)
(* action has a lemma that looks at that carrier alone.  The safety        *)
(* theorems follow from Inv; the refinement maps validate's work on an     *)
(* edit to CarrierControl's Accept and Refuse, and the HAL's acceptance of *)
(* a command to its Follow.                                                *)
(***************************************************************************)
EXTENDS UplaneCarriers, TLAPS

USE DEF Active, Absent, State, NoEntry, NoReport

(* What the invariant says of one carrier. *)
Local(c) ==
  /\ carrierState[c] = NoEntry =>
       /\ callback[c] = "ENTER" \/ reported[c] = NoReport
       /\ notified[c] = "DISABLED" /\ callback[c] # "NOTIFY"
  /\ callback[c] # "IDLE" => reported[c] # NoReport
  /\ carrierState[c] # NoEntry /\ callback[c] # "ENTER" =>
       carrierState[c] = IF reported[c] = NoReport THEN "DISABLED" ELSE reported[c]
  /\ carrierState[c] # NoEntry /\ callback[c] # "NOTIFY" => notified[c] = carrierState[c]

(* A deactivation is done, still to do, or excused. *)
Silent(c) ==
  active[c] = "INACTIVE" /\ c \notin todo \union applying \union excused =>
    command[c] # "ACTIVE"

Same(c) ==
  /\ reported'[c] = reported[c] /\ callback'[c] = callback[c]
  /\ notified'[c] = notified[c] /\ carrierState'[c] = carrierState[c]

LEMMA InvParts ==
  Inv <=> /\ Types /\ Bookkeeping
          /\ \A c \in Carrier : Local(c) /\ Silent(c)
BY DEF Inv, TypeOK, Local, Silent, NothingWithoutEntry, CallbackHasReport,
       OperationalIsReported, NotifiedIsOperational, SilentWhenInactive

LEMMA InvPartsNext ==
  ASSUME Types', Bookkeeping', \A c \in Carrier : Local(c)' /\ Silent(c)'
  PROVE  Inv'
BY DEF Inv, TypeOK, Local, Silent, NothingWithoutEntry, CallbackHasReport,
       OperationalIsReported, NotifiedIsOperational, SilentWhenInactive

(* A step that leaves a carrier's reports and states alone keeps what holds *)
(* of them.                                                                 *)
LEMMA SameLocal ==
  ASSUME NEW c \in Carrier, Local(c), Same(c)
  PROVE  Local(c)'
BY DEF Local, Same

(* An entry, once made, keeps its state: the map only ever gains entries   *)
(* (updateTxCarrier, updateRxCarrier).                                     *)
LEMMA UpdateKeeps ==
  ASSUME NEW states \in [Carrier -> State \union {NoEntry}], NEW cs \in SUBSET Carrier
  PROVE  /\ UpdateCarrier(states, cs) \in [Carrier -> State \union {NoEntry}]
         /\ \A c \in Carrier : states[c] # NoEntry =>
              UpdateCarrier(states, cs)[c] = states[c]
         /\ \A c \in Carrier : states[c] = NoEntry =>
              UpdateCarrier(states, cs)[c] = IF c \in cs THEN "DISABLED" ELSE NoEntry
BY DEF UpdateCarrier

LEMMA InitialisedEntries ==
  ASSUME NEW act \in Carriers
  PROVE  /\ Initialised(act) \in [Carrier -> State \union {NoEntry}]
         /\ \A c \in Carrier : Initialised(act)[c] \in {NoEntry, "DISABLED"}
         /\ \A c \in Carrier : act[c] # Absent => Initialised(act)[c] # NoEntry
BY DEF Initialised, UpdateCarrier, Existing, Carriers

(* The HAL's eAxC ids are the old ones but for the endpoints told. *)
LEMMA UpdateEaxcIds ==
  ASSUME Types, NEW es \in SUBSET Endpoint, NEW eax \in Endpoints
  PROVE  /\ UpdateEaxc(es, eax) \in Endpoints
         /\ \A e \in Endpoint : UpdateEaxc(es, eax)[e] \in {halEaxc[e], eax[e]}
BY DEF UpdateEaxc, Endpoints, Types

(* A new entry says DISABLED, and nothing has been reported to contradict. *)
LEMMA NewEntry ==
  ASSUME NEW c \in Carrier, Local(c),
         reported'[c] = reported[c], callback'[c] = callback[c], notified'[c] = notified[c],
         \/ carrierState'[c] = carrierState[c]
         \/ carrierState[c] = NoEntry /\ carrierState'[c] = "DISABLED"
  PROVE  Local(c)'
BY DEF Local

(* validate's work on the entries and on the HAL's endpoints. *)
LEMMA ChangeEffect ==
  ASSUME Inv, NEW act \in Carriers, NEW par \in Params, NEW eax \in Endpoints,
         HandleChange(act, par, eax)
  PROVE  /\ carrierState' \in [Carrier -> State \union {NoEntry}]
         /\ \A d \in Carrier : carrierState[d] # NoEntry =>
              carrierState'[d] = carrierState[d]
         /\ \A d \in Carrier : carrierState[d] = NoEntry =>
              carrierState'[d] \in {NoEntry, "DISABLED"}
         /\ halEaxc' \in Endpoints
         /\ \A e \in Endpoint : halEaxc'[e] \in {halEaxc[e], eax[e]}
         /\ halEaxc' # halEaxc => Activating(act) # {}
<1>0. Types /\ carrierState \in [Carrier -> State \union {NoEntry}] /\ halEaxc \in Endpoints
  BY InvParts DEF Types
<1>1. CASE UNCHANGED <<carrierState, halEaxc>>
  BY <1>0, <1>1
<1>2. ASSUME NEW cs \in SUBSET Created(act), NEW es \in SUBSET Resent(eax),
             AppliesRest(cs, es, eax), Activating(act) # {}
      PROVE  /\ carrierState' \in [Carrier -> State \union {NoEntry}]
             /\ \A d \in Carrier : carrierState[d] # NoEntry =>
              carrierState'[d] = carrierState[d]
             /\ \A d \in Carrier : carrierState[d] = NoEntry =>
                  carrierState'[d] \in {NoEntry, "DISABLED"}
             /\ halEaxc' \in Endpoints
             /\ \A e \in Endpoint : halEaxc'[e] \in {halEaxc[e], eax[e]}
             /\ halEaxc' # halEaxc => Activating(act) # {}
  <2>1. cs \in SUBSET Carrier /\ es \in SUBSET Endpoint
    BY DEF Created, Changed, Existing, Resent
  <2>2. carrierState' = UpdateCarrier(carrierState, cs) /\ halEaxc' = UpdateEaxc(es, eax)
    BY <1>2 DEF AppliesRest
  <2>3. /\ UpdateEaxc(es, eax) \in Endpoints
        /\ \A e \in Endpoint : UpdateEaxc(es, eax)[e] \in {halEaxc[e], eax[e]}
    BY <1>0, <2>1, UpdateEaxcIds
  <2>4. /\ halEaxc' \in Endpoints
        /\ \A e \in Endpoint : halEaxc'[e] \in {halEaxc[e], eax[e]}
    BY <2>2, <2>3
  <2>5. /\ UpdateCarrier(carrierState, cs) \in [Carrier -> State \union {NoEntry}]
        /\ \A c \in Carrier : carrierState[c] # NoEntry =>
             UpdateCarrier(carrierState, cs)[c] = carrierState[c]
        /\ \A c \in Carrier : carrierState[c] = NoEntry =>
             UpdateCarrier(carrierState, cs)[c] = IF c \in cs THEN "DISABLED" ELSE NoEntry
    <3> HIDE DEF State
    <3> QED BY <1>0, <2>1, UpdateKeeps
  <2> HIDE DEF State
  <2> QED BY <1>2, <2>2, <2>4, <2>5
<1>3. CASE Validated(act, par, eax)
  BY <1>1, <1>2, <1>3 DEF Validated
<1>4. CASE LinkRefused(act, eax)
  BY <1>2, <1>4 DEF LinkRefused
<1> QED BY <1>3, <1>4 DEF HandleChange

LEMMA ChangeCases ==
  ASSUME NEW act \in Carriers, NEW par \in Params, NEW eax \in Endpoints,
         HandleChange(act, par, eax)
  PROVE  /\ phase = "IDLE"
         /\ Commit(act, par, eax) \/ Abort
         /\ UNCHANGED <<command, commandParams, reported, callback, notified>>
         /\ UNCHANGED applying
         /\ excused' = {c \in excused : active'[c] = "INACTIVE"}
BY DEF HandleChange, Validated, LinkRefused, radio, reports

LEMMA HandleChangeStep ==
  ASSUME NEW act \in Carriers, NEW par \in Params, NEW eax \in Endpoints,
         Inv, HandleChange(act, par, eax)
  PROVE  Inv'
<1> USE InvParts
<1>1. Types /\ Bookkeeping /\ phase = "IDLE"
  BY ChangeCases
<1>2. /\ carrierState' \in [Carrier -> State \union {NoEntry}]
      /\ \A d \in Carrier : carrierState[d] # NoEntry => carrierState'[d] = carrierState[d]
      /\ \A d \in Carrier : carrierState[d] = NoEntry =>
           carrierState'[d] \in {NoEntry, "DISABLED"}
      /\ halEaxc' \in Endpoints
  BY ChangeEffect
<1>3. /\ UNCHANGED <<command, commandParams, reported, callback, notified, applying>>
      /\ excused' = {c \in excused : active'[c] = "INACTIVE"}
  BY ChangeCases
<1>4. ASSUME NEW d \in Carrier PROVE Local(d)'
  BY <1>2, <1>3, NewEntry
<1>5. CASE Commit(act, par, eax)
  <2>1. /\ active' = act /\ params' = par /\ eaxc' = eax /\ phase' = "DONE"
        /\ named' = Created(act) /\ todo' = Changed(act) /\ ends' = Resent(eax)
    BY <1>5 DEF Commit
  <2>2. Types'
    BY <1>1, <1>2, <1>3, <2>1 DEF Types, Created, Changed, Existing, Resent
  <2>3. Bookkeeping'
    <3>1. applying' = {} /\ named = {}
      BY <1>1, <1>3 DEF Bookkeeping, Types
    <3>2. \A d \in Carrier \ named' : active'[d] # Absent => carrierState'[d] # NoEntry
      BY <1>1, <1>2, <2>1, <3>1 DEF Bookkeeping, Created, Changed, Existing, Types
    <3> QED BY <2>1, <3>1, <3>2 DEF Bookkeeping, Changed, Existing
  <2>4. ASSUME NEW d \in Carrier PROVE Silent(d)'
    BY <1>1, <1>3, <2>1 DEF Silent, Bookkeeping, Changed, Existing
  <2> QED BY <1>4, <2>2, <2>3, <2>4, InvPartsNext
<1>6. CASE Abort
  <2>1. UNCHANGED <<active, params, eaxc, named, todo, ends, phase>>
    BY <1>6 DEF Abort, running
  <2>2. Types'
    BY <1>1, <1>2, <1>3, <2>1 DEF Types
  <2>3. Bookkeeping'
    BY <1>1, <1>2, <1>3, <2>1 DEF Bookkeeping
  <2>4. ASSUME NEW d \in Carrier PROVE Silent(d)'
    BY <1>3, <2>1 DEF Silent
  <2> QED BY <1>4, <2>2, <2>3, <2>4, InvPartsNext
<1> QED BY <1>5, <1>6, ChangeCases

LEMMA DoneNameStep ==
  ASSUME NEW c \in Carrier, Inv, DoneName(c)
  PROVE  Inv'
<1> USE InvParts DEF running, radio, reports
<1> DEFINE E == UpdateCarrier(carrierState, {c})
<1>1. /\ E \in [Carrier -> State \union {NoEntry}]
      /\ \A d \in Carrier : carrierState[d] # NoEntry => E[d] = carrierState[d]
      /\ \A d \in Carrier : carrierState[d] = NoEntry =>
           E[d] = IF d \in {c} THEN "DISABLED" ELSE NoEntry
  <2>1. {c} \in SUBSET Carrier /\ carrierState \in [Carrier -> State \union {NoEntry}]
    BY DEF Types
  <2> QED BY <2>1, UpdateKeeps
<1>2. carrierState' = E
  BY DEF DoneName
<1> HIDE DEF E
<1>3. /\ named' = named \ {c} /\ phase = "DONE"
      /\ UNCHANGED <<active, params, eaxc, command, commandParams, halEaxc>>
      /\ UNCHANGED <<reported, callback, notified, phase, todo, ends, applying, excused>>
  BY DEF DoneName
<1>4. Types'
  BY <1>1, <1>2, <1>3 DEF Types
<1>5. Bookkeeping'
  <2>1. \A d \in Carrier \ named' : active'[d] # Absent => carrierState'[d] # NoEntry
    BY <1>1, <1>2, <1>3 DEF Bookkeeping
  <2> QED BY <1>3, <2>1 DEF Bookkeeping
<1>6. ASSUME NEW d \in Carrier PROVE Local(d)' /\ Silent(d)'
  <2>1. Local(d)'
    BY <1>1, <1>2, <1>3, NewEntry
  <2>2. Silent(d)'
    BY <1>3 DEF Silent
  <2> QED BY <2>1, <2>2
<1> QED BY <1>4, <1>5, <1>6, InvPartsNext

LEMMA DoneEaxcStep ==
  ASSUME NEW e \in Endpoint, Inv, DoneEaxc(e)
  PROVE  Inv'
<1> USE InvParts DEF running, radio, reports, operational, pending
<1>1. halEaxc' \in Endpoints
  <2>1. Types /\ {e} \in SUBSET Endpoint /\ eaxc \in Endpoints
    BY DEF Types
  <2> QED BY <2>1, UpdateEaxcIds DEF DoneEaxc
<1>2. Types'
  BY <1>1 DEF Types, DoneEaxc
<1>3. Bookkeeping'
  BY DEF Types, Bookkeeping, DoneEaxc
<1>4. ASSUME NEW d \in Carrier PROVE Local(d)' /\ Silent(d)'
  <2>1. Same(d)
    BY DEF Same, DoneEaxc
  <2>2. Silent(d)'
    BY DEF Silent, DoneEaxc
  <2> QED BY <2>1, <2>2, SameLocal
<1> QED BY <1>2, <1>3, <1>4, InvPartsNext

LEMMA DoneReturnStep ==
  ASSUME Inv, DoneReturn
  PROVE  Inv'
<1> USE InvParts DEF running, radio, reports, operational, pending
<1>1. Types'
  BY DEF Types, DoneReturn
<1>2. Bookkeeping'
  BY DEF Types, Bookkeeping, DoneReturn
<1>3. ASSUME NEW d \in Carrier PROVE Local(d)' /\ Silent(d)'
  <2>1. Same(d)
    BY DEF Same, DoneReturn
  <2>2. Silent(d)'
    BY DEF Silent, Types, Bookkeeping, DoneReturn
  <2> QED BY <2>1, <2>2, SameLocal
<1> QED BY <1>1, <1>2, <1>3, InvPartsNext

(* What is skipped was reported DISABLED, or not at all: it is excused. *)
LEMMA DoneActiveStep ==
  ASSUME NEW c \in Carrier, Inv, DoneActive(c)
  PROVE  Inv'
<1> USE InvParts DEF running, radio, reports, operational, pending
<1>1. /\ phase = "DONE" /\ applying = {} /\ c \in todo /\ applying' \subseteq {c}
      /\ todo' = todo \ {c} /\ (excused' = excused \union {c} \/ excused' = excused \ {c})
      /\ c \notin named
      /\ UNCHANGED <<active, params, eaxc, command, commandParams, halEaxc>>
      /\ UNCHANGED <<phase, named, ends>>
      /\ UNCHANGED <<reported, callback, carrierState, notified>>
  BY DEF DoneActive
<1>2. Types /\ Bookkeeping
  OBVIOUS
<1>3. Types'
  BY <1>1, <1>2 DEF Types
<1>4. Bookkeeping'
  <2>1. todo \subseteq Carrier
    BY <1>2 DEF Types
  <2> QED BY <1>1, <1>2, <2>1 DEF Bookkeeping
<1>5. ASSUME NEW d \in Carrier PROVE Local(d)' /\ Silent(d)'
  <2>1. Same(d)
    BY <1>1 DEF Same
  <2>2. CASE d # c
    <3>1. Silent(d) /\ (d \in excused' <=> d \in excused)
      BY <1>1, <2>2
    <3>2. Silent(d)'
      BY <1>1, <2>2, <3>1 DEF Silent
    <3> QED BY <2>1, <3>2, SameLocal
  <2>3. CASE d = c /\ Skipped(c)
    <3>1. carrierState[c] = "DISABLED" /\ active[c] = "INACTIVE" /\ Local(c)
      BY <2>3 DEF Skipped
    <3>2. SaidDisabled(c)
      BY <3>1 DEF Local, SaidDisabled
    <3>3. command[c] = "ACTIVE" => c \in excused'
      BY <3>1, <3>2 DEF DoneActive
    <3>4. Silent(c)'
      BY <1>1, <3>3 DEF Silent
    <3> QED BY <2>1, <2>3, <3>4, SameLocal
  <2>4. CASE d = c /\ ~Skipped(c)
    <3>1. c \in applying'
      BY <2>4 DEF DoneActive
    <3> QED BY <2>1, <2>4, <3>1, SameLocal DEF Silent
  <2> QED BY <2>2, <2>3, <2>4
<1> QED BY <1>3, <1>4, <1>5, InvPartsNext

LEMMA ApplyStep ==
  ASSUME NEW c \in Carrier, Inv, Apply(c)
  PROVE  Inv'
<1> USE InvParts DEF running, radio, reports, operational, pending
<1>1. applying = {c} /\ applying' = {} /\ phase = "DONE" /\ active[c] \in Active
  <2>1. c \in applying /\ applying' = {}
    BY DEF Apply
  <2>2. applying = {c} /\ phase = "DONE" /\ active[c] # Absent
    BY <2>1 DEF Types, Bookkeeping
  <2>3. active[c] \in Active \union {Absent}
    BY DEF Types, Carriers
  <2> QED BY <2>1, <2>2, <2>3
<1>2. /\ command' = [command EXCEPT ![c] = active[c]]
      /\ commandParams' = [commandParams EXCEPT ![c] = params[c]]
      /\ excused' = excused \ {c}
      /\ UNCHANGED <<active, params, eaxc, halEaxc, phase, named, todo, ends>>
      /\ UNCHANGED <<reported, callback, carrierState, notified>>
  BY DEF Apply
<1>3. Types /\ Bookkeeping
  OBVIOUS
<1>4. Types'
  <2>1. command' \in [Carrier -> Active] /\ commandParams' \in Params
    BY <1>1, <1>2, <1>3 DEF Types, Params
  <2> QED BY <1>1, <1>2, <1>3, <2>1 DEF Types
<1>5. Bookkeeping'
  BY <1>1, <1>2, <1>3 DEF Bookkeeping
<1>6. ASSUME NEW d \in Carrier PROVE Local(d)' /\ Silent(d)'
  <2>1. Same(d)
    BY <1>2 DEF Same
  <2>2. command'[d] = IF d = c THEN active[c] ELSE command[d]
    BY <1>2, <1>3 DEF Types
  <2>3. Silent(d)'
    BY <1>1, <1>2, <2>2 DEF Silent
  <2> QED BY <2>1, <2>3, SameLocal
<1> QED BY <1>4, <1>5, <1>6, InvPartsNext

LEMMA ApplyRefusedStep ==
  ASSUME NEW c \in Carrier, Inv, ApplyRefused(c)
  PROVE  Inv'
<1> USE InvParts DEF running, radio, reports, operational, pending
<1>1. applying = {c} /\ applying' = {} /\ phase = "DONE"
  <2>1. c \in applying /\ applying' = {}
    BY DEF ApplyRefused
  <2> QED BY <2>1 DEF Types, Bookkeeping
<1>2. /\ excused' = IF active[c] = "INACTIVE" /\ command[c] = "ACTIVE"
                    THEN excused \union {c} ELSE excused
      /\ UNCHANGED <<active, params, eaxc, command, commandParams, halEaxc, phase>>
      /\ UNCHANGED <<named, todo, ends, reported, callback, carrierState, notified>>
  BY DEF ApplyRefused
<1>3. Types /\ Bookkeeping
  OBVIOUS
<1>4. Types'
  BY <1>1, <1>2, <1>3 DEF Types
<1>5. Bookkeeping'
  BY <1>1, <1>2, <1>3 DEF Bookkeeping
<1>6. ASSUME NEW d \in Carrier PROVE Local(d)' /\ Silent(d)'
  <2>1. Same(d)
    BY <1>2 DEF Same
  <2>2. Silent(d)'
    BY <1>1, <1>2 DEF Silent
  <2> QED BY <2>1, <2>2, SameLocal
<1> QED BY <1>4, <1>5, <1>6, InvPartsNext

LEMMA ReportStep ==
  ASSUME NEW c \in Carrier, NEW s \in State, Inv, Report(c, s)
  PROVE  Inv'
<1> USE InvParts DEF running, radio, reports, operational, pending
<1>1. Types'
  BY DEF Types, Report
<1>2. Bookkeeping'
  BY DEF Types, Bookkeeping, Report
<1>3. ASSUME NEW d \in Carrier PROVE Local(d)' /\ Silent(d)'
  <2>0. Silent(d)'
    BY DEF Silent, Report
  <2>1. CASE d # c
    <3>1. Same(d)
      BY <2>1 DEF Same, Types, Report
    <3> QED BY <2>0, <3>1, SameLocal
  <2>2. CASE d = c
    <3>1. /\ callback[c] = "IDLE" /\ callback'[c] = "ENTER" /\ reported'[c] = s
          /\ notified'[c] = notified[c] /\ carrierState'[c] = carrierState[c]
      BY DEF Types, Report
    <3>2. Local(c) /\ callback[c] \in {"IDLE", "ENTER", "NOTIFY"}
          /\ carrierState[c] \in State \union {NoEntry}
          /\ reported[c] \in State \union {NoReport}
      BY DEF Types
    <3>9. Local(c)'
      BY <3>1, <3>2 DEF Local
    <3> QED BY <2>0, <2>2, <3>9
  <2> QED BY <2>1, <2>2
<1> QED BY <1>1, <1>2, <1>3, InvPartsNext

LEMMA CallbackStoreStep ==
  ASSUME NEW c \in Carrier, Inv, CallbackStore(c)
  PROVE  Inv'
<1> USE InvParts DEF running, radio, reports, operational, pending
<1> DEFINE Old == UpdateCarrier(carrierState, {c})[c]
<1>1. Types'
  <2>1. reported[c] \in State
    BY DEF Types, Local, CallbackStore
  <2> QED BY <2>1 DEF Types, CallbackStore
<1>2. Bookkeeping'
  BY DEF Types, Bookkeeping, CallbackStore
<1>3. ASSUME NEW d \in Carrier PROVE Local(d)' /\ Silent(d)'
  <2>0. Silent(d)'
    BY DEF Silent, CallbackStore
  <2>1. CASE d # c
    <3>1. Same(d)
      BY <2>1 DEF Same, Types, CallbackStore
    <3> QED BY <2>0, <3>1, SameLocal
  <2>2. CASE d = c
    <3>1. /\ callback[c] = "ENTER" /\ reported'[c] = reported[c]
          /\ callback'[c] = IF Old = reported[c] THEN "IDLE" ELSE "NOTIFY"
          /\ notified'[c] = notified[c] /\ carrierState'[c] = reported[c]
      BY DEF Types, CallbackStore
    <3>2. Local(c) /\ callback[c] \in {"IDLE", "ENTER", "NOTIFY"}
          /\ carrierState[c] \in State \union {NoEntry}
          /\ reported[c] \in State \union {NoReport}
      BY DEF Types
    <3>3. Old = IF carrierState[c] = NoEntry THEN "DISABLED" ELSE carrierState[c]
      BY DEF UpdateCarrier
    <3> HIDE DEF Old
    <3>9. Local(c)'
      BY <3>1, <3>2, <3>3 DEF Local
    <3> QED BY <2>0, <2>2, <3>9
  <2> QED BY <2>1, <2>2
<1> QED BY <1>1, <1>2, <1>3, InvPartsNext

LEMMA CallbackNotifyStep ==
  ASSUME NEW c \in Carrier, Inv, CallbackNotify(c)
  PROVE  Inv'
<1> USE InvParts DEF running, radio, reports, operational, pending
<1>1. Types'
  <2>1. reported[c] \in State
    BY DEF Types, Local, CallbackNotify
  <2> QED BY <2>1 DEF Types, CallbackNotify
<1>2. Bookkeeping'
  BY DEF Types, Bookkeeping, CallbackNotify
<1>3. ASSUME NEW d \in Carrier PROVE Local(d)' /\ Silent(d)'
  <2>0. Silent(d)'
    BY DEF Silent, CallbackNotify
  <2>1. CASE d # c
    <3>1. Same(d)
      BY <2>1 DEF Same, Types, CallbackNotify
    <3> QED BY <2>0, <3>1, SameLocal
  <2>2. CASE d = c
    <3>1. /\ callback[c] = "NOTIFY" /\ callback'[c] = "IDLE" /\ reported'[c] = reported[c]
          /\ notified'[c] = reported[c] /\ carrierState'[c] = carrierState[c]
      BY DEF Types, CallbackNotify
    <3>2. Local(c) /\ callback[c] \in {"IDLE", "ENTER", "NOTIFY"}
          /\ carrierState[c] \in State \union {NoEntry}
          /\ reported[c] \in State \union {NoReport}
      BY DEF Types
    <3>9. Local(c)'
      BY <3>1, <3>2 DEF Local
    <3> QED BY <2>0, <2>2, <3>9
  <2> QED BY <2>1, <2>2
<1> QED BY <1>1, <1>2, <1>3, InvPartsNext

LEMMA RestartStep ==
  ASSUME Inv, Restart
  PROVE  Inv'
<1> USE InvParts DEF running, radio, reports, operational, pending
<1>1. /\ carrierState' \in [Carrier -> State \union {NoEntry}]
      /\ \A c \in Carrier : carrierState'[c] # NoEntry => carrierState'[c] = "DISABLED"
      /\ \A c \in Carrier : active[c] # Absent => carrierState'[c] # NoEntry
  BY InitialisedEntries DEF Types, Restart
<1>2. /\ command' \in [Carrier -> Active]
      /\ commandParams' \in Params /\ halEaxc' \in Endpoints
  <2>1. CASE HalStartsAgain
    BY <2>1 DEF HalStartsAgain, Params, Endpoints
  <2>2. CASE UNCHANGED <<command, commandParams, halEaxc>>
    BY <2>2 DEF Types
  <2> QED BY <2>1, <2>2 DEF Restart
<1>3. Types'
  BY <1>1, <1>2 DEF Types, Restart
<1>4. Bookkeeping'
  BY <1>1 DEF Bookkeeping, Restart
<1>5. ASSUME NEW d \in Carrier PROVE Local(d)' /\ Silent(d)'
  <2>1. /\ reported'[d] = NoReport /\ callback'[d] = "IDLE" /\ notified'[d] = "DISABLED"
    BY DEF Restart
  <2>2. active' = active
        /\ excused' = {c \in Carrier : active[c] = "INACTIVE" /\ command'[c] = "ACTIVE"}
    BY DEF Restart
  <2>3. Local(d)'
    BY <1>1, <2>1 DEF Local
  <2>4. Silent(d)'
    BY <2>2 DEF Silent
  <2> QED BY <2>3, <2>4
<1> QED BY <1>3, <1>4, <1>5, InvPartsNext

(* The initial datastore may hold anything; the map is read from it.       *)
LEMMA InitInv == Init => Inv
<1> SUFFICES ASSUME Init PROVE Inv
  OBVIOUS
<1>1. /\ carrierState \in [Carrier -> State \union {NoEntry}]
      /\ \A c \in Carrier : carrierState[c] # NoEntry => carrierState[c] = "DISABLED"
      /\ \A c \in Carrier : active[c] # Absent => carrierState[c] # NoEntry
  BY InitialisedEntries DEF Init
<1>2. Types
  BY <1>1 DEF Init, Types, Params, Endpoints
<1>3. Bookkeeping
  BY <1>1 DEF Init, Bookkeeping
<1>4. \A c \in Carrier : Local(c) /\ Silent(c)
  BY <1>1 DEF Init, Local, Silent
<1> QED BY <1>2, <1>3, <1>4, InvParts

(* Every action keeps the invariant. *)
LEMMA NextInv == Inv /\ [Next]_vars => Inv'
<1> SUFFICES ASSUME Inv, [Next]_vars PROVE Inv'
  OBVIOUS
<1>1. CASE UNCHANGED vars
  BY <1>1 DEF vars, running, radio, reports, operational, pending, Inv, TypeOK, Types,
     Bookkeeping, NothingWithoutEntry, CallbackHasReport, OperationalIsReported,
     NotifiedIsOperational, SilentWhenInactive
<1>2. ASSUME NEW act \in Carriers, NEW par \in Params, NEW eax \in Endpoints,
             HandleChange(act, par, eax)
      PROVE  Inv'
  BY <1>2, HandleChangeStep
<1>3. CASE DoneReturn \/ Restart
  BY <1>3, DoneReturnStep, RestartStep
<1>4. ASSUME NEW c \in Carrier, DoneName(c) \/ DoneActive(c) \/ Apply(c) \/ ApplyRefused(c)
      PROVE  Inv'
  BY <1>4, DoneNameStep, DoneActiveStep, ApplyStep, ApplyRefusedStep
<1>5. ASSUME NEW e \in Endpoint, DoneEaxc(e)
      PROVE  Inv'
  BY <1>5, DoneEaxcStep
<1>6. ASSUME NEW c \in Carrier, NEW s \in State, Report(c, s)
      PROVE  Inv'
  BY <1>6, ReportStep
<1>7. ASSUME NEW c \in Carrier, CallbackStore(c) \/ CallbackNotify(c)
      PROVE  Inv'
  BY <1>7, CallbackStoreStep, CallbackNotifyStep
<1> QED BY <1>1, <1>2, <1>3, <1>4, <1>5, <1>6, <1>7 DEF Next

(* Inv holds in every reachable state of the handler and the HAL's threads. *)
THEOREM InductiveInvariant == Spec => []Inv
  BY InitInv, NextInv, PTL DEF Spec

(* Every reachable state is well typed, changes are pending in the DONE    *)
(* callback alone, and every processed carrier has an entry in the state   *)
(* map (OranUplaneConfHandler::updateTxCarrier, updateRxCarrier).          *)
THEOREM TypeCorrect == Spec => []TypeOK
<1>1. Inv => TypeOK
  BY DEF Inv
<1> QED BY <1>1, InductiveInvariant, PTL

(* Whatever the HAL does, processValue withholds a deactivation only from  *)
(* a carrier that the HAL reported DISABLED, or did not report at all:     *)
(* nothing but a refusal, such a report, or a restart leaves an INACTIVE   *)
(* carrier activated.                                                      *)
THEOREM SilentTheorem == Spec => []SilentWhenInactive
<1>1. Inv => SilentWhenInactive
  BY DEF Inv
<1> QED BY <1>1, InductiveInvariant, PTL

(* Outside the state callback the operational state is the last reported:  *)
(* tx/rxCarrierStateCallback is the only writer of an entry that exists.   *)
THEOREM OperationalTheorem == Spec => []OperationalIsReported
<1>1. Inv => OperationalIsReported
  BY DEF Inv
<1> QED BY <1>1, InductiveInvariant, PTL

(* Outside carrierChangeNotification a subscriber knows the operational    *)
(* state: the notification skipped for an unchanged state loses nothing.   *)
THEOREM NotifiedTheorem == Spec => []NotifiedIsOperational
<1>1. Inv => NotifiedIsOperational
  BY DEF Inv
<1> QED BY <1>1, InductiveInvariant, PTL

(* validate's step accepts or refuses an edit as CarrierControl allows. *)
LEMMA ChangeFollows ==
  ASSUME Inv, NEW act \in Carriers, NEW par \in Params, NEW eax \in Endpoints,
         HandleChange(act, par, eax)
  PROVE  Control!Accept \/ Control!Refuse \/ UNCHANGED <<running, radio, halEaxc>>
<1> USE DEF Control!radio, Control!running, running, radio,
            Control!Carriers, Control!Params, Control!Endpoints,
            Control!Active, Control!Absent
<1>1. /\ halEaxc' \in Endpoints
      /\ \A e \in Endpoint : halEaxc'[e] \in {halEaxc[e], eax[e]}
      /\ halEaxc' # halEaxc => Activating(act) # {}
  BY ChangeEffect
<1>2. UNCHANGED radio
  BY ChangeCases
<1>3. halEaxc' # halEaxc => \E c \in Carrier : act[c] = "ACTIVE" /\ active[c] # "ACTIVE"
  BY <1>1 DEF Activating, Changed, Existing
<1>4. CASE Commit(act, par, eax)
  <2>1. active' = act /\ params' = par /\ eaxc' = eax
    BY <1>4 DEF Commit
  <2> QED BY <1>1, <1>2, <1>3, <2>1 DEF Control!Accept, Carriers, Params, Endpoints
<1>5. CASE Abort
  <2>1. UNCHANGED running
    BY <1>5 DEF Abort
  <2>2. CASE halEaxc' # halEaxc
    BY <1>1, <1>2, <1>3, <2>1, <2>2 DEF Control!Refuse, Endpoints
  <2> QED BY <1>2, <2>1, <2>2
<1> QED BY <1>4, <1>5, ChangeCases

(* One step of the handler or of the HAL is a step of CarrierControl, or   *)
(* leaves the datastore and what the HAL was told alone.                   *)
LEMMA StepFollows ==
  ASSUME Inv, [Next]_vars
  PROVE  [Control!Next]_<<Control!running, Control!radio, halEaxc>>
<1> USE DEF Control!running, Control!radio, running, radio
<1>1. CASE UNCHANGED vars
  BY <1>1 DEF vars
<1>2. ASSUME NEW act \in Carriers, NEW par \in Params, NEW eax \in Endpoints,
             HandleChange(act, par, eax)
      PROVE  [Control!Next]_<<Control!running, Control!radio, halEaxc>>
  BY <1>2, ChangeFollows DEF Control!Next
<1>3. CASE DoneReturn
  BY <1>3 DEF DoneReturn
<1>4. CASE Restart
  BY <1>4 DEF Restart, HalStartsAgain, Control!Next, Control!Reset
<1>5. ASSUME NEW c \in Carrier, DoneName(c) \/ DoneActive(c) \/ ApplyRefused(c)
      PROVE  UNCHANGED <<running, radio, halEaxc>>
  BY <1>5 DEF DoneName, DoneActive, ApplyRefused
<1>6. ASSUME NEW c \in Carrier, Apply(c)
      PROVE  Control!Follow(c)
  <2>1. active[c] # Absent
    BY <1>6 DEF Inv, TypeOK, Bookkeeping, Apply
  <2> QED BY <1>6, <2>1 DEF Apply, Control!Follow, Control!Absent
<1>7. ASSUME NEW e \in Endpoint, DoneEaxc(e)
      PROVE  Control!FollowEndpoint(e)
  <2>1. halEaxc' = [halEaxc EXCEPT ![e] = eaxc[e]]
    BY <1>7 DEF DoneEaxc, UpdateEaxc, Inv, TypeOK, Types, Endpoints
  <2> QED BY <1>7, <2>1 DEF DoneEaxc, Control!FollowEndpoint
<1>8. ASSUME NEW c \in Carrier, NEW s \in State, Report(c, s)
      PROVE  UNCHANGED <<running, radio, halEaxc>>
  BY <1>8 DEF Report
<1>9. ASSUME NEW c \in Carrier, CallbackStore(c) \/ CallbackNotify(c)
      PROVE  UNCHANGED <<running, radio, halEaxc>>
  BY <1>9 DEF CallbackStore, CallbackNotify
<1> QED BY <1>1, <1>2, <1>3, <1>4, <1>5, <1>6, <1>7, <1>8, <1>9 DEF Next, Control!Next

(* A carrier is switched only as the running datastore has it: handle-     *)
(* Activate applies what sysrepo has stored, and validation applies        *)
(* nothing but the eAxC ids of an edit that would activate a carrier.      *)
THEOREM Refinement == Spec => FollowsDatastore
<1>1. Init => Control!Init
  BY DEF Init, Control!Init, Control!Carriers, Control!Params, Control!Endpoints,
     Control!Active, Control!Absent, Carriers, Params, Endpoints
<1> QED BY <1>1, StepFollows, InductiveInvariant, PTL
       DEF Spec, FollowsDatastore, Control!Spec
=============================================================================
