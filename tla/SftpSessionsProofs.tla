-------------------------- MODULE SftpSessionsProofs --------------------------
(***************************************************************************)
(* Proofs about the SFTP sessions, for any number of callers and sessions  *)
(* and any transfers, whenever callers leave: the types, what mSessions    *)
(* holds, and that a session in use is closed only by disconnectAll or by  *)
(* one of its holders.                                                     *)
(***************************************************************************)
EXTENDS SftpSessions, FiniteSetTheorems, TLAPS

(* What becomes of an object: it is destroyed by the one that held it last. *)
Pointers ==
  /\ cached # None => object[cached] = "alive"
  /\ \A c \in Caller :
       /\ pc[c] = "holds" \/ Busy(c) => object[held[c]] = "alive"
       /\ pc[c] \in {"destroys", "stopping"} =>
            /\ object[held[c]] = "closing"
            /\ \A d \in Caller : held[d] = held[c] => d = c

(* The thread has a job where it works on one, and comes with the object. *)
JobTypes ==
  \A s \in Session :
    /\ object[s] = "new" => thread[s] = "none"
    /\ thread[s] \in {"job", "transfer"} => job[s] \in Jobs
    /\ thread[s] = "transfer" => job[s][1] = "transfer"

Inv == TypeOK /\ Pointers /\ CacheIsLive /\ SessionAlive /\ JobTypes

-----------------------------------------------------------------------------
(* The use count tells a sole holder. *)
LEMMA HolderCounts ==
  ASSUME TypeOK, NEW c \in Caller, held[c] \in Session
  PROVE  /\ UseCount(held[c]) <= 2 /\ cached = held[c] => Holders(held[c]) = {c}
         /\ UseCount(held[c]) = 1 => cached # held[c] /\ Holders(held[c]) = {c}
<1> DEFINE H == Holders(held[c])
<1>1. IsFiniteSet(H)
  BY TransferAssumption, FS_Subset DEF Holders
<1>2. {c} \in SUBSET H
  BY DEF Holders
<1>3. Cardinality({c}) = 1
  BY FS_Singleton
<1>4. Cardinality(H) \in Nat
  BY <1>1, FS_CardinalityType
<1>5. Cardinality(H) >= 1 /\ (Cardinality(H) = 1 => H = {c})
  BY <1>1, <1>2, <1>3, FS_Subset
<1> HIDE DEF H
<1>6. UseCount(held[c]) = Cardinality(H) + IF cached = held[c] THEN 1 ELSE 0
  BY DEF UseCount, H
<1>7. /\ UseCount(held[c]) <= 2 /\ cached = held[c] => H = {c}
      /\ UseCount(held[c]) = 1 => cached # held[c] /\ H = {c}
  BY <1>4, <1>5, <1>6
<1> QED
  BY <1>7 DEF H

(* The last holder of a session is its only one. *)
LEMMA LastHolder ==
  ASSUME TypeOK, NEW c \in Caller, held[c] \in Session,
         UseCount(held[c]) = 1 \/ (UseCount(held[c]) <= 2 /\ cached = held[c])
  PROVE  \A d \in Caller : held[d] = held[c] => d = c
<1>1. Holders(held[c]) = {c}
  BY HolderCounts
<1> QED
  BY <1>1 DEF Holders

LEMMA FreshIsNew ==
  ASSUME \E s \in Session : object[s] = "new"
  PROVE  Fresh \in Session /\ object[Fresh] = "new"
  BY DEF Fresh

LEMMA Forgotten ==
  ASSUME TypeOK, NEW c \in Caller, Forgets(c)
  PROVE  answer' \in [Caller -> {"none", "ok", "error"}] /\ data' \in [Caller -> Seq(Nat)]
  BY DEF TypeOK, Forgets

LEMMA CalledBack ==
  ASSUME TypeOK, NEW s \in Session, job[s] \in Jobs, NEW result \in {"ok", "error"},
         CallBack(s, result)
  PROVE  answer' \in [Caller -> {"none", "ok", "error"}] /\ data' \in [Caller -> Seq(Nat)]
<1>1. moved[s] \in Seq(Nat) /\ <<>> \in Seq(Nat)
  BY DEF TypeOK
<1>2. answer \in [Caller -> {"none", "ok", "error"}] /\ data \in [Caller -> Seq(Nat)]
  BY DEF TypeOK
<1> QED
  BY <1>1, <1>2 DEF CallBack, answers

(* The last pointer goes, in c, which may have held it or not. *)
LastPointer(c, s) ==
  /\ Destroy(c, s)
  /\ pc[c] \in {"idle", "holds", "asked"} /\ held[c] \in {s, None}
  /\ \A d \in Caller : held[d] = s => d = c
  /\ cached' \in {cached, None} /\ cached' # s /\ (cached \notin {s, None} => cached' = cached)
  /\ mConnected' = [mConnected EXCEPT ![s] = FALSE] /\ object[s] = "alive"
  /\ cut' \in {cut, cut \union {s}}
  /\ answer' \in [Caller -> {"none", "ok", "error"}] /\ data' \in [Caller -> Seq(Nat)]
  /\ UNCHANGED <<queue, task>>

(* What the end of the last pointer does. *)
LEMMA Destroyed ==
  ASSUME Inv, NEW c \in Caller, NEW s \in Session, LastPointer(c, s)
  PROVE  Inv'
<1> USE DEF LastPointer
<1>t. TypeOK /\ Pointers /\ CacheIsLive /\ SessionAlive /\ JobTypes
  BY DEF Inv
<1>1. held' \in [Caller -> Session \union {None}] /\ held'[c] = s
  BY <1>t DEF Destroy, TypeOK
<1>2. /\ pc' \in [Caller -> {"idle", "holds", "mkdir", "push", "event", "asked", "destroys",
                             "stopping"}]
      /\ pc'[c] = "destroys"
  BY <1>t DEF Destroy, TypeOK
<1>3. \A d \in Caller \ {c} : held'[d] = held[d] /\ pc'[d] = pc[d] /\ held[d] # s
  BY <1>t DEF Destroy, TypeOK
<1>4. /\ object' \in [Session -> {"new", "alive", "closing", "gone"}] /\ object'[s] = "closing"
      /\ \A r \in Session \ {s} : object'[r] = object[r]
  BY <1>t DEF Destroy, TypeOK
<1>5. mConnected' \in [Session -> BOOLEAN] /\ cached' \in Session \union {None}
  BY <1>t DEF TypeOK
<1>6. \A d \in Caller : pc'[d] # "idle" <=> held'[d] # None
  <2>1. None \notin Session /\ \A d \in Caller : pc[d] # "idle" <=> held[d] # None
    BY <1>t, TransferAssumption DEF TypeOK
  <2> QED
    BY <1>1, <1>2, <1>3, <2>1
<1>7. TypeOK'
  <2>1. cut' \subseteq Session
    BY <1>t DEF TypeOK
  <2>2. UNCHANGED <<mJobs, mEvent, mTaskRun, mTaskRunning, thread, done, job, moved>>
    BY DEF queue, task
  <2> QED
    BY <1>t, <1>1, <1>2, <1>4, <1>5, <1>6, <2>1, <2>2 DEF TypeOK
<1>8. Pointers'
  <2>1. cached' # None => object'[cached'] = "alive"
    BY <1>t, <1>4, TransferAssumption DEF Pointers, TypeOK
  <2>2. ASSUME NEW d \in Caller \ {c}
        PROVE  /\ pc[d] = "holds" \/ Busy(d) => object'[held[d]] = "alive"
               /\ pc[d] \in {"destroys", "stopping"} => object'[held[d]] = "closing"
    <3>1. pc[d] # "idle" => held[d] \in Session \ {s}
      BY <1>t, <1>3 DEF TypeOK
    <3> QED
      BY <1>t, <1>4, <3>1 DEF Pointers, Busy
  <2>3. ASSUME NEW d \in Caller \ {c}
        PROVE  pc[d] \in {"destroys", "stopping"} =>
                 \A e \in Caller : held'[e] = held[d] => e = d
    <3>1. held[d] # held'[c]
      BY <1>1, <1>3
    <3>2. \A e \in Caller \ {c} : held'[e] = held[e]
      BY <1>3
    <3>3. pc[d] \in {"destroys", "stopping"} =>
            \A e \in Caller : held[e] = held[d] => e = d
      BY <1>t DEF Pointers
    <3> QED
      BY <3>1, <3>2, <3>3
  <2>4. \A e \in Caller : held'[e] = s => e = c
    BY <1>3
  <2>5. ASSUME NEW d \in Caller
        PROVE  /\ pc'[d] = "holds" \/ Busy(d)' => object'[held'[d]] = "alive"
               /\ pc'[d] \in {"destroys", "stopping"} =>
                    /\ object'[held'[d]] = "closing"
                    /\ \A e \in Caller : held'[e] = held'[d] => e = d
    <3>1. CASE d = c
      BY <1>1, <1>2, <1>4, <2>4, <3>1 DEF Busy
    <3>2. CASE d # c
      <4>1. held'[d] = held[d] /\ pc'[d] = pc[d] /\ d \in Caller \ {c}
        BY <1>3, <3>2
      <4>2. Busy(d)' <=> Busy(d)
        BY <4>1 DEF Busy
      <4>3. /\ pc[d] = "holds" \/ Busy(d) => object'[held[d]] = "alive"
            /\ pc[d] \in {"destroys", "stopping"} => object'[held[d]] = "closing"
        BY <2>2, <4>1
      <4>4. pc[d] \in {"destroys", "stopping"} =>
              \A e \in Caller : held'[e] = held[d] => e = d
        BY <2>3, <4>1
      <4> QED
        BY <4>1, <4>2, <4>3, <4>4
    <3> QED
      BY <3>1, <3>2
  <2> QED
    BY <2>1, <2>5 DEF Pointers
<1>9. CacheIsLive'
  <2>1. \A r \in Session \ {s} : mConnected'[r] = mConnected[r] /\ (r \in cut => r \in cut')
    BY <1>t DEF TypeOK
  <2>2. ~mConnected'[s] /\ s # cached'
    BY <1>t DEF TypeOK
  <2>3. None \notin Session
    BY TransferAssumption
  <2>4. ASSUME NEW x \in Session \ {s}
        PROVE  /\ mConnected'[x] => x = cached'
               /\ x = cached' => object'[x] = "alive" /\ (mConnected'[x] \/ x \in cut')
    BY <1>t, <1>4, <2>1, <2>3 DEF CacheIsLive
  <2> QED
    BY <2>2, <2>4 DEF CacheIsLive
<1>11. SessionAlive'
  <2>1. ASSUME NEW d \in Caller \ {c}, pc[d] = "holds" \/ Busy(d)
        PROVE  object'[held[d]] = "alive" /\ (mConnected'[held[d]] \/ held[d] \in cut')
    <3>1. held[d] \in Session \ {s}
      BY <1>t, <1>3, <2>1 DEF TypeOK, Busy
    <3>2. mConnected'[held[d]] = mConnected[held[d]] /\ object'[held[d]] = object[held[d]]
      BY <1>t, <1>4, <3>1 DEF TypeOK
    <3> QED
      BY <1>t, <2>1, <3>1, <3>2 DEF SessionAlive
  <2> QED
    BY <1>2, <1>3, <2>1 DEF SessionAlive, Busy
<1>10. JobTypes'
  BY <1>t, <1>4 DEF JobTypes, task
<1> QED
  BY <1>7, <1>8, <1>9, <1>10, <1>11 DEF Inv

(* What the end of the destructor does. *)
LEMMA FreedKeeps ==
  ASSUME Inv, NEW c \in Caller, pc[c] \in {"destroys", "stopping"}, Freed(c),
         mTaskRun' \in [Session -> BOOLEAN], mEvent' \in [Session -> BOOLEAN],
         UNCHANGED <<cached, answers, mConnected, mTaskRunning, thread, done, job, moved>>
  PROVE  Inv'
<1>t. TypeOK /\ Pointers /\ CacheIsLive /\ SessionAlive /\ JobTypes
  BY DEF Inv
<1>1. /\ held[c] \in Session /\ object[held[c]] = "closing" /\ cached # held[c]
      /\ \A d \in Caller : held[d] = held[c] => d = c
  BY <1>t DEF TypeOK, Pointers
<1>2. held' \in [Caller -> Session \union {None}] /\ held'[c] = None
  BY <1>t DEF Freed, TypeOK
<1>3. /\ pc' \in [Caller -> {"idle", "holds", "mkdir", "push", "event", "asked", "destroys",
                             "stopping"}]
      /\ pc'[c] = "idle"
  BY <1>t DEF Freed, TypeOK
<1>4. \A d \in Caller \ {c} : held'[d] = held[d] /\ pc'[d] = pc[d] /\ held[d] # held[c]
  BY <1>t, <1>1 DEF Freed, TypeOK
<1>5. /\ object' \in [Session -> {"new", "alive", "closing", "gone"}]
      /\ object'[held[c]] = "gone"
      /\ \A r \in Session \ {held[c]} : object'[r] = object[r]
  BY <1>t, <1>1 DEF Freed, TypeOK
<1>6. TypeOK'
  <2>1. mJobs' \in [Session -> Seq(Jobs)] /\ cut' \subseteq Session
    BY <1>t DEF Freed, TypeOK
  <2>2. ASSUME NEW d \in Caller PROVE pc'[d] # "idle" <=> held'[d] # None
    <3>1. CASE d = c
      BY <1>2, <1>3, <3>1
    <3>2. CASE d # c
      <4>1. held'[d] = held[d] /\ pc'[d] = pc[d]
        BY <1>4, <3>2
      <4> QED
        BY <1>t, <4>1 DEF TypeOK
    <3> QED
      BY <3>1, <3>2
  <2>3. UNCHANGED <<answer, data>>
    BY DEF answers
  <2> QED
    BY <1>t, <1>2, <1>3, <1>5, <2>1, <2>2, <2>3 DEF TypeOK
<1>7. ASSUME NEW d \in Caller \ {c}, pc[d] # "idle"
      PROVE  /\ held[d] \in Session \ {held[c]} /\ object'[held[d]] = object[held[d]]
             /\ held[d] \in cut => held[d] \in cut'
  <2>1. held[d] \in Session \ {held[c]}
    BY <1>t, <1>4, <1>7 DEF TypeOK
  <2> QED
    BY <1>5, <2>1 DEF Freed
<1>8. Pointers'
  <2>1. cached' # None => object'[cached'] = "alive"
    BY <1>t, <1>1, <1>5 DEF Pointers, TypeOK
  <2>2. ASSUME NEW d \in Caller \ {c}
        PROVE  pc[d] \in {"destroys", "stopping"} =>
                 \A e \in Caller : held'[e] = held[d] => e = d
    <3>1. pc[d] # "idle" => held[d] # None
      BY <1>t DEF TypeOK
    <3> QED
      BY <1>t, <1>2, <1>4, <3>1 DEF Pointers
  <2>3. ASSUME NEW d \in Caller \ {c}
        PROVE  /\ pc[d] = "holds" \/ Busy(d) => object'[held[d]] = "alive"
               /\ pc[d] \in {"destroys", "stopping"} => object'[held[d]] = "closing"
    BY <1>t, <1>7 DEF Pointers, Busy
  <2> QED
    BY <1>3, <1>4, <2>1, <2>2, <2>3 DEF Pointers, Busy
<1>9. SessionAlive'
  BY <1>t, <1>3, <1>4, <1>7 DEF SessionAlive, Busy
<1>10. CacheIsLive'
  BY <1>t, <1>1, <1>5 DEF CacheIsLive, Freed
<1>11. JobTypes'
  BY <1>t, <1>1, <1>5 DEF JobTypes
<1> QED
  BY <1>6, <1>8, <1>9, <1>10, <1>11 DEF Inv

LEMMA InitInv == Init => Inv
<1> SUFFICES ASSUME Init PROVE Inv
  OBVIOUS
<1>1. TypeOK
  BY TransferAssumption DEF Init, TypeOK
<1>2. Pointers /\ CacheIsLive /\ JobTypes
  BY TransferAssumption DEF Init, Pointers, Busy, CacheIsLive, JobTypes
<1>3. SessionAlive
  BY DEF Init, SessionAlive, Busy
<1> QED
  BY <1>1, <1>2, <1>3 DEF Inv

(* Every step keeps the types and the pointers. *)
LEMMA NextInv == Inv /\ [Next]_vars => Inv'
<1> SUFFICES ASSUME Inv, [Next]_vars PROVE Inv'
  OBVIOUS
<1>t. TypeOK /\ Pointers /\ CacheIsLive /\ SessionAlive /\ JobTypes
  BY DEF Inv
<1>1. ASSUME NEW c \in Caller, FactoryReuse(c) PROVE Inv'
  <2>1. TypeOK'
    BY <1>t, <1>1, TransferAssumption DEF FactoryReuse, TypeOK, answers, queue, task
  <2>2. Pointers'
    BY <1>t, <1>1, TransferAssumption DEF FactoryReuse, Pointers, TypeOK, Busy
  <2>3. CacheIsLive'
    BY <1>t, <1>1, TransferAssumption DEF FactoryReuse, CacheIsLive, TypeOK
  <2>4. JobTypes'
    BY <1>t, <1>1 DEF FactoryReuse, JobTypes, TypeOK, task
  <2>5. SessionAlive'
    BY <1>t, <1>1, TransferAssumption DEF FactoryReuse, SessionAlive, CacheIsLive,
        TypeOK, Busy, callers
  <2> QED
    BY <2>1, <2>2, <2>3, <2>4, <2>5 DEF Inv
<1>2. ASSUME NEW c \in Caller, NEW s \in Session, FactoryConnect(c, s) PROVE Inv'
  <2>1. object[s] = "new"
    BY <1>2, FreshIsNew DEF FactoryConnect, CanCreate
  <2>2. TypeOK'
    BY <1>t, <1>2, <2>1, TransferAssumption DEF FactoryConnect, TypeOK, answers, queue
  <2>3. Pointers'
    BY <1>t, <1>2, <2>1, TransferAssumption DEF FactoryConnect, Pointers, TypeOK, Busy
  <2>4. CacheIsLive'
    BY <1>t, <1>2, <2>1, TransferAssumption
    DEF FactoryConnect, CanCreate, CacheIsLive, TypeOK
  <2>5. JobTypes'
    BY <1>t, <1>2, <2>1 DEF FactoryConnect, JobTypes, TypeOK
  <2>6. SessionAlive'
    <3>1. \A d \in Caller \ {c} : pc'[d] = pc[d] /\ held'[d] = held[d]
      BY <1>t, <1>2 DEF FactoryConnect, TypeOK
    <3>2. held'[c] = s /\ object'[s] = "alive" /\ mConnected'[s]
      BY <1>t, <1>2 DEF FactoryConnect, TypeOK
    <3>3. ASSUME NEW d \in Caller, pc[d] = "holds" \/ Busy(d)
          PROVE  /\ object'[held[d]] = object[held[d]]
                 /\ mConnected'[held[d]] = mConnected[held[d]]
      <4>1. held[d] \in Session /\ object[held[d]] = "alive"
        BY <1>t, <3>3 DEF TypeOK, Busy, SessionAlive
      <4> QED
        BY <1>t, <1>2, <2>1, <4>1 DEF FactoryConnect, TypeOK
    <3> QED
      BY <1>t, <1>2, <3>1, <3>2, <3>3 DEF FactoryConnect, SessionAlive, Busy
  <2> QED
    BY <2>2, <2>3, <2>4, <2>5, <2>6 DEF Inv
<1>3. ASSUME NEW c \in Caller, NEW s \in Session, FactoryFails(c, s) PROVE Inv'
  <2>1. object[s] = "new"
    BY <1>3, FreshIsNew DEF FactoryFails, CanCreate
  <2>2. cached = None /\ \A d \in Caller : held[d] # s
    <3>1. ASSUME NEW d \in Caller PROVE pc[d] # "idle" => object[held[d]] # "new"
      <4>1. pc[d] \in {"idle", "holds", "mkdir", "push", "event", "asked", "destroys",
                       "stopping"}
        BY <1>t DEF TypeOK
      <4>2. /\ pc[d] = "holds" \/ Busy(d) => object[held[d]] = "alive"
            /\ pc[d] \in {"destroys", "stopping"} => object[held[d]] = "closing"
        BY <1>t DEF Pointers
      <4> QED
        BY <4>1, <4>2 DEF Busy
    <3>2. None # s /\ \A d \in Caller : pc[d] = "idle" => held[d] = None
      BY <1>t, TransferAssumption DEF TypeOK
    <3> QED
      BY <1>3, <2>1, <3>1, <3>2 DEF FactoryFails, CanCreate
  <2>3. TypeOK'
    BY <1>t, <1>3, <2>1, <2>2, TransferAssumption
    DEF FactoryFails, TypeOK, answers, queue
  <2>4. Pointers'
    BY <1>t, <1>3, <2>1, <2>2, TransferAssumption
    DEF FactoryFails, Pointers, TypeOK, Busy
  <2>5. CacheIsLive'
    BY <1>t, <1>3, <2>1, <2>2, TransferAssumption DEF FactoryFails, CacheIsLive, TypeOK
  <2>6. JobTypes'
    BY <1>t, <1>3, <2>1, <2>2 DEF FactoryFails, JobTypes, TypeOK
  <2>7. SessionAlive'
    BY <1>t, <1>3, <2>1, <2>2 DEF FactoryFails, SessionAlive, TypeOK, Busy
  <2> QED
    BY <2>3, <2>4, <2>5, <2>6, <2>7 DEF Inv
<1>4. ASSUME NEW c \in Caller, DisconnectSession(c) PROVE Inv'
  <2>1. held[c] \in Session /\ cached = held[c] /\ UseCount(held[c]) <= 2
    BY <1>t, <1>4 DEF DisconnectSession, MayLeave, TypeOK, CacheIsLive
  <2>2. Holders(held[c]) = {c} /\ \A d \in Caller : held[d] = held[c] => d = c
    BY <1>t, <2>1, HolderCounts, LastHolder
  <2>3. /\ Destroy(c, held[c]) /\ pc[c] \in {"holds", "asked"} /\ object[held[c]] = "alive"
        /\ cached' = None /\ mConnected' = [mConnected EXCEPT ![held[c]] = FALSE]
    BY <1>t, <1>4, <2>1, <2>2 DEF DisconnectSession, MayLeave, Pointers
  <2>4. Forgets(c) /\ UNCHANGED <<queue, task, cut>>
    BY <1>4 DEF DisconnectSession
  <2> QED
    <3>1. answer' \in [Caller -> {"none", "ok", "error"}] /\ data' \in [Caller -> Seq(Nat)]
      BY <1>t, <2>4, Forgotten
    <3>2. LastPointer(c, held[c])
      BY <2>1, <2>2, <2>3, <2>4, <3>1, TransferAssumption DEF LastPointer
    <3> QED
      BY <2>1, <3>2, Destroyed
<1>5. ASSUME NEW c \in Caller, DisconnectAll(c) PROVE Inv'
  <2>1. /\ cached \in Session /\ object[cached] = "alive" /\ pc[c] = "idle" /\ held[c] = None
        /\ cached' = None /\ mConnected' = [mConnected EXCEPT ![cached] = FALSE]
    BY <1>t, <1>5 DEF DisconnectAll, TypeOK, Pointers
  <2>2. UNCHANGED <<answers, queue, task>> /\ cut' = cut \union {cached}
    BY <1>5 DEF DisconnectAll
  <2>5. UNCHANGED <<answer, data>>
    BY <2>2 DEF answers
  <2>3. CASE Holders(cached) = {}
    <3>1. Destroy(c, cached) /\ \A d \in Caller : held[d] # cached
      BY <1>5, <2>3 DEF DisconnectAll, Holders
    <3> QED
      <4>1. answer' \in [Caller -> {"none", "ok", "error"}] /\ data' \in [Caller -> Seq(Nat)]
        BY <1>t, <2>5 DEF TypeOK
      <4>2. LastPointer(c, cached)
        BY <2>1, <2>2, <3>1, <4>1, TransferAssumption DEF LastPointer
      <4> QED
        BY <2>1, <4>2, Destroyed
  <2>4. CASE Holders(cached) # {}
    <3>1. UNCHANGED <<object, held, pc>>
      BY <1>5, <2>4 DEF DisconnectAll, callers
    <3>2. TypeOK'
      BY <1>t, <2>1, <2>2, <3>1 DEF TypeOK, answers, queue, task
    <3>3. Pointers' /\ JobTypes'
      BY <1>t, <2>1, <2>2, <3>1 DEF Pointers, Busy, JobTypes, task
    <3>4. CacheIsLive'
      BY <1>t, <2>1, <3>1, TransferAssumption DEF CacheIsLive, TypeOK
    <3>5. SessionAlive'
      BY <1>t, <2>1, <2>2, <3>1 DEF SessionAlive, Busy, TypeOK
    <3> QED
      BY <3>2, <3>3, <3>4, <3>5 DEF Inv
  <2> QED
    BY <2>3, <2>4
<1>28. ASSUME NEW c \in Caller, DisconnectItself(c) PROVE Inv'
  <2>1. held[c] \in Session /\ pc[c] \in {"holds", "asked"}
    BY <1>t, <1>28 DEF DisconnectItself, MayLeave, TypeOK
  <2>2. /\ mConnected' = [mConnected EXCEPT ![held[c]] = FALSE]
        /\ cut' = cut \union {held[c]}
        /\ UNCHANGED <<cached, callers, answers, object, queue, task>>
    BY <1>28 DEF DisconnectItself
  <2>3. TypeOK'
    BY <1>t, <2>1, <2>2 DEF TypeOK, callers, answers, queue, task
  <2>4. Pointers' /\ JobTypes'
    BY <1>t, <2>2 DEF Pointers, Busy, JobTypes, callers, task
  <2>5. CacheIsLive' /\ SessionAlive'
    BY <1>t, <2>1, <2>2 DEF CacheIsLive, SessionAlive, Busy, TypeOK, callers
  <2> QED
    BY <2>3, <2>4, <2>5 DEF Inv
<1>6. ASSUME NEW c \in Caller, Drop(c) PROVE Inv'
  <2>1. held[c] \in Session /\ pc[c] \in {"holds", "asked"} /\ object[held[c]] = "alive"
    BY <1>t, <1>6 DEF Drop, MayLeave, TypeOK, Pointers, Busy
  <2>2. Forgets(c) /\ UNCHANGED <<cached, queue, task, cut>>
    BY <1>6 DEF Drop
  <2>5. answer' \in [Caller -> {"none", "ok", "error"}] /\ data' \in [Caller -> Seq(Nat)]
    BY <1>t, <2>2, Forgotten
  <2>3. CASE UseCount(held[c]) = 1
    <3>1. cached # held[c] /\ \A d \in Caller : held[d] = held[c] => d = c
      BY <1>t, <2>1, <2>3, HolderCounts, LastHolder
    <3>2. Destroy(c, held[c]) /\ mConnected' = [mConnected EXCEPT ![held[c]] = FALSE]
      BY <1>6, <2>3 DEF Drop
    <3> QED
      <4>1. /\ cached' \in {cached, None} /\ cached' # held[c] /\ cached' = cached
            /\ cut' \in {cut, cut \union {held[c]}} /\ UNCHANGED <<queue, task>>
        BY <2>2, <3>1
      <4>2. LastPointer(c, held[c])
        BY <2>1, <2>5, <3>1, <3>2, <4>1 DEF LastPointer
      <4> QED
        BY <2>1, <4>2, Destroyed
  <2>4. CASE UseCount(held[c]) # 1
    <3>1. LetGo(c) /\ UNCHANGED mConnected
      BY <1>6, <2>4 DEF Drop
    <3>2. TypeOK'
      BY <1>t, <2>2, <2>5, <3>1 DEF LetGo, TypeOK, queue, task
    <3>3. Pointers'
      BY <1>t, <2>2, <3>1, TransferAssumption DEF LetGo, Pointers, Busy, TypeOK
    <3>4. CacheIsLive' /\ JobTypes'
      BY <1>t, <2>2, <3>1 DEF LetGo, CacheIsLive, JobTypes, task
    <3>5. SessionAlive'
      BY <1>t, <2>2, <3>1 DEF LetGo, SessionAlive, Busy, TypeOK
    <3> QED
      BY <3>2, <3>3, <3>4, <3>5 DEF Inv
  <2> QED
    BY <2>3, <2>4
<1>7. ASSUME NEW c \in Caller, ShutdownBegins(c) PROVE Inv'
  <2>1. /\ pc[c] = "destroys"
        /\ UNCHANGED <<cached, answers, mConnected, mEvent, mTaskRunning, thread, done, job,
                       moved>>
    BY <1>7 DEF ShutdownBegins
  <2>2. CASE mTaskRunning[held[c]]
    <3>1. /\ mTaskRun' = [mTaskRun EXCEPT ![held[c]] = FALSE]
          /\ pc' = [pc EXCEPT ![c] = "stopping"]
          /\ UNCHANGED <<held, object, mJobs, cut>>
      BY <1>7, <2>2 DEF ShutdownBegins
    <3>2. TypeOK'
      BY <1>t, <2>1, <3>1 DEF TypeOK, answers
    <3>3. Pointers' /\ SessionAlive'
      BY <1>t, <2>1, <3>1 DEF Pointers, SessionAlive, Busy, TypeOK
    <3>4. CacheIsLive' /\ JobTypes'
      BY <1>t, <2>1, <3>1 DEF CacheIsLive, JobTypes
    <3> QED
      BY <3>2, <3>3, <3>4 DEF Inv
  <2>3. CASE ~mTaskRunning[held[c]]
    <3>1. Freed(c) /\ UNCHANGED mTaskRun
      BY <1>7, <2>3 DEF ShutdownBegins
    <3> QED
      BY <1>t, <2>1, <3>1, FreedKeeps DEF TypeOK
  <2> QED
    BY <2>2, <2>3
<1>8. ASSUME NEW c \in Caller, ShutdownTries(c) PROVE Inv'
  <2>1. TypeOK'
    BY <1>t, <1>8, TransferAssumption DEF ShutdownTries, TypeOK, callers, answers, task
  <2>2. Pointers'
    BY <1>t, <1>8, TransferAssumption DEF ShutdownTries, Pointers, TypeOK, Busy, callers
  <2>3. CacheIsLive'
    BY <1>t, <1>8, TransferAssumption DEF ShutdownTries, CacheIsLive, TypeOK
  <2>4. JobTypes'
    BY <1>t, <1>8 DEF ShutdownTries, JobTypes, TypeOK, task
  <2>5. SessionAlive'
    BY <1>t, <1>8, TransferAssumption DEF ShutdownTries, SessionAlive, CacheIsLive,
        TypeOK, Busy, callers
  <2> QED
    BY <2>1, <2>2, <2>3, <2>4, <2>5 DEF Inv
<1>9. ASSUME NEW c \in Caller, ShutdownEnds(c) PROVE Inv'
  <2>1. /\ pc[c] = "stopping" /\ Freed(c)
        /\ UNCHANGED <<cached, answers, mConnected, mTaskRun, mTaskRunning, thread, done,
                       job, moved>>
    BY <1>9 DEF ShutdownEnds, task
  <2>2. mEvent' \in [Session -> BOOLEAN] /\ mTaskRun' \in [Session -> BOOLEAN]
    BY <1>t, <1>9, <2>1 DEF ShutdownEnds, TypeOK
  <2> QED
    BY <2>1, <2>2, FreedKeeps
<1>10. ASSUME NEW c \in Caller, Ask(c) PROVE Inv'
  <2>1. TypeOK'
    BY <1>t, <1>10, TransferAssumption DEF Ask, TypeOK, answers, queue, task
  <2>2. Pointers'
    BY <1>t, <1>10, TransferAssumption DEF Ask, Pointers, TypeOK, Busy
  <2>3. CacheIsLive'
    BY <1>t, <1>10, TransferAssumption DEF Ask, CacheIsLive, TypeOK
  <2>4. JobTypes'
    BY <1>t, <1>10 DEF Ask, JobTypes, TypeOK, task
  <2>5. SessionAlive'
    BY <1>t, <1>10, TransferAssumption DEF Ask, SessionAlive, CacheIsLive,
        TypeOK, Busy, callers
  <2> QED
    BY <2>1, <2>2, <2>3, <2>4, <2>5 DEF Inv
<1>11. ASSUME NEW c \in Caller, Mkdir(c) PROVE Inv'
  <2>1. TypeOK'
    BY <1>t, <1>11, TransferAssumption DEF Mkdir, TypeOK, Jobs, answers, task
  <2>2. Pointers'
    BY <1>t, <1>11, TransferAssumption DEF Mkdir, Pointers, TypeOK, Busy
  <2>3. CacheIsLive'
    BY <1>t, <1>11, TransferAssumption DEF Mkdir, CacheIsLive, TypeOK
  <2>4. JobTypes'
    BY <1>t, <1>11 DEF Mkdir, JobTypes, TypeOK, task
  <2>5. SessionAlive'
    BY <1>t, <1>11, TransferAssumption DEF Mkdir, SessionAlive, CacheIsLive,
        TypeOK, Busy, callers
  <2> QED
    BY <2>1, <2>2, <2>3, <2>4, <2>5 DEF Inv
<1>12. ASSUME NEW c \in Caller, Push(c) PROVE Inv'
  <2>1. TypeOK'
    BY <1>t, <1>12, TransferAssumption DEF Push, TypeOK, Jobs, answers, task
  <2>2. Pointers'
    BY <1>t, <1>12, TransferAssumption DEF Push, Pointers, TypeOK, Busy
  <2>3. CacheIsLive'
    BY <1>t, <1>12, TransferAssumption DEF Push, CacheIsLive, TypeOK
  <2>4. JobTypes'
    BY <1>t, <1>12 DEF Push, JobTypes, TypeOK, task
  <2>5. SessionAlive'
    BY <1>t, <1>12, TransferAssumption DEF Push, SessionAlive, CacheIsLive,
        TypeOK, Busy, callers
  <2> QED
    BY <2>1, <2>2, <2>3, <2>4, <2>5 DEF Inv
<1>13. ASSUME NEW c \in Caller, Event(c) PROVE Inv'
  <2>1. TypeOK'
    BY <1>t, <1>13, TransferAssumption DEF Event, TypeOK, answers, task
  <2>2. Pointers'
    BY <1>t, <1>13, TransferAssumption DEF Event, Pointers, TypeOK, Busy
  <2>3. CacheIsLive'
    BY <1>t, <1>13, TransferAssumption DEF Event, CacheIsLive, TypeOK
  <2>4. JobTypes'
    BY <1>t, <1>13 DEF Event, JobTypes, TypeOK, task
  <2>5. SessionAlive'
    BY <1>t, <1>13, TransferAssumption DEF Event, SessionAlive, CacheIsLive,
        TypeOK, Busy, callers
  <2> QED
    BY <2>1, <2>2, <2>3, <2>4, <2>5 DEF Inv
<1>14. ASSUME NEW c \in Caller, Answered(c) PROVE Inv'
  <2>1. TypeOK'
    BY <1>t, <1>14, TransferAssumption DEF Answered, TypeOK, queue, task
  <2>2. Pointers'
    BY <1>t, <1>14, TransferAssumption DEF Answered, Pointers, TypeOK, Busy
  <2>3. CacheIsLive'
    BY <1>t, <1>14, TransferAssumption DEF Answered, CacheIsLive, TypeOK
  <2>4. JobTypes'
    BY <1>t, <1>14 DEF Answered, JobTypes, TypeOK, task
  <2>5. SessionAlive'
    BY <1>t, <1>14, TransferAssumption DEF Answered, SessionAlive, CacheIsLive,
        TypeOK, Busy, callers
  <2> QED
    BY <2>1, <2>2, <2>3, <2>4, <2>5 DEF Inv
<1>15. ASSUME NEW s \in Session, ThreadStarts(s) PROVE Inv'
  <2>1. TypeOK'
    BY <1>t, <1>15, TransferAssumption
    DEF ThreadStarts, Goes, Idle, TypeOK, callers, answers, queue
  <2>2. Pointers' /\ CacheIsLive' /\ SessionAlive'
    BY <1>t, <1>15 DEF ThreadStarts, Idle, Pointers, CacheIsLive, SessionAlive,
        Busy, callers
  <2>3. JobTypes'
    BY <1>t, <1>15 DEF ThreadStarts, Goes, Idle, JobTypes, TypeOK
  <2> QED
    BY <2>1, <2>2, <2>3 DEF Inv
<1>16. ASSUME NEW s \in Session, Loop(s) PROVE Inv'
  <2>1. TypeOK'
    BY <1>t, <1>16, TransferAssumption
    DEF Loop, Goes, Idle, TypeOK, callers, answers, queue
  <2>2. Pointers' /\ CacheIsLive' /\ SessionAlive'
    BY <1>t, <1>16 DEF Loop, Idle, Pointers, CacheIsLive, SessionAlive,
        Busy, callers
  <2>3. JobTypes'
    BY <1>t, <1>16 DEF Loop, Goes, Idle, JobTypes, TypeOK
  <2> QED
    BY <2>1, <2>2, <2>3 DEF Inv
<1>17. ASSUME NEW s \in Session, Wait(s) PROVE Inv'
  <2>1. TypeOK'
    BY <1>t, <1>17, TransferAssumption DEF Wait, Goes, Idle, TypeOK, callers, answers
  <2>2. Pointers' /\ CacheIsLive' /\ SessionAlive'
    BY <1>t, <1>17 DEF Wait, Idle, Pointers, CacheIsLive, SessionAlive,
        Busy, callers
  <2>3. JobTypes'
    BY <1>t, <1>17 DEF Wait, Goes, Idle, JobTypes, TypeOK
  <2> QED
    BY <2>1, <2>2, <2>3 DEF Inv
<1>18. ASSUME NEW s \in Session, NoJob(s) PROVE Inv'
  <2>1. TypeOK'
    BY <1>t, <1>18, TransferAssumption
    DEF NoJob, Goes, Idle, TypeOK, callers, answers, queue
  <2>2. Pointers' /\ CacheIsLive' /\ SessionAlive'
    BY <1>t, <1>18 DEF NoJob, Idle, Pointers, CacheIsLive, SessionAlive,
        Busy, callers
  <2>3. JobTypes'
    BY <1>t, <1>18 DEF NoJob, Goes, Idle, JobTypes, TypeOK
  <2> QED
    BY <2>1, <2>2, <2>3 DEF Inv
<1>19. ASSUME NEW s \in Session, Take(s) PROVE Inv'
  <2>1. TypeOK'
    <3>1. mJobs[s] \in Seq(Jobs) /\ mJobs[s] # <<>>
      BY <1>t, <1>19 DEF Take, TypeOK
    <3>2. job' \in [Session -> Jobs \union {None}] /\ mJobs' \in [Session -> Seq(Jobs)]
      BY <1>t, <1>19, <3>1 DEF Take, TypeOK
    <3>3. /\ done' \in [Session -> BOOLEAN]
          /\ UNCHANGED <<answers, mEvent, mTaskRun, mTaskRunning, moved>>
      BY <1>t, <1>19 DEF Take, TypeOK
    <3> QED
      BY <1>t, <1>19, <3>2, <3>3 DEF Take, Goes, Idle, TypeOK, callers, answers
  <2>2. Pointers' /\ CacheIsLive' /\ SessionAlive'
    BY <1>t, <1>19 DEF Take, Idle, Pointers, CacheIsLive, SessionAlive,
        Busy, callers
  <2>3. JobTypes'
    BY <1>t, <1>19 DEF Take, Goes, Idle, JobTypes, TypeOK
  <2> QED
    BY <2>1, <2>2, <2>3 DEF Inv
<1>20. ASSUME NEW s \in Session, HandleMkdir(s) PROVE Inv'
  <2>1. TypeOK'
    BY <1>t, <1>20, TransferAssumption
    DEF HandleMkdir, Goes, Idle, JobEnds, TypeOK, callers, answers, queue
  <2>2. Pointers' /\ CacheIsLive' /\ SessionAlive'
    BY <1>t, <1>20 DEF HandleMkdir, Idle, JobEnds, Pointers, CacheIsLive, SessionAlive,
        Busy, callers
  <2>3. JobTypes'
    BY <1>t, <1>20 DEF HandleMkdir, Goes, Idle, JobEnds, JobTypes, TypeOK
  <2> QED
    BY <2>1, <2>2, <2>3 DEF Inv
<1>21. ASSUME NEW s \in Session, Open(s) PROVE Inv'
  <2>1. TypeOK'
    BY <1>t, <1>21, TransferAssumption
    DEF Open, Goes, Idle, TypeOK, callers, answers, queue
  <2>2. Pointers' /\ CacheIsLive' /\ SessionAlive'
    BY <1>t, <1>21 DEF Open, Idle, Pointers, CacheIsLive, SessionAlive,
        Busy, callers
  <2>3. JobTypes'
    BY <1>t, <1>21 DEF Open, Goes, Idle, JobTypes, TypeOK
  <2> QED
    BY <2>1, <2>2, <2>3 DEF Inv
<1>22. ASSUME NEW s \in Session, OpenFails(s) PROVE Inv'
  <2>1. TypeOK'
    <3>1. CallBack(s, "error") /\ JobEnds(s) /\ job[s] \in Jobs
      BY <1>t, <1>22 DEF OpenFails, JobTypes
    <3>2. answer' \in [Caller -> {"none", "ok", "error"}] /\ data' \in [Caller -> Seq(Nat)]
      BY <1>t, <3>1, CalledBack
    <3> QED
      BY <1>t, <3>1, <3>2 DEF JobEnds, Goes, Idle, TypeOK, callers, queue
  <2>2. Pointers' /\ CacheIsLive' /\ SessionAlive'
    BY <1>t, <1>22 DEF OpenFails, Idle, JobEnds, Pointers, CacheIsLive, SessionAlive,
        Busy, callers
  <2>3. JobTypes'
    BY <1>t, <1>22 DEF OpenFails, Goes, Idle, JobEnds, JobTypes, TypeOK
  <2> QED
    BY <2>1, <2>2, <2>3 DEF Inv
<1>23. ASSUME NEW s \in Session, Transfer(s) PROVE Inv'
  <2>1. TypeOK'
    <3>1. \A piece \in Piece(s) : Append(moved[s], piece) \in Seq(Nat)
      BY <1>t DEF Piece, TypeOK
    <3>2. moved' \in [Session -> Seq(Nat)]
      BY <1>t, <1>23, <3>1 DEF Transfer, TypeOK
    <3> QED
      BY <1>t, <1>23, <3>2 DEF Transfer, Idle, TypeOK, callers, answers, queue
  <2>2. Pointers' /\ CacheIsLive' /\ SessionAlive'
    BY <1>t, <1>23 DEF Transfer, Idle, Pointers, CacheIsLive, SessionAlive,
        Busy, callers
  <2>3. JobTypes'
    BY <1>t, <1>23 DEF Transfer, Idle, JobTypes, TypeOK
  <2> QED
    BY <2>1, <2>2, <2>3 DEF Inv
<1>24. ASSUME NEW s \in Session, TransferEnds(s) PROVE Inv'
  <2>1. TypeOK'
    <3>1. CallBack(s, "ok") /\ JobEnds(s) /\ job[s] \in Jobs
      BY <1>t, <1>24 DEF TransferEnds, JobTypes
    <3>2. answer' \in [Caller -> {"none", "ok", "error"}] /\ data' \in [Caller -> Seq(Nat)]
      BY <1>t, <3>1, CalledBack
    <3> QED
      BY <1>t, <3>1, <3>2 DEF JobEnds, Goes, Idle, TypeOK, callers, queue
  <2>2. Pointers' /\ CacheIsLive' /\ SessionAlive'
    BY <1>t, <1>24 DEF TransferEnds, Idle, JobEnds, Pointers, CacheIsLive, SessionAlive,
        Busy, callers
  <2>3. JobTypes'
    BY <1>t, <1>24 DEF TransferEnds, Goes, Idle, JobEnds, JobTypes, TypeOK
  <2> QED
    BY <2>1, <2>2, <2>3 DEF Inv
<1>25. ASSUME NEW s \in Session, TransferFails(s) PROVE Inv'
  <2>1. TypeOK'
    <3>1. CallBack(s, "error") /\ JobEnds(s) /\ job[s] \in Jobs
      BY <1>t, <1>25 DEF TransferFails, JobTypes
    <3>2. answer' \in [Caller -> {"none", "ok", "error"}] /\ data' \in [Caller -> Seq(Nat)]
      BY <1>t, <3>1, CalledBack
    <3> QED
      BY <1>t, <3>1, <3>2 DEF JobEnds, Goes, Idle, TypeOK, callers, queue
  <2>2. Pointers' /\ CacheIsLive' /\ SessionAlive'
    BY <1>t, <1>25
    DEF TransferFails, Idle, JobEnds, Pointers, CacheIsLive, SessionAlive,
        Busy, callers
  <2>3. JobTypes'
    BY <1>t, <1>25 DEF TransferFails, Goes, Idle, JobEnds, JobTypes, TypeOK
  <2> QED
    BY <2>1, <2>2, <2>3 DEF Inv
<1>26. ASSUME NEW s \in Session, RunEnds(s) PROVE Inv'
  <2>1. TypeOK'
    BY <1>t, <1>26, TransferAssumption
    DEF RunEnds, Goes, Idle, TypeOK, callers, answers, queue
  <2>2. Pointers' /\ CacheIsLive' /\ SessionAlive'
    BY <1>t, <1>26 DEF RunEnds, Idle, Pointers, CacheIsLive, SessionAlive,
        Busy, callers
  <2>3. JobTypes'
    BY <1>t, <1>26 DEF RunEnds, Goes, Idle, JobTypes, TypeOK
  <2> QED
    BY <2>1, <2>2, <2>3 DEF Inv
<1>27. CASE UNCHANGED vars
  BY <1>t, <1>27
  DEF vars, Inv, TypeOK, Pointers, CacheIsLive, SessionAlive, JobTypes, Busy, callers,
      answers, queue, task
<1> QED
  BY <1>1, <1>2, <1>3, <1>4, <1>5, <1>6, <1>7, <1>8, <1>9, <1>10, <1>11, <1>12, <1>13,
     <1>14, <1>15, <1>16, <1>17, <1>18, <1>19, <1>20, <1>21, <1>22, <1>23, <1>24,
     <1>25, <1>26, <1>27, <1>28
  DEF Next, Calling, Threads, Works

(* The invariant, from which the theorems follow. *)
THEOREM Invariance == Spec => []Inv
  BY InitInv, NextInv, PTL DEF Spec

(* The types; a caller has a pointer to a session exactly while it uses or *)
(* destroys one.                                                           *)
THEOREM TypeCorrect == Spec => []TypeOK
<1>1. Inv => TypeOK
  BY DEF Inv
<1> QED
  BY <1>1, Invariance, PTL

(* What factoryCreate finds in mSessions is alive, and connected unless a  *)
(* holder closed it; no other session is connected.                        *)
THEOREM CacheIsLiveTheorem == Spec => []CacheIsLive
<1>1. Inv => CacheIsLive
  BY DEF Inv
<1> QED
  BY <1>1, Invariance, PTL

(* A caller's session is alive, and connected unless disconnectAll or a    *)
(* holder's own disconnect() closed it, whoever shares it and leaves.      *)
THEOREM SessionAliveTheorem == Spec => []SessionAlive
<1>1. Inv => SessionAlive
  BY DEF Inv
<1> QED
  BY <1>1, Invariance, PTL
=============================================================================
