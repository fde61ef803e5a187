---------------------------- MODULE PreKeysProofs ----------------------------
(* Proofs about the pre-keys of a user: their types, that no one-time       *)
(* pre-key is handed out twice, that key ids stay unique, that a calm       *)
(* initialize publishes the identity of its device, and that the bundle a   *)
(* peer is given can be used.                                               *)
EXTENDS PreKeys, FiniteSetTheorems, SequenceTheorems, TLAPS

(* A hook that is at a step is active, with all the fields of a task.       *)
LEMMA AtStep ==
  ASSUME TypeOK, NEW h \in Hooks, task[h].step # "idle"
  PROVE  task[h] \in Active /\ task[h] # Idle /\ DeviceOf[h] \in Devices
<1>1. task[h] \in Active \cup {Idle}
  BY DEF TypeOK
<1>2. DeviceOf[h] \in Devices
  BY DeviceAssumption
<1> QED BY <1>1, <1>2 DEF Idle

LEMMA GotoTypes ==
  ASSUME TypeOK, NEW h \in Hooks, task[h].step # "idle", NEW s \in Steps, Goto(h, s)
  PROVE  /\ task' \in [Hooks -> Active \cup {Idle}]
         /\ task'[h] = [task[h] EXCEPT !.step = s] /\ task'[h] # Idle
         /\ \A x \in Hooks \ {h} : task'[x] = task[x]
<1>1. [task[h] EXCEPT !.step = s] \in Active
  BY AtStep DEF Active
<1>2. s # "idle"
  BY DEF Steps
<1>3. task'[h] = [task[h] EXCEPT !.step = s] /\ task'[h].step = s
  BY AtStep DEF Goto, TypeOK, Active
<1> QED BY <1>1, <1>2, <1>3 DEF Goto, TypeOK, Idle

LEMMA FinishTypes ==
  ASSUME TypeOK, NEW h \in Hooks, Finish(h)
  PROVE  task' \in [Hooks -> Active \cup {Idle}] /\ healed' \subseteq Devices
  BY DeviceAssumption DEF Finish, TypeOK

LEMMA FaultTypes ==
  ASSUME TypeOK, Fault
  PROVE  /\ disturbed' \subseteq {"overlap", "fault", "collision"}
         /\ spent' \in [fetches : 0..MaxFetches, faults : 0..MaxFaults]
<1>1. spent.faults + 1 \in 0..MaxFaults
  BY BoundsAssumption DEF Fault, TypeOK
<1>2. spent' \in [fetches : 0..MaxFetches, faults : 0..MaxFaults]
  BY <1>1 DEF Fault, TypeOK
<1> QED BY <1>2 DEF Fault, TypeOK

(* The places of a batch that is under way are a finite set, and each has a *)
(* key id; so has its upload finitely many rows.                           *)
LEMMA BatchPlaces ==
  ASSUME NEW b \in {<< >>} \cup [Draws -> KeyIds]
  PROVE  DOMAIN b \subseteq Draws /\ IsFiniteSet(DOMAIN b) /\ \A i \in DOMAIN b : b[i] \in KeyIds
<1>1. IsFiniteSet(Draws)
  BY IdsAssumption, FS_Interval DEF Draws
<1>2. DOMAIN b \subseteq Draws /\ \A i \in DOMAIN b : b[i] \in KeyIds
  OBVIOUS
<1> QED BY <1>1, <1>2, FS_Subset

LEMMA BatchFinite ==
  ASSUME NEW h, NEW at, NEW places, IsFiniteSet(places)
  PROVE  IsFiniteSet({NewRow(h, i, at) : i \in places})
<1> DEFINE rows == {NewRow(h, i, at) : i \in places}
           f == [i \in places |-> NewRow(h, i, at)]
<1>1. f \in Surjection(places, rows)
  BY DEF Surjection
<1>2. IsFiniteSet(rows)
  <2> HIDE DEF rows, f
  <2> QED BY <1>1, FS_Surjection
<1> QED BY <1>2

LEMMA TimesFinite ==
  ASSUME IsFiniteSet(pre)
  PROVE  Cardinality({r.at : r \in pre}) \in Nat
<1> DEFINE f == [r \in pre |-> r.at]
<1>1. f \in Surjection(pre, {r.at : r \in pre})
  BY DEF Surjection
<1>2. IsFiniteSet({r.at : r \in pre})
  BY <1>1, FS_Surjection
<1> QED BY <1>2, FS_CardinalityType

LEMMA Batches == /\ FirstBatch \in [Draws -> KeyIds] /\ [Draws -> RandomIds] \subseteq [Draws -> KeyIds]
                 /\ << >> \in {<< >>} \cup [Draws -> KeyIds]
<1>1. \A i \in Draws : i + 1 \in KeyIds
  BY IdsAssumption DEF Draws, KeyIds
<1> QED BY <1>1 DEF FirstBatch, KeyIds

(* What the store of a device holds once a batch is stored.                *)
LEMMA StoredKeys ==
  ASSUME NEW held \in SUBSET OneTimeKey, NEW b \in {<< >>} \cup [Draws -> KeyIds],
         NEW n \in Material
  PROVE  Stored(held, b, n) \subseteq OneTimeKey
<1>1. Last(b) \subseteq DOMAIN b
  BY DEF Last
<1>2. \A i \in Last(b) : i \in Draws /\ b[i] \in KeyIds
  BY <1>1, BatchPlaces
<1> QED BY <1>2 DEF Stored, Keys, OneTimeKey

---------------------------------------------------------------------------
(* The steps of a device.                                                  *)
LEMMA DeviceTypes ==
  ASSUME TypeOK, NEW h \in Hooks,
         \/ Start(h) \/ SaveIdentity(h) \/ StoreFirstKeys(h) \/ CompareIdentity(h)
         \/ Resign(h) \/ CountEnough(h)
         \/ \E batch \in [Draws -> RandomIds] : Replenish(h, batch)
  PROVE  TypeOK'
<1> USE DEF server, history
<1>d. DeviceOf[h] \in Devices
  BY DeviceAssumption
<1>1. CASE Start(h)
  <2> DEFINE mine == local[DeviceOf[h]].identity
             c == [step |-> IF mine = 0 THEN "generate" ELSE "compare", n |-> inits + 1,
                   g |-> IF mine = 0 THEN inits + 1 ELSE mine, fresh |-> mine = 0,
                   calm |-> Busy = {}, changed |-> FALSE, row |-> 0,
                   batch |-> IF mine = 0 THEN FirstBatch ELSE << >>, skip |-> {}]
  <2>1. mine \in 0..MaxInits
    BY <1>d DEF TypeOK
  <2>2. inits + 1 \in Material /\ inits' \in 0..MaxInits
    BY <1>1, BoundsAssumption DEF Start, TypeOK, Material
  <2>3. (IF mine = 0 THEN inits + 1 ELSE mine) \in Material
    BY <2>1, <2>2, BoundsAssumption DEF Material
  <2>4. (IF mine = 0 THEN FirstBatch ELSE << >>) \in {<< >>} \cup [Draws -> KeyIds]
    BY Batches
  <2>5. c \in Active
    BY <2>2, <2>3, <2>4 DEF Active, Steps
  <2>6. \A x \in Hooks : task[x] # Idle => [task[x] EXCEPT !.calm = FALSE] \in Active
    BY DEF TypeOK, Active
  <2>7. task' \in [Hooks -> Active \cup {Idle}]
    <3>1. task' = [x \in Hooks |-> IF x = h THEN c ELSE
                     IF task[x] = Idle THEN Idle ELSE [task[x] EXCEPT !.calm = FALSE]]
      BY <1>1 DEF Start
    <3> HIDE DEF c
    <3> QED BY <2>5, <2>6, <3>1
  <2>8. healed' \subseteq Devices /\ disturbed' \subseteq {"overlap", "fault", "collision"}
    BY <1>1 DEF Start, TypeOK
  <2> QED BY <1>1, <2>2, <2>7, <2>8 DEF Start, TypeOK
<1>2. CASE SaveIdentity(h)
  <2>1. task[h].step = "generate" /\ task[h].g \in 0..MaxInits
    BY <1>2, AtStep, BoundsAssumption DEF SaveIdentity, At, Active, Material
  <2>2. local' \in [Devices -> [identity : 0..MaxInits, signed : 0..MaxInits,
                                pre : SUBSET OneTimeKey]]
    BY <1>2, <1>d, <2>1 DEF SaveIdentity, TypeOK
  <2>3. task' \in [Hooks -> Active \cup {Idle}]
    BY <1>2, <2>1, GotoTypes DEF SaveIdentity, Steps
  <2> QED BY <1>2, <2>2, <2>3 DEF SaveIdentity, TypeOK
<1>3. CASE StoreFirstKeys(h)
  <2>1. task[h].step = "store" /\ task[h].n \in 0..MaxInits /\ task[h].n \in Material
        /\ task[h].batch \in {<< >>} \cup [Draws -> KeyIds]
    BY <1>3, AtStep, BoundsAssumption DEF StoreFirstKeys, At, Active, Material
  <2>2. local[DeviceOf[h]].pre \in SUBSET OneTimeKey
    BY <1>d DEF TypeOK
  <2>3. Stored(local[DeviceOf[h]].pre, task[h].batch, task[h].n) \in SUBSET OneTimeKey
    BY <2>1, <2>2, StoredKeys
  <2>4. local' \in [Devices -> [identity : 0..MaxInits, signed : 0..MaxInits,
                                pre : SUBSET OneTimeKey]]
    BY <1>3, <1>d, <2>1, <2>3 DEF StoreFirstKeys, TypeOK
  <2>5. task' \in [Hooks -> Active \cup {Idle}]
    BY <1>3, <2>1, GotoTypes DEF StoreFirstKeys, Steps
  <2> QED BY <1>3, <2>4, <2>5 DEF StoreFirstKeys, TypeOK
<1>4. CASE CompareIdentity(h)
  <2>1. task' \in [Hooks -> Active \cup {Idle}]
    BY <1>4, GotoTypes DEF CompareIdentity, At, Steps
  <2> QED BY <1>4, <2>1 DEF CompareIdentity, TypeOK
<1>5. CASE Resign(h)
  <2>1. task[h].step = "resign" /\ task[h].n \in 0..MaxInits
    BY <1>5, AtStep, BoundsAssumption DEF Resign, At, Active, Material
  <2>2. local' \in [Devices -> [identity : 0..MaxInits, signed : 0..MaxInits,
                                pre : SUBSET OneTimeKey]]
    BY <1>5, <1>d, <2>1 DEF Resign, TypeOK
  <2>3. task' \in [Hooks -> Active \cup {Idle}]
    BY <1>5, <2>1, GotoTypes DEF Resign, Steps
  <2> QED BY <1>5, <2>2, <2>3 DEF Resign, TypeOK
<1>6. CASE CountEnough(h)
  BY <1>6, FinishTypes DEF CountEnough, TypeOK
<1>7. ASSUME NEW batch \in [Draws -> RandomIds], Replenish(h, batch) PROVE TypeOK'
  <2>1. task[h] \in Active /\ task[h].n \in Material /\ batch \in [Draws -> KeyIds]
    BY <1>7, AtStep, Batches DEF Replenish, At, Active
  <2>2. Stored(local[DeviceOf[h]].pre, batch, task[h].n) \in SUBSET OneTimeKey
    <3>1. local[DeviceOf[h]].pre \in SUBSET OneTimeKey
      BY <1>d DEF TypeOK
    <3> QED BY <2>1, <3>1, StoredKeys
  <2>3. local' \in [Devices -> [identity : 0..MaxInits, signed : 0..MaxInits,
                                pre : SUBSET OneTimeKey]]
    <3> DEFINE keys == Stored(local[DeviceOf[h]].pre, batch, task[h].n)
               Keeps == SUBSET OneTimeKey
    <3>1. local' = [local EXCEPT ![DeviceOf[h]].pre = keys] /\ keys \in Keeps
      BY <1>7, <2>2 DEF Replenish
    <3>2. local \in [Devices -> [identity : 0..MaxInits, signed : 0..MaxInits, pre : Keeps]]
      BY DEF TypeOK
    <3> HIDE DEF keys, Keeps
    <3>3. local' \in [Devices -> [identity : 0..MaxInits, signed : 0..MaxInits, pre : Keeps]]
      BY <1>d, <3>1, <3>2
    <3> QED BY <3>3 DEF Keeps
  <2>4. [task[h] EXCEPT !.step = "taken", !.batch = batch] \in Active
    BY <2>1 DEF Active, Steps
  <2>5. task' \in [Hooks -> Active \cup {Idle}]
    BY <1>7, <2>4 DEF Replenish, TypeOK
  <2>6. disturbed' \subseteq {"overlap", "fault", "collision"}
    BY <1>7 DEF Replenish, TypeOK
  <2> QED BY <1>7, <2>3, <2>5, <2>6 DEF Replenish, TypeOK
<1> QED BY <1>1, <1>2, <1>3, <1>4, <1>5, <1>6, <1>7
---------------------------------------------------------------------------
(* The steps of the upload handlers.                                       *)
LEMMA IdentityTypes ==
  ASSUME TypeOK, NEW h \in Hooks,
         IdentityLoad(h) \/ IdentitySave(h) \/ PurgeOneTime(h) \/ PurgeSigned(h)
  PROVE  TypeOK'
<1> USE DEF server, history
<1>a. AfterIdentity(h) \in Steps
  BY DEF AfterIdentity, Steps
<1>1. CASE IdentityLoad(h)
  <2>1. [task[h] EXCEPT !.step = "identitySave", !.changed = identity # task[h].g] \in Active
    BY <1>1, AtStep DEF IdentityLoad, At, Active, Steps
  <2>2. task' \in [Hooks -> Active \cup {Idle}]
    BY <1>1, <2>1 DEF IdentityLoad, TypeOK
  <2> QED BY <1>1, <2>2 DEF IdentityLoad, TypeOK
<1>2. CASE IdentitySave(h)
  <2>1. (IF task[h].changed THEN "purgeOneTime" ELSE AfterIdentity(h)) \in Steps
    BY <1>a DEF Steps
  <2>2. task' \in [Hooks -> Active \cup {Idle}]
    BY <1>2, <2>1, GotoTypes DEF IdentitySave, At
  <2>3. identity' \in 0..MaxInits
    BY <1>2, AtStep, BoundsAssumption DEF IdentitySave, At, Active, Material
  <2> QED BY <1>2, <2>2, <2>3 DEF IdentitySave, TypeOK
<1>3. CASE PurgeOneTime(h)
  <2>1. task' \in [Hooks -> Active \cup {Idle}]
    BY <1>3, GotoTypes DEF PurgeOneTime, At, Steps
  <2> QED BY <1>3, <2>1 DEF PurgeOneTime, TypeOK
<1>4. CASE PurgeSigned(h)
  <2>1. task' \in [Hooks -> Active \cup {Idle}]
    BY <1>4, <1>a, GotoTypes DEF PurgeSigned, At
  <2> QED BY <1>4, <2>1 DEF PurgeSigned, TypeOK
<1> QED BY <1>1, <1>2, <1>3, <1>4

LEMMA SignedTypes ==
  ASSUME TypeOK, NEW h \in Hooks,
         SignedFind(h) \/ SignedUpdate(h) \/ SignedInsert(h) \/ SignedPrune(h)
  PROVE  TypeOK'
<1> USE DEF server, history
<1>s. signed \in Seq(SignedRow) /\ \A i \in 1..Len(signed) : signed[i] \in SignedRow
  BY DEF TypeOK
<1>a. AfterSigned(h) \in Steps
  BY DEF AfterSigned, Steps
<1>1. CASE SignedFind(h)
  <2>1. PICK row \in IF signed = << >> THEN {0} ELSE {signed[i].id : i \in DOMAIN signed} :
          task' = [task EXCEPT ![h].step = "signedSave", ![h].row = row]
    BY <1>1 DEF SignedFind
  <2>2. row \in Material \cup {0}
    BY <1>s, <2>1 DEF SignedRow
  <2>3. [task[h] EXCEPT !.step = "signedSave", !.row = row] \in Active
    BY <1>1, <2>2, AtStep DEF SignedFind, At, Active, Steps
  <2>4. task' \in [Hooks -> Active \cup {Idle}]
    BY <2>1, <2>3 DEF TypeOK
  <2> QED BY <1>1, <2>4 DEF SignedFind, TypeOK
<1>2. CASE SignedUpdate(h)
  <2> DEFINE row == [id |-> task[h].row, by |-> task[h].g, mat |-> task[h].n]
  <2>1. row \in SignedRow
    BY <1>2, AtStep DEF SignedUpdate, At, Active, SignedRow
  <2>2. signed' \in Seq(SignedRow)
    <3>1. [i \in DOMAIN signed |-> IF signed[i].id = row.id THEN row ELSE signed[i]]
            \in Seq(SignedRow)
      BY <1>s, <2>1
    <3>2. <<row>> \o signed \in Seq(SignedRow)
      BY <1>s, <2>1, ConcatProperties
    <3> QED BY <1>2, <3>1, <3>2 DEF SignedUpdate
  <2>3. task' \in [Hooks -> Active \cup {Idle}]
    BY <1>2, <1>a, GotoTypes DEF SignedUpdate, At
  <2> QED BY <1>2, <2>2, <2>3 DEF SignedUpdate, TypeOK
<1>3. CASE SignedInsert(h)
  <2>1. [id |-> task[h].n, by |-> task[h].g, mat |-> task[h].n] \in SignedRow
    BY <1>3, AtStep DEF SignedInsert, At, Active, SignedRow
  <2>2. signed' \in Seq(SignedRow)
    BY <1>3, <1>s, <2>1, AppendProperties DEF SignedInsert
  <2>3. task' \in [Hooks -> Active \cup {Idle}]
    BY <1>3, GotoTypes DEF SignedInsert, At, Steps
  <2> QED BY <1>3, <2>2, <2>3 DEF SignedInsert, TypeOK
<1>4. CASE SignedPrune(h)
  <2> DEFINE from == IF Len(signed) > 2 THEN Len(signed) - 1 ELSE 1
  <2>1. Len(signed) \in Nat /\ from \in Int /\ from >= 1
    BY <1>s
  <2>2. \A i \in from .. Len(signed) : signed[i] \in SignedRow
    BY <1>s, <2>1
  <2>3. SubSeq(signed, from, Len(signed)) \in Seq(SignedRow)
    <3> HIDE DEF from
    <3> QED BY <2>1, <2>2, SubSeqProperties
  <2>4. task' \in [Hooks -> Active \cup {Idle}]
    BY <1>4, <1>a, GotoTypes DEF SignedPrune, At
  <2> QED BY <1>4, <2>3, <2>4 DEF SignedPrune, TypeOK
<1> QED BY <1>1, <1>2, <1>3, <1>4

LEMMA BatchTypes ==
  ASSUME TypeOK, IsFiniteSet(pre), NEW h \in Hooks, ReadTaken(h) \/ InsertFresh(h)
  PROVE  TypeOK' /\ IsFiniteSet(pre')
<1> USE DEF server, history
<1>1. CASE ReadTaken(h)
  <2>1. {r.keyId : r \in pre} \in SUBSET KeyIds
    BY DEF TypeOK, OneTimeRow
  <2>2. [task[h] EXCEPT !.step = "insert", !.skip = {r.keyId : r \in pre}] \in Active
    BY <1>1, <2>1, AtStep DEF ReadTaken, At, Active, Steps
  <2>3. task' \in [Hooks -> Active \cup {Idle}]
    BY <1>1, <2>2 DEF ReadTaken, TypeOK
  <2> QED BY <1>1, <2>3 DEF ReadTaken, TypeOK
<1>2. CASE InsertFresh(h)
  <2> DEFINE next == Cardinality({r.at : r \in pre}) + 1
             rows == {NewRow(h, i, next) : i \in Fresh(h)}
  <2>1. next \in Nat \ {0}
    BY TimesFinite
  <2>2. task[h].n \in Material /\ Fresh(h) \subseteq DOMAIN task[h].batch
        /\ task[h].batch \in {<< >>} \cup [Draws -> KeyIds]
    BY <1>2, AtStep DEF InsertFresh, At, Active, Fresh
  <2>3. rows \subseteq OneTimeRow
    <3>1. \A i \in Fresh(h) : i \in Draws /\ task[h].batch[i] \in KeyIds
      BY <2>2, BatchPlaces
    <3> HIDE DEF next
    <3>2. \A i \in Fresh(h) : NewRow(h, i, next) \in OneTimeRow
      BY <2>1, <2>2, <3>1 DEF OneTimeRow, NewRow
    <3> QED BY <3>2
  <2>4. IsFiniteSet(Fresh(h))
    BY <2>2, BatchPlaces, FS_Subset
  <2>5. IsFiniteSet(rows)
    BY <2>4, BatchFinite
  <2>6. pre' = pre \cup rows
    BY <1>2 DEF InsertFresh
  <2>7. task' \in [Hooks -> Active \cup {Idle}] /\ healed' \subseteq Devices
    BY <1>2, FinishTypes DEF InsertFresh
  <2> HIDE DEF rows
  <2>8. pre' \subseteq OneTimeRow /\ IsFiniteSet(pre')
    BY <2>3, <2>5, <2>6, FS_Union DEF TypeOK
  <2> QED BY <1>2, <2>7, <2>8 DEF InsertFresh, TypeOK
<1> QED BY <1>1, <1>2

LEMMA FaultyTypes ==
  ASSUME TypeOK, NEW h \in Hooks, CallFails(h) \/ TabCloses(h)
  PROVE  TypeOK'
<1> USE DEF server, history
<1>1. disturbed' \subseteq {"overlap", "fault", "collision"}
      /\ spent' \in [fetches : 0..MaxFetches, faults : 0..MaxFaults]
  BY FaultTypes DEF CallFails, TabCloses
<1>2. CASE CallFails(h)
  <2>1. task[h] \in Active
    BY <1>2, AtStep DEF CallFails, Calls, Steps
  <2>2. ResumeAt(h) \in Steps \cup {"idle"}
    BY DEF ResumeAt, Steps
  <2>3. ResumeAt(h) # "idle" => [task[h] EXCEPT !.step = ResumeAt(h), !.calm = FALSE] \in Active
    BY <2>1, <2>2 DEF Active
  <2>4. task' \in [Hooks -> Active \cup {Idle}]
    BY <1>2, <2>3 DEF CallFails, TypeOK
  <2> QED BY <1>1, <1>2, <2>4 DEF CallFails, TypeOK
<1>3. CASE TabCloses(h)
  BY <1>1, <1>3 DEF TabCloses, TypeOK
<1> QED BY <1>2, <1>3

(* The steps of a fetch.                                                   *)
LEMMA FetchTypes ==
  ASSUME TypeOK, IsFiniteSet(pre), NEW p \in Peers, GetPreKeyBundle(p)
  PROVE  TypeOK' /\ IsFiniteSet(pre')
<1> USE DEF server, history
<1> DEFINE Fetches == [step : {"signed", "claim"}, no : 1..MaxFetches,
                       identity : Material, by : Material, beside : BOOLEAN]
<1>f. fetch \in [Peers -> Fetches \cup {Idle}]
  BY DEF TypeOK
<1>p. Publishing \in BOOLEAN
  BY DEF Publishing
<1>i. fetch[p].step # "idle" => fetch[p] \in Fetches
  BY <1>f DEF Idle
<1>1. CASE FetchIdentity(p)
  <2>1. identity \in Material
    BY <1>1, BoundsAssumption DEF FetchIdentity, TypeOK, Material
  <2>2. spent.fetches + 1 \in 1..MaxFetches
    BY <1>1, BoundsAssumption DEF FetchIdentity, TypeOK
  <2>3. [step |-> "signed", no |-> spent.fetches + 1, identity |-> identity, by |-> identity,
         beside |-> Publishing] \in Fetches
    BY <1>p, <2>1, <2>2
  <2>4. fetch' \in [Peers -> Fetches \cup {Idle}]
    BY <1>1, <1>f, <2>3 DEF FetchIdentity
  <2>5. spent' \in [fetches : 0..MaxFetches, faults : 0..MaxFaults]
    BY <1>1, <2>2, BoundsAssumption DEF FetchIdentity, TypeOK
  <2> QED BY <1>1, <2>4, <2>5 DEF FetchIdentity, TypeOK
<1>2. CASE FetchSigned(p)
  <2>1. fetch[p] \in Fetches
    BY <1>2, <1>i DEF FetchSigned
  <2>2. ASSUME signed # << >> PROVE signed[Len(signed)].by \in Material
    <3>1. Len(signed) \in 1..Len(signed)
      BY <2>2 DEF TypeOK
    <3>2. signed[Len(signed)] \in SignedRow
      BY <3>1 DEF TypeOK
    <3> QED BY <3>2 DEF SignedRow
  <2>3. ASSUME signed # << >>
        PROVE  [fetch[p] EXCEPT !.step = "claim", !.by = signed[Len(signed)].by,
                 !.beside = fetch[p].beside \/ Publishing \/ identity # fetch[p].identity] \in Fetches
    BY <2>1, <2>2, <2>3
  <2>4. fetch' \in [Peers -> Fetches \cup {Idle}]
    BY <1>2, <1>f, <2>3 DEF FetchSigned
  <2> QED BY <1>2, <2>4 DEF FetchSigned, TypeOK
<1>3. CASE Claim(p)
  <2>1. fetch[p] \in Fetches
    BY <1>3, <1>i DEF Claim
  <2>2. fetch' \in [Peers -> Fetches \cup {Idle}] /\ mixed' \in BOOLEAN
    BY <1>3, <1>f DEF Claim, TypeOK
  <2>3. ASSUME NEW r \in Oldest,
               pre' = (pre \ {r}) \cup {[r EXCEPT !.used = TRUE]},
               handed' = handed \cup {[no |-> fetch[p].no, key |-> KeyOf(r)]}
        PROVE  /\ pre' \subseteq OneTimeRow /\ IsFiniteSet(pre')
               /\ handed' \subseteq [no : 1..MaxFetches, key : OneTimeKey]
    <3>1. r \in OneTimeRow
      BY DEF Oldest, Unused, TypeOK
    <3>2. [r EXCEPT !.used = TRUE] \in OneTimeRow
      BY <3>1 DEF OneTimeRow
    <3>3. [no |-> fetch[p].no, key |-> KeyOf(r)] \in [no : 1..MaxFetches, key : OneTimeKey]
      BY <2>1, <3>1 DEF OneTimeRow, OneTimeKey, KeyOf
    <3>4. IsFiniteSet(pre \ {r})
      BY FS_Subset
    <3> QED BY <2>3, <3>2, <3>3, <3>4, FS_AddElement DEF TypeOK
  <2>4. /\ pre' \subseteq OneTimeRow /\ IsFiniteSet(pre')
        /\ handed' \subseteq [no : 1..MaxFetches, key : OneTimeKey]
    BY <1>3, <2>3 DEF Claim, TypeOK
  <2> QED BY <1>3, <2>2, <2>4 DEF Claim, TypeOK
<1> QED BY <1>1, <1>2, <1>3 DEF GetPreKeyBundle
---------------------------------------------------------------------------
(* The one-time pre-keys of a user are a finite table.                     *)
Types == TypeOK /\ IsFiniteSet(pre)

LEMMA InitTypes == Init => Types
<1> SUFFICES ASSUME Init PROVE Types
  OBVIOUS
<1>1. local \in [Devices -> [identity : 0..MaxInits, signed : 0..MaxInits,
                             pre : SUBSET OneTimeKey]]
  BY BoundsAssumption DEF Init
<1>2. spent \in [fetches : 0..MaxFetches, faults : 0..MaxFaults]
  BY BoundsAssumption DEF Init
<1>3. signed \in Seq(SignedRow)
  BY DEF Init
<1>4. identity \in 0..MaxInits /\ inits \in 0..MaxInits
  BY BoundsAssumption DEF Init
<1> QED BY <1>1, <1>2, <1>3, <1>4, FS_EmptySet DEF Init, Types, TypeOK

LEMMA StepTypes == Types /\ [Next]_vars => Types'
<1> SUFFICES ASSUME Types, [Next]_vars PROVE Types'
  OBVIOUS
<1>1. ASSUME NEW h \in Hooks, Initialize(h) PROVE Types'
  <2>1. CASE ReadTaken(h) \/ InsertFresh(h)
    BY <2>1, BatchTypes DEF Types
  <2>2. CASE ~(ReadTaken(h) \/ InsertFresh(h))
    <3>1. TypeOK'
      BY <1>1, <2>2, DeviceTypes, IdentityTypes, SignedTypes, FaultyTypes DEF Initialize, Types
    <3>2. pre' \in {pre, {}}
      BY <1>1, <2>2 DEF Initialize, Start, SaveIdentity, StoreFirstKeys, CompareIdentity, Resign,
         CountEnough, Replenish, IdentityLoad, IdentitySave, PurgeOneTime, PurgeSigned,
         SignedFind, SignedUpdate, SignedInsert, SignedPrune, CallFails, TabCloses, server
    <3> QED BY <3>1, <3>2, FS_EmptySet DEF Types
  <2> QED BY <2>1, <2>2
<1>2. ASSUME NEW p \in Peers, GetPreKeyBundle(p) PROVE Types'
  BY <1>2, FetchTypes DEF Types
<1>3. CASE UNCHANGED vars
  BY <1>3 DEF vars, server, history, Types, TypeOK
<1> QED BY <1>1, <1>2, <1>3 DEF Next

(* The tables, the stores of the devices and the calls under way keep their *)
(* types, for every number of hooks, devices, peers and key ids.           *)
THEOREM KeyTypes == Spec => []TypeOK
<1>1. Types => TypeOK
  BY DEF Types
<1> QED BY <1>1, InitTypes, StepTypes, PTL DEF Spec
---------------------------------------------------------------------------
(* What a step of a hook's initialize, other than its start, leaves alone. *)
Goes(h) == /\ task[h] # Idle
           /\ \A x \in Hooks \ {h} : task'[x] = task[x]
           /\ \/ task'[h] = Idle
              \/ /\ task'[h] # Idle /\ task'[h].n = task[h].n /\ task'[h].g = task[h].g
                 /\ task'[h].calm => task[h].calm
                 /\ task'[h].step = "insert" => ReadTaken(h)
                 /\ \/ task'[h].batch = task[h].batch
                    \/ \E batch \in [Draws -> RandomIds] : Replenish(h, batch) /\ task'[h].batch = batch

LEMMA GotoGoes ==
  ASSUME TypeOK, NEW h \in Hooks, task[h].step # "idle", NEW s \in Steps \ {"insert"}, Goto(h, s)
  PROVE  Goes(h)
<1>1. task[h] \in Active
  BY AtStep
<1>2. task'[h] = [task[h] EXCEPT !.step = s] /\ task'[h] # Idle
      /\ \A x \in Hooks \ {h} : task'[x] = task[x]
  BY GotoTypes
<1> QED BY <1>1, <1>2, AtStep DEF Goes, Active

LEMMA FinishGoes ==
  ASSUME TypeOK, NEW h \in Hooks, task[h].step # "idle", Finish(h)
  PROVE  Goes(h)
  BY AtStep DEF Finish, Goes, TypeOK

(* The other writes of a hook to its own task.                             *)
LEMMA WriteGoes ==
  ASSUME TypeOK, NEW h \in Hooks, task[h].step # "idle", NEW c \in Active,
         task' = [task EXCEPT ![h] = c], c.n = task[h].n, c.g = task[h].g,
         c.calm => task[h].calm, c.step = "insert" => ReadTaken(h),
         \/ c.batch = task[h].batch
         \/ \E batch \in [Draws -> RandomIds] : Replenish(h, batch) /\ c.batch = batch
  PROVE  Goes(h)
<1>1. c # Idle
  BY DEF Active, Steps, Idle
<1> QED BY <1>1, AtStep DEF Goes, TypeOK

Uploads(h) == IdentityLoad(h) \/ IdentitySave(h) \/ PurgeOneTime(h) \/ PurgeSigned(h)
              \/ SignedFind(h) \/ SignedUpdate(h) \/ SignedInsert(h) \/ SignedPrune(h)
              \/ ReadTaken(h) \/ InsertFresh(h)
Works(h) == SaveIdentity(h) \/ StoreFirstKeys(h) \/ CompareIdentity(h) \/ Resign(h)
            \/ CountEnough(h) \/ (\E batch \in [Draws -> RandomIds] : Replenish(h, batch))
            \/ CallFails(h) \/ TabCloses(h)

LEMMA UploadsGoes ==
  ASSUME TypeOK, NEW h \in Hooks, Uploads(h)
  PROVE  Goes(h)
<1>0. task[h].step # "idle" /\ task[h] \in Active
  BY AtStep DEF Uploads, IdentityLoad, IdentitySave, PurgeOneTime, PurgeSigned, SignedFind,
     SignedUpdate, SignedInsert, SignedPrune, ReadTaken, InsertFresh, At
<1>1. CASE IdentityLoad(h)
  <2> DEFINE c == [task[h] EXCEPT !.step = "identitySave", !.changed = identity # task[h].g]
  <2>1. c \in Active /\ c.n = task[h].n /\ c.g = task[h].g /\ c.calm = task[h].calm
        /\ c.step # "insert" /\ c.batch = task[h].batch
    BY <1>0 DEF Active, Steps
  <2>2. task' = [task EXCEPT ![h] = c]
    BY <1>1 DEF IdentityLoad
  <2> HIDE DEF c
  <2> QED BY <1>0, <2>1, <2>2, WriteGoes
<1>2. CASE IdentitySave(h)
  <2>1. (IF task[h].changed THEN "purgeOneTime" ELSE AfterIdentity(h)) \in Steps \ {"insert"}
    BY DEF Steps, AfterIdentity
  <2> QED BY <1>0, <1>2, <2>1, GotoGoes DEF IdentitySave
<1>3. CASE PurgeOneTime(h)
  BY <1>0, <1>3, GotoGoes DEF PurgeOneTime, Steps
<1>4. CASE PurgeSigned(h)
  <2>1. AfterIdentity(h) \in Steps \ {"insert"}
    BY DEF Steps, AfterIdentity
  <2> QED BY <1>0, <1>4, <2>1, GotoGoes DEF PurgeSigned
<1>a. AfterSigned(h) \in Steps \ {"insert"}
  BY DEF Steps, AfterSigned
<1>5. CASE SignedFind(h)
  <2>1. PICK row \in IF signed = << >> THEN {0} ELSE {signed[i].id : i \in DOMAIN signed} :
          task' = [task EXCEPT ![h].step = "signedSave", ![h].row = row]
    BY <1>5 DEF SignedFind
  <2>2. row \in Material \cup {0}
    <3>1. \A i \in 1..Len(signed) : signed[i] \in SignedRow
      BY DEF TypeOK
    <3>2. DOMAIN signed = 1..Len(signed)
      BY DEF TypeOK
    <3> QED BY <2>1, <3>1, <3>2 DEF SignedRow
  <2> DEFINE c == [task[h] EXCEPT !.step = "signedSave", !.row = row]
  <2>3. c \in Active /\ c.n = task[h].n /\ c.g = task[h].g /\ c.calm = task[h].calm
        /\ c.step # "insert" /\ c.batch = task[h].batch
    BY <1>0, <2>2 DEF Active, Steps
  <2>4. task' = [task EXCEPT ![h] = c]
    BY <2>1
  <2> HIDE DEF c
  <2> QED BY <1>0, <2>3, <2>4, WriteGoes
<1>6. CASE SignedUpdate(h)
  BY <1>0, <1>6, <1>a, GotoGoes DEF SignedUpdate
<1>7. CASE SignedInsert(h)
  BY <1>0, <1>7, GotoGoes DEF SignedInsert, Steps
<1>8. CASE SignedPrune(h)
  BY <1>0, <1>8, <1>a, GotoGoes DEF SignedPrune
<1>9. CASE ReadTaken(h)
  <2> DEFINE c == [task[h] EXCEPT !.step = "insert", !.skip = {r.keyId : r \in pre}]
  <2>1. {r.keyId : r \in pre} \in SUBSET KeyIds
    BY DEF TypeOK, OneTimeRow
  <2>2. c \in Active /\ c.n = task[h].n /\ c.g = task[h].g /\ c.calm = task[h].calm
        /\ c.batch = task[h].batch
    BY <1>0, <2>1 DEF Active, Steps
  <2>3. task' = [task EXCEPT ![h] = c]
    BY <1>9 DEF ReadTaken
  <2> HIDE DEF c
  <2> QED BY <1>0, <1>9, <2>2, <2>3, WriteGoes
<1>10. CASE InsertFresh(h)
  BY <1>0, <1>10, FinishGoes DEF InsertFresh
<1> QED BY <1>1, <1>2, <1>3, <1>4, <1>5, <1>6, <1>7, <1>8, <1>9, <1>10 DEF Uploads

LEMMA WorksGoes ==
  ASSUME TypeOK, NEW h \in Hooks, Works(h)
  PROVE  Goes(h)
<1>0. task[h].step # "idle" /\ task[h] \in Active
  <2>1. CASE TabCloses(h)
    BY <2>1 DEF TabCloses, TypeOK, Active, Steps
  <2> QED BY <2>1, AtStep DEF Works, SaveIdentity, StoreFirstKeys, CompareIdentity, Resign,
         CountEnough, Replenish, CallFails, At, Calls, Steps
<1>1. CASE SaveIdentity(h)
  BY <1>0, <1>1, GotoGoes DEF SaveIdentity, Steps
<1>2. CASE StoreFirstKeys(h)
  BY <1>0, <1>2, GotoGoes DEF StoreFirstKeys, Steps
<1>3. CASE CompareIdentity(h)
  <2>1. (IF identity = task[h].g THEN "count" ELSE "identityLoad") \in Steps \ {"insert"}
    BY DEF Steps
  <2> QED BY <1>0, <1>3, <2>1, GotoGoes DEF CompareIdentity
<1>4. CASE Resign(h)
  BY <1>0, <1>4, GotoGoes DEF Resign, Steps
<1>5. CASE CountEnough(h)
  BY <1>0, <1>5, FinishGoes DEF CountEnough
<1>6. ASSUME NEW batch \in [Draws -> RandomIds], Replenish(h, batch) PROVE Goes(h)
  <2> DEFINE c == [task[h] EXCEPT !.step = "taken", !.batch = batch]
  <2>1. c \in Active /\ c.n = task[h].n /\ c.g = task[h].g /\ c.calm = task[h].calm
        /\ c.step # "insert" /\ c.batch = batch
    BY <1>0, Batches DEF Active, Steps
  <2>2. task' = [task EXCEPT ![h] = c]
    BY <1>6 DEF Replenish
  <2> HIDE DEF c
  <2> QED BY <1>0, <1>6, <2>1, <2>2, WriteGoes
<1>7. CASE CallFails(h)
  <2> DEFINE c == [task[h] EXCEPT !.step = ResumeAt(h), !.calm = FALSE]
  <2>1. ResumeAt(h) \in (Steps \ {"insert"}) \cup {"idle"}
    BY DEF ResumeAt, Steps
  <2>2. ASSUME ResumeAt(h) # "idle"
        PROVE  c \in Active /\ c.n = task[h].n /\ c.g = task[h].g /\ c.calm = FALSE
               /\ c.step # "insert" /\ c.batch = task[h].batch /\ task' = [task EXCEPT ![h] = c]
    BY <1>0, <1>7, <2>1, <2>2 DEF Active, CallFails
  <2>3. CASE ResumeAt(h) = "idle"
    BY <1>0, <1>7, <2>3, AtStep DEF CallFails, Goes, TypeOK
  <2>4. CASE ResumeAt(h) # "idle"
    <3> HIDE DEF c
    <3> QED BY <1>0, <2>2, <2>4, WriteGoes
  <2> QED BY <2>3, <2>4
<1>8. CASE TabCloses(h)
  BY <1>0, <1>8, AtStep DEF TabCloses, Goes, TypeOK
<1> QED BY <1>1, <1>2, <1>3, <1>4, <1>5, <1>6, <1>7, <1>8 DEF Works

(* The start of an initialize gives it a number nobody has.                 *)
LEMMA StartGoes ==
  ASSUME TypeOK, NEW h \in Hooks, Start(h)
  PROVE  /\ task[h] = Idle /\ task'[h].n = inits + 1 /\ inits' = inits + 1
         /\ task'[h].step \in {"generate", "compare"} /\ UNCHANGED <<pre, handed>>
         /\ \A x \in Hooks \ {h} :
              /\ task[x] = Idle => task'[x] = Idle
              /\ task[x] # Idle => /\ task'[x].n = task[x].n /\ ~task'[x].calm
                                   /\ task'[x].step = task[x].step
                                   /\ task'[x].skip = task[x].skip
<1>1. \A x \in Hooks \ {h} : task[x] # Idle => task[x] \in Active
  BY DEF TypeOK
<1> QED BY <1>1 DEF Start, Active, server

LEMMA InitializeSplits ==
  ASSUME NEW h \in Hooks, Initialize(h)
  PROVE  Start(h) \/ Works(h) \/ Uploads(h)
  BY DEF Initialize, Works, Uploads
---------------------------------------------------------------------------
(* Every row and every key handed out belong to an initialize that began,   *)
(* none of them to one that is under way: it uploads its batch at its end.  *)
(* A key that was handed out is not among the unused rows.                 *)
HandInv ==
    /\ Types
    /\ \A g, h \in Hooks : task[g] # Idle /\ task[h] # Idle /\ task[g].n = task[h].n => g = h
    /\ \A h \in Hooks : task[h] # Idle => task[h].n <= inits
    /\ \A r \in pre : r.mat <= inits
    /\ \A a \in handed : a.key.mat <= inits
    /\ \A h \in Hooks : task[h] # Idle => /\ \A r \in pre : r.mat # task[h].n
                                         /\ \A a \in handed : a.key.mat # task[h].n
    /\ \A r, s \in pre : KeyOf(r) = KeyOf(s) => r = s
    /\ \A r \in Unused, a \in handed : KeyOf(r) # a.key
    /\ HandedOnce

LEMMA HandTyped ==
  ASSUME HandInv
  PROVE  /\ TypeOK /\ inits \in Nat
         /\ \A h \in Hooks : task[h] # Idle => task[h].n \in Nat
         /\ \A r \in pre : r.mat \in Nat
         /\ \A a \in handed : a.key.mat \in Nat
<1>1. TypeOK
  BY DEF HandInv, Types
<1>2. inits \in Nat /\ Material \subseteq Nat
  BY <1>1, BoundsAssumption DEF TypeOK, Material
<1> QED BY <1>1, <1>2 DEF TypeOK, OneTimeRow, OneTimeKey, Active

(* The upload of a batch that nobody has seen.                             *)
LEMMA InsertHands ==
  ASSUME HandInv, NEW h \in Hooks, InsertFresh(h), Types'
  PROVE  HandInv'
<1> DEFINE next == Cardinality({r.at : r \in pre}) + 1
           rows == {NewRow(h, i, next) : i \in Fresh(h)}
<1>1. pre' = pre \cup rows /\ handed' = handed /\ inits' = inits
  BY DEF InsertFresh
<1>2. Goes(h) /\ task'[h] = Idle /\ task[h] # Idle
  <2>1. Goes(h)
    BY UploadsGoes DEF HandInv, Types, Uploads
  <2>2. task'[h] = Idle
    BY DEF InsertFresh, Finish, HandInv, Types, TypeOK
  <2> QED BY <2>1, <2>2 DEF Goes
<1>3. \A r \in rows : r.mat = task[h].n /\ r = NewRow(h, r.draw, next)
  BY DEF NewRow
<1> HIDE DEF rows, next
<1>4. \A r, s \in rows : KeyOf(r) = KeyOf(s) => r = s
  BY <1>3 DEF KeyOf
<1>k. \A r, s : KeyOf(r) = KeyOf(s) => r.mat = s.mat
  BY DEF KeyOf
<1>a. \A r : KeyOf(r).mat = r.mat
  BY DEF KeyOf
<1>5. \A x \in Hooks : task'[x] # Idle => x # h /\ task'[x] = task[x]
  BY <1>2 DEF Goes
<1>6. \A x \in Hooks : task'[x] # Idle => task[x].n # task[h].n
  BY <1>2, <1>5 DEF HandInv
<1>7. \A r, s \in pre' : KeyOf(r) = KeyOf(s) => r = s
  BY <1>1, <1>2, <1>3, <1>4, <1>k DEF HandInv
<1>8. \A r \in Unused', a \in handed : KeyOf(r) # a.key
  BY <1>1, <1>2, <1>3, <1>a DEF HandInv, Unused
<1>9. \A r \in pre' : r.mat <= inits
  BY <1>1, <1>2, <1>3 DEF HandInv
<1>10. \A x \in Hooks : task'[x] # Idle => /\ \A r \in pre' : r.mat # task[x].n
                                          /\ \A a \in handed : a.key.mat # task[x].n
  BY <1>1, <1>3, <1>5, <1>6 DEF HandInv
<1> QED BY <1>1, <1>5, <1>7, <1>8, <1>9, <1>10 DEF HandInv, HandedOnce

LEMMA HookHands ==
  ASSUME HandInv, NEW h \in Hooks, Initialize(h), Types'
  PROVE  HandInv'
<1>t. TypeOK
  BY DEF HandInv, Types
<1>1. CASE Start(h)
  <2>1. /\ task'[h].n = inits + 1 /\ inits' = inits + 1 /\ UNCHANGED <<pre, handed>>
        /\ \A x \in Hooks \ {h} : task'[x] # Idle => task[x] # Idle /\ task'[x].n = task[x].n
    BY <1>1, <1>t, StartGoes
  <2>2. \A x, y \in Hooks : task'[x] # Idle /\ task'[y] # Idle /\ task'[x].n = task'[y].n => x = y
    BY <2>1, HandTyped DEF HandInv
  <2>3. /\ \A x \in Hooks : task'[x] # Idle => task'[x].n <= inits'
        /\ \A r \in pre' : r.mat <= inits' /\ r.mat # inits'
        /\ \A a \in handed' : a.key.mat <= inits' /\ a.key.mat # inits'
    BY <2>1, HandTyped DEF HandInv
  <2>4. \A x \in Hooks : task'[x] # Idle => /\ \A r \in pre' : r.mat # task'[x].n
                                           /\ \A a \in handed' : a.key.mat # task'[x].n
    BY <2>1, <2>3 DEF HandInv
  <2> QED BY <2>1, <2>2, <2>3, <2>4 DEF HandInv, HandedOnce, Unused
<1>2. CASE InsertFresh(h)
  BY <1>2, InsertHands
<1>3. CASE ~Start(h) /\ ~InsertFresh(h)
  <2>1. Goes(h)
    BY <1>t, <1>3, InitializeSplits, UploadsGoes, WorksGoes
  <2>2. pre' \subseteq pre /\ handed' = handed /\ inits' = inits
    BY <1>3 DEF Initialize, Start, SaveIdentity, StoreFirstKeys, CompareIdentity, Resign,
       CountEnough, Replenish, IdentityLoad, IdentitySave, PurgeOneTime, PurgeSigned, SignedFind,
       SignedUpdate, SignedInsert, SignedPrune, ReadTaken, CallFails, TabCloses, server, history
  <2>3. \A x \in Hooks : task'[x] # Idle => task[x] # Idle /\ task'[x].n = task[x].n
    BY <2>1 DEF Goes
  <2>4. Unused' \subseteq Unused
    BY <2>2 DEF Unused
  <2> QED BY <2>2, <2>3, <2>4 DEF HandInv, HandedOnce
<1> QED BY <1>1, <1>2, <1>3

(* A claim hands out an unused row, which it marks.                        *)
LEMMA ClaimHands ==
  ASSUME HandInv, NEW p \in Peers, GetPreKeyBundle(p), Types'
  PROVE  HandInv'
<1>1. UNCHANGED <<task, inits>>
  BY DEF GetPreKeyBundle, FetchIdentity, FetchSigned, Claim
<1>2. CASE UNCHANGED <<pre, handed>>
  BY <1>1, <1>2 DEF HandInv, HandedOnce, Unused
<1>3. ASSUME NEW r \in Oldest,
             pre' = (pre \ {r}) \cup {[r EXCEPT !.used = TRUE]},
             handed' = handed \cup {[no |-> fetch[p].no, key |-> KeyOf(r)]}
      PROVE  HandInv'
  <2>1. r \in pre /\ r \in Unused /\ r \in OneTimeRow
    BY DEF Oldest, Unused, HandInv, Types, TypeOK
  <2> DEFINE u == [r EXCEPT !.used = TRUE]
             a == [no |-> fetch[p].no, key |-> KeyOf(r)]
  <2>2. KeyOf(u) = KeyOf(r) /\ u.mat = r.mat /\ u.used
    BY <2>1 DEF OneTimeRow, KeyOf
  <2>3. a.key = KeyOf(r) /\ a.key.mat = r.mat
    BY DEF KeyOf
  <2>4. pre' = (pre \ {r}) \cup {u} /\ handed' = handed \cup {a}
    BY <1>3
  <2> HIDE DEF u, a
  <2>5. Unused' = Unused \ {r}
    BY <2>1, <2>2, <2>4 DEF Unused
  <2>6. \A s, t \in pre' : KeyOf(s) = KeyOf(t) => s = t
    BY <2>1, <2>2, <2>4 DEF HandInv
  <2>7. \A s \in Unused', b \in handed' : KeyOf(s) # b.key
    <3>1. \A s \in Unused' : s \in pre /\ s # r
      BY <2>5 DEF Unused
    <3> QED BY <2>1, <2>3, <2>4, <2>5, <3>1 DEF HandInv
  <2>8. HandedOnce'
    BY <2>1, <2>3, <2>4 DEF HandInv, HandedOnce
  <2>9. /\ \A s \in pre' : s.mat <= inits
        /\ \A b \in handed' : b.key.mat <= inits
        /\ \A h \in Hooks : task[h] # Idle => /\ \A s \in pre' : s.mat # task[h].n
                                             /\ \A b \in handed' : b.key.mat # task[h].n
    BY <2>1, <2>2, <2>3, <2>4 DEF HandInv
  <2> QED BY <1>1, <2>6, <2>7, <2>8, <2>9 DEF HandInv
<1> QED BY <1>2, <1>3 DEF GetPreKeyBundle, FetchIdentity, FetchSigned, Claim, server, history

LEMMA HandStart == Init => HandInv
<1> SUFFICES ASSUME Init PROVE HandInv
  OBVIOUS
<1>1. pre = {} /\ handed = {} /\ \A h \in Hooks : task[h] = Idle
  BY DEF Init
<1> QED BY <1>1, InitTypes DEF HandInv, HandedOnce, Unused

LEMMA HandStep == HandInv /\ [Next]_vars => HandInv'
<1> SUFFICES ASSUME HandInv, [Next]_vars PROVE HandInv'
  OBVIOUS
<1>1. Types'
  BY StepTypes DEF HandInv
<1>2. CASE UNCHANGED vars
  BY <1>1, <1>2 DEF vars, server, history, HandInv, HandedOnce, Unused
<1> QED BY <1>1, <1>2, HookHands, ClaimHands DEF Next

(* "Two peers fetching a bundle at the same instant must not receive the    *)
(* same one-time pre-key": for every number of devices, hooks, fetches and  *)
(* keys, however rotations, uploads and their failures interleave.         *)
THEOREM NoKeyTwice == Spec => []HandedOnce
<1>1. HandInv => HandedOnce
  BY DEF HandInv
<1> QED BY <1>1, HandStart, HandStep, PTL DEF Spec
---------------------------------------------------------------------------
(* While no two calls overlap, the ids a call skips are those of all rows.  *)
UniqueInv ==
    /\ Types
    /\ \/ "overlap" \in disturbed
       \/ /\ \A g, h \in Hooks : task[g] # Idle /\ task[h] # Idle => g = h
          /\ \A h \in Hooks : task[h].step = "insert" => \A r \in pre : r.keyId \in task[h].skip
          /\ \A h \in Hooks : task[h] # Idle =>
               Last(task[h].batch) = DOMAIN task[h].batch \/ "collision" \in disturbed
          /\ \A r, s \in pre : r.keyId = s.keyId =>
               r = s \/ ("collision" \in disturbed /\ r.mat = s.mat /\ r.draw # s.draw)

LEMMA HookUnique ==
  ASSUME UniqueInv, NEW h \in Hooks, Initialize(h), Types', "overlap" \notin disturbed'
  PROVE  UniqueInv'
<1>t. TypeOK
  BY DEF UniqueInv, Types
<1>o. "overlap" \notin disturbed
  BY DEF Initialize, Start, SaveIdentity, StoreFirstKeys, CompareIdentity, Resign, CountEnough,
     Replenish, IdentityLoad, IdentitySave, PurgeOneTime, PurgeSigned, SignedFind, SignedUpdate,
     SignedInsert, SignedPrune, ReadTaken, InsertFresh, CallFails, TabCloses, Fault, history
<1>c. "collision" \in disturbed => "collision" \in disturbed'
  BY DEF Initialize, Start, SaveIdentity, StoreFirstKeys, CompareIdentity, Resign, CountEnough,
     Replenish, IdentityLoad, IdentitySave, PurgeOneTime, PurgeSigned, SignedFind, SignedUpdate,
     SignedInsert, SignedPrune, ReadTaken, InsertFresh, CallFails, TabCloses, Fault, history
<1>1. CASE Start(h)
  <2>1. Busy = {}
    BY <1>1 DEF Start
  <2>4. Last(task'[h].batch) = DOMAIN task'[h].batch
    <3>1. task'[h].batch \in {FirstBatch, << >>}
      BY <1>1, <1>t DEF Start, TypeOK
    <3>2. Last(FirstBatch) = DOMAIN FirstBatch
      BY IdsAssumption DEF Last, FirstBatch, Draws
    <3>3. Last(<< >>) = DOMAIN << >>
      BY DEF Last
    <3> QED BY <3>1, <3>2, <3>3
  <2>2. \A x \in Hooks \ {h} : task'[x] = Idle
    BY <1>1, <1>t, <2>1, StartGoes DEF Busy
  <2>3. task'[h].step # "insert" /\ pre' = pre /\ Idle.step # "insert"
    BY <1>1, <1>t, StartGoes DEF Idle
  <2> QED BY <1>c, <1>o, <2>2, <2>3, <2>4 DEF UniqueInv
<1>2. CASE ~Start(h)
  <2>1. Goes(h)
    BY <1>t, <1>2, InitializeSplits, UploadsGoes, WorksGoes
  <2>2. \A x \in Hooks \ {h} : task'[x] = Idle
    BY <1>o, <2>1 DEF Goes, UniqueInv
  <2>3. \A x, y \in Hooks : task'[x] # Idle /\ task'[y] # Idle => x = y
    BY <2>2
  <2>4. Idle.step # "insert"
    BY DEF Idle
  <2>b. task'[h] # Idle => Last(task'[h].batch) = DOMAIN task'[h].batch \/ "collision" \in disturbed'
    <3>1. CASE task'[h].batch = task[h].batch
      BY <1>c, <1>o, <2>1, <3>1 DEF UniqueInv, Goes
    <3>2. ASSUME NEW batch \in [Draws -> RandomIds], Replenish(h, batch), task'[h].batch = batch
          PROVE  Last(batch) = DOMAIN batch \/ "collision" \in disturbed'
      BY <3>2 DEF Replenish, Collides
    <3> QED BY <2>1, <3>1, <3>2 DEF Goes
  <2>5. CASE ReadTaken(h)
    <3>1. task'[h].skip = {r.keyId : r \in pre}
      BY <1>t, <2>5, AtStep DEF ReadTaken, At, Active, TypeOK
    <3>2. pre' = pre
      BY <2>5 DEF ReadTaken, server
    <3> QED BY <1>c, <1>o, <2>2, <2>3, <2>4, <2>b, <3>1, <3>2 DEF UniqueInv
  <2>6. CASE InsertFresh(h)
    <3> DEFINE next == Cardinality({r.at : r \in pre}) + 1
               rows == {NewRow(h, i, next) : i \in Fresh(h)}
               b == task[h].batch
    <3>1. pre' = pre \cup rows /\ disturbed' = disturbed
      BY <2>6 DEF InsertFresh
    <3>2. \A r \in pre, i \in Fresh(h) : r.keyId # b[i]
      BY <1>o, <2>6 DEF UniqueInv, InsertFresh, At, Fresh
    <3>3. \A r \in rows : /\ r = NewRow(h, r.draw, next) /\ r.mat = task[h].n /\ r.keyId = b[r.draw]
                          /\ r.draw \in Fresh(h)
      BY DEF NewRow
    <3>4. Last(b) = DOMAIN b \/ "collision" \in disturbed
      BY <1>o, <2>6, AtStep, <1>t DEF UniqueInv, InsertFresh, At
    <3>7. DOMAIN b \subseteq Draws /\ Fresh(h) \subseteq DOMAIN b
      <4>1. b \in {<< >>} \cup [Draws -> KeyIds]
        BY <1>t, <2>6, AtStep DEF InsertFresh, At, Active
      <4> QED BY <4>1, BatchPlaces DEF Fresh
    <3>8. Last(b) = DOMAIN b => \A i, j \in Fresh(h) : b[i] = b[j] => i = j
      <4> SUFFICES ASSUME Last(b) = DOMAIN b, NEW i \in Fresh(h), NEW j \in Fresh(h), b[i] = b[j]
                   PROVE  i = j
        OBVIOUS
      <4>1. i \in Last(b) /\ j \in Last(b) /\ i \in Draws /\ j \in Draws
        BY <3>7
      <4>2. j <= i /\ i <= j
        BY <3>7, <4>1 DEF Last
      <4> QED BY <4>1, <4>2, IdsAssumption DEF Draws
    <3> HIDE DEF rows, next, b
    <3>9. \A r, s \in rows : r.keyId = s.keyId =>
            r = s \/ ("collision" \in disturbed /\ r.mat = s.mat /\ r.draw # s.draw)
      BY <3>3, <3>4, <3>8
    <3>5. \A r, s \in pre' : r.keyId = s.keyId =>
            r = s \/ ("collision" \in disturbed' /\ r.mat = s.mat /\ r.draw # s.draw)
      <4> SUFFICES ASSUME NEW r \in pre', NEW s \in pre', r.keyId = s.keyId
                   PROVE  r = s \/ ("collision" \in disturbed' /\ r.mat = s.mat /\ r.draw # s.draw)
        OBVIOUS
      <4>1. CASE r \in pre /\ s \in pre
        BY <1>o, <3>1, <4>1 DEF UniqueInv
      <4>2. CASE r \in rows /\ s \in rows
        BY <3>1, <3>9, <4>2
      <4>3. ~(r \in pre /\ s \in rows) /\ ~(r \in rows /\ s \in pre)
        BY <3>2, <3>3
      <4> QED BY <3>1, <4>1, <4>2, <4>3
    <3>6. task'[h] = Idle
      BY <1>t, <2>6 DEF InsertFresh, Finish, TypeOK
    <3> QED BY <2>2, <2>3, <2>4, <3>1, <3>5, <3>6 DEF UniqueInv
  <2>7. CASE ~ReadTaken(h) /\ ~InsertFresh(h)
    <3>1. task'[h].step # "insert"
      BY <2>1, <2>4, <2>7 DEF Goes
    <3>2. pre' \subseteq pre
      BY <1>2, <2>7 DEF Initialize, SaveIdentity, StoreFirstKeys, CompareIdentity, Resign,
         CountEnough, Replenish, IdentityLoad, IdentitySave, PurgeOneTime, PurgeSigned,
         SignedFind, SignedUpdate, SignedInsert, SignedPrune, CallFails, TabCloses, server
    <3> QED BY <1>c, <1>o, <2>2, <2>3, <2>4, <2>b, <3>1, <3>2 DEF UniqueInv
  <2> QED BY <2>5, <2>6, <2>7
<1> QED BY <1>1, <1>2

LEMMA FetchUnique ==
  ASSUME UniqueInv, NEW p \in Peers, GetPreKeyBundle(p), Types', "overlap" \notin disturbed'
  PROVE  UniqueInv'
<1>1. UNCHANGED <<task, disturbed>>
  BY DEF GetPreKeyBundle, FetchIdentity, FetchSigned, Claim, history
<1>2. CASE pre' = pre
  BY <1>1, <1>2 DEF UniqueInv
<1>3. ASSUME NEW r \in Oldest, pre' = (pre \ {r}) \cup {[r EXCEPT !.used = TRUE]}
      PROVE  UniqueInv'
  <2>1. /\ r \in pre /\ [r EXCEPT !.used = TRUE].keyId = r.keyId
        /\ [r EXCEPT !.used = TRUE].mat = r.mat /\ [r EXCEPT !.used = TRUE].draw = r.draw
    BY DEF Oldest, Unused, UniqueInv, Types, TypeOK, OneTimeRow
  <2>3. \A s, t \in pre' : s.keyId = t.keyId =>
          s = t \/ ("collision" \in disturbed /\ s.mat = t.mat /\ s.draw # t.draw)
    <3> DEFINE u == [r EXCEPT !.used = TRUE]
    <3>1. pre' = (pre \ {r}) \cup {u} /\ u.keyId = r.keyId /\ u.mat = r.mat /\ u.draw = r.draw
      BY <1>3, <2>1
    <3>2. \A s, t \in pre : s.keyId = t.keyId =>
            s = t \/ ("collision" \in disturbed /\ s.mat = t.mat /\ s.draw # t.draw)
      BY <1>1 DEF UniqueInv
    <3> HIDE DEF u
    <3> QED BY <2>1, <3>1, <3>2
  <2>4. \A x \in Hooks : task[x].step = "insert" => \A s \in pre' : s.keyId \in task[x].skip
    BY <1>1, <1>3, <2>1 DEF UniqueInv
  <2> QED BY <1>1, <2>3, <2>4 DEF UniqueInv
<1> QED BY <1>2, <1>3 DEF GetPreKeyBundle, FetchIdentity, FetchSigned, Claim, server

LEMMA UniqueStep == UniqueInv /\ [Next]_vars => UniqueInv'
<1> SUFFICES ASSUME UniqueInv, [Next]_vars PROVE UniqueInv'
  OBVIOUS
<1>1. Types'
  BY StepTypes DEF UniqueInv
<1>2. CASE "overlap" \in disturbed'
  BY <1>1, <1>2 DEF UniqueInv
<1>3. CASE UNCHANGED vars
  BY <1>1, <1>3 DEF vars, server, history, UniqueInv
<1> QED BY <1>1, <1>2, <1>3, HookUnique, FetchUnique DEF Next

LEMMA UniqueStart == Init => UniqueInv
<1> SUFFICES ASSUME Init PROVE UniqueInv
  OBVIOUS
<1>1. pre = {} /\ \A h \in Hooks : task[h] = Idle
  BY DEF Init
<1> QED BY <1>1, InitTypes DEF UniqueInv, Idle

(* Unless two initialize calls overlapped, two rows share a key id only if  *)
(* one batch drew it twice: between batches neither a failure nor a         *)
(* colliding draw gets around the ids an upload skips.                     *)
THEOREM KeyIdsStayUnique == Spec => []KeyIdsUnique
<1>1. UniqueInv => KeyIdsUnique
  BY DEF UniqueInv, KeyIdsUnique
<1> QED BY <1>1, UniqueStart, UniqueStep, PTL DEF Spec
---------------------------------------------------------------------------
(* An initialize that is calm runs alone; past its identity upload the      *)
(* server has the identity of its device.                                  *)
Before == {"generate", "store", "compare", "identityLoad", "identitySave"}

HealInv ==
    /\ Types
    /\ healed # {} => Busy = {}
    /\ IdentityHealed
    /\ \A h \in Hooks : task[h] # Idle /\ task[h].calm =>
         /\ \A x \in Hooks : task[x] # Idle => x = h
         /\ task[h].step # "generate" => local[DeviceOf[h]].identity = task[h].g
         /\ task[h].step \notin Before => identity = task[h].g

(* Steps that write neither an identity nor a healed device.                *)
LEMMA HealKept ==
  ASSUME HealInv, NEW h \in Hooks, Goes(h), Types', UNCHANGED identity,
         \A d \in Devices : local'[d].identity = local[d].identity,
         \/ UNCHANGED healed
         \/ healed' = {}
         \/ task[h].calm /\ task[h].step \notin Before \cup {"idle"} /\ healed' = {DeviceOf[h]}
            /\ task'[h] = Idle,
         task'[h] # Idle /\ task'[h].calm =>
           /\ task[h].step # "generate"
           /\ task'[h].step \notin Before => task[h].step \notin Before \/ identity = task[h].g
  PROVE  HealInv'
<1>1. healed = {} /\ task[h] # Idle
  BY DEF HealInv, Goes, Busy
<1>d. \A x \in Hooks : DeviceOf[x] \in Devices
  BY DeviceAssumption
<1>2. \A x \in Hooks \ {h} : task[x] # Idle /\ task[x].calm => FALSE
  BY <1>1 DEF HealInv
<1>3. \A x \in Hooks : task'[x] # Idle /\ task'[x].calm =>
        /\ x = h /\ task[h].calm /\ \A y \in Hooks : task'[y] # Idle => y = h
  BY <1>1, <1>2 DEF Goes, HealInv
<1>4. \A x \in Hooks : task'[x] # Idle /\ task'[x].calm =>
        /\ local'[DeviceOf[x]].identity = task'[x].g
        /\ task'[x].step \notin Before => identity' = task'[x].g
  BY <1>1, <1>3, <1>d DEF Goes, HealInv
<1>5. healed' # {} => /\ Busy' = {} /\ \A d \in healed' : identity' = local'[d].identity
  <2>1. CASE healed' = {}
    BY <2>1
  <2>2. CASE task[h].calm /\ task[h].step \notin Before \cup {"idle"} /\ healed' = {DeviceOf[h]}
             /\ task'[h] = Idle
    <3>1. \A x \in Hooks : task'[x] = Idle
      BY <1>1, <2>2 DEF Goes, HealInv
    <3>2. identity = local[DeviceOf[h]].identity
      BY <1>1, <2>2 DEF HealInv, Before
    <3> QED BY <1>d, <2>2, <3>1, <3>2 DEF Busy
  <2> QED BY <1>1, <2>1, <2>2
<1> QED BY <1>3, <1>4, <1>5 DEF HealInv, IdentityHealed

LEMMA HookHeals ==
  ASSUME HealInv, NEW h \in Hooks, Initialize(h), Types'
  PROVE  HealInv'
<1> USE DEF server, history
<1>t. TypeOK
  BY DEF HealInv, Types
<1>d. DeviceOf[h] \in Devices
  BY DeviceAssumption
<1>l. local \in [Devices -> [identity : 0..MaxInits, signed : 0..MaxInits,
                             pre : SUBSET OneTimeKey]]
  BY <1>t DEF TypeOK
<1>g. ~Start(h) => Goes(h)
  BY <1>t, InitializeSplits, UploadsGoes, WorksGoes
<1>s. ASSUME NEW s \in Steps, Goto(h, s), task[h].step # "idle"
      PROVE  task'[h].step = s
  <2>1. task[h] \in Active
    BY <1>s, <1>t, AtStep
  <2>2. task'[h] = [task[h] EXCEPT !.step = s]
    BY <1>s, <1>t, GotoTypes
  <2> QED BY <2>1, <2>2 DEF Active
<1>1. CASE Start(h)
  <2>1. healed' = {} /\ UNCHANGED <<identity, local>>
    BY <1>1 DEF Start
  <2>2. \A x \in Hooks \ {h} : task'[x] # Idle => ~task'[x].calm
    BY <1>1, <1>t, StartGoes
  <2>3. task'[h].calm => Busy = {}
    BY <1>1, <1>t DEF Start, TypeOK
  <2>4. Busy = {} => \A x \in Hooks \ {h} : task'[x] = Idle
    BY <1>1, <1>t, StartGoes DEF Busy
  <2>5. /\ task'[h].step # "generate" => local[DeviceOf[h]].identity = task'[h].g
        /\ task'[h].step \in Before
    BY <1>1, <1>t DEF Start, TypeOK, Before
  <2> QED BY <2>1, <2>2, <2>3, <2>4, <2>5 DEF HealInv, IdentityHealed
<1>2. CASE SaveIdentity(h)
  <2>1. task'[h].step = "store" /\ task[h].step = "generate" /\ Goes(h) /\ task[h] # Idle
    BY <1>2, <1>s, <1>g DEF SaveIdentity, At, Steps, Start, Idle, Goes
  <2>2. local'[DeviceOf[h]].identity = task[h].g /\ healed' = healed /\ identity' = identity
    BY <1>2, <1>d, <1>l DEF SaveIdentity
  <2>3. healed = {}
    BY <2>1 DEF HealInv, Busy
  <2>4. \A x \in Hooks : task'[x] # Idle /\ task'[x].calm =>
          /\ x = h /\ \A y \in Hooks : task'[y] # Idle => y = h
    BY <2>1 DEF Goes, HealInv
  <2>5. task'[h] # Idle => task'[h].g = task[h].g /\ task'[h].step \in Before
    BY <2>1 DEF Goes, Before
  <2> QED BY <2>2, <2>3, <2>4, <2>5 DEF HealInv, IdentityHealed
<1>3. CASE StoreFirstKeys(h)
  <2>1. task'[h].step = "identityLoad" /\ task[h].step = "store"
    BY <1>3, <1>s DEF StoreFirstKeys, At, Steps
  <2>2. \A d \in Devices : local'[d].identity = local[d].identity
    BY <1>3, <1>d, <1>l DEF StoreFirstKeys
  <2>3. ~Start(h) /\ UNCHANGED <<identity, healed>>
    BY <1>3, <2>1 DEF StoreFirstKeys, Start, Idle
  <2>4. task[h].step # "generate" /\ task'[h].step \in Before
    BY <2>1 DEF Before
  <2> QED BY <1>g, <2>2, <2>3, <2>4, HealKept
<1>4. CASE CompareIdentity(h)
  <2>1. task[h].step = "compare" /\ task'[h].step \in {"count", "identityLoad"}
        /\ (task'[h].step = "count" => identity = task[h].g)
    BY <1>4, <1>s DEF CompareIdentity, At, Steps
  <2> QED BY <1>4, <1>g, <2>1, HealKept DEF CompareIdentity, Start, Idle, Before
<1>5. CASE Resign(h)
  <2>1. task[h].step = "resign"
    BY <1>5 DEF Resign, At
  <2>2. \A d \in Devices : local'[d].identity = local[d].identity
    BY <1>5, <1>d, <1>l DEF Resign
  <2> QED BY <1>5, <1>g, <2>1, <2>2, HealKept DEF Resign, Start, Idle, Before
<1>6. CASE CountEnough(h) \/ InsertFresh(h)
  <2>1. task[h].step \in {"count", "insert"} /\ task'[h] = Idle
        /\ healed' = (IF task[h].calm THEN {DeviceOf[h]} ELSE {})
        /\ UNCHANGED <<identity, local>>
    BY <1>6, <1>t DEF CountEnough, InsertFresh, Finish, At, TypeOK
  <2> QED BY <1>g, <2>1, HealKept, AtStep, <1>t, <1>6 DEF Start, Idle, Before, CountEnough, InsertFresh, At
<1>7. ASSUME NEW batch \in [Draws -> RandomIds], Replenish(h, batch) PROVE HealInv'
  <2>1. task[h].step = "count" /\ UNCHANGED <<identity, healed>>
    BY <1>7 DEF Replenish, At
  <2>2. \A d \in Devices : local'[d].identity = local[d].identity
    BY <1>7, <1>d, <1>l DEF Replenish
  <2> QED BY <1>7, <1>g, <2>1, <2>2, HealKept DEF Start, Idle, Before
<1>8. CASE IdentityLoad(h)
  <2>1. task[h].step = "identityLoad" /\ task'[h].step = "identitySave"
        /\ UNCHANGED <<identity, healed, local>>
    BY <1>8, <1>t, AtStep DEF IdentityLoad, At, TypeOK, Active
  <2> QED BY <1>8, <1>g, <2>1, HealKept DEF Start, Idle, Before
<1>9. CASE IdentitySave(h)
  <2>1. task[h].step = "identitySave" /\ identity' = task[h].g /\ UNCHANGED <<healed, local>>
        /\ Goes(h) /\ task[h] # Idle
    BY <1>9, <1>g DEF IdentitySave, At, Start, Idle, Goes
  <2>2. healed = {}
    BY <2>1 DEF HealInv, Busy
  <2>3. \A x \in Hooks : task'[x] # Idle /\ task'[x].calm =>
          /\ x = h /\ task[h].calm /\ \A y \in Hooks : task'[y] # Idle => y = h
    BY <2>1 DEF Goes, HealInv
  <2> QED BY <2>1, <2>2, <2>3 DEF HealInv, IdentityHealed, Goes
<1>10. CASE PurgeOneTime(h) \/ PurgeSigned(h) \/ SignedFind(h) \/ SignedUpdate(h)
            \/ SignedInsert(h) \/ SignedPrune(h) \/ ReadTaken(h)
  <2>1. task[h].step \notin Before \cup {"idle"} /\ UNCHANGED <<identity, healed, local>>
    BY <1>10 DEF PurgeOneTime, PurgeSigned, SignedFind, SignedUpdate, SignedInsert, SignedPrune,
       ReadTaken, At, Before
  <2>2. task[h].step # "generate"
    BY <2>1 DEF Before
  <2>3. ~Start(h)
    BY <2>1 DEF Start, Idle
  <2> QED BY <1>g, <2>1, <2>2, <2>3, HealKept
<1>11. CASE CallFails(h) \/ TabCloses(h)
  <2>1. UNCHANGED <<identity, healed, local>> /\ task[h] # Idle
    <3>1. Idle.step \notin Calls
      BY DEF Idle, Calls, Steps
    <3> QED BY <1>11, <3>1 DEF CallFails, TabCloses
  <2>2. task'[h] # Idle => ~task'[h].calm
    <3>1. task[h] \in Active
      BY <1>t, <2>1 DEF TypeOK
    <3>2. CASE TabCloses(h)
      BY <1>t, <3>2 DEF TabCloses, TypeOK
    <3>3. CASE CallFails(h)
      <4> DEFINE c == [task[h] EXCEPT !.step = ResumeAt(h), !.calm = FALSE]
      <4>1. c.calm = FALSE
        BY <3>1 DEF Active
      <4>2. task'[h] \in {Idle, c}
        BY <1>t, <3>3 DEF CallFails, TypeOK
      <4> QED BY <4>1, <4>2
    <3> QED BY <1>11, <3>2, <3>3
  <2>3. ~Start(h)
    BY <2>1 DEF Start
  <2> QED BY <1>g, <2>1, <2>2, <2>3, HealKept
<1> QED BY <1>1, <1>2, <1>3, <1>4, <1>5, <1>6, <1>7, <1>8, <1>9, <1>10, <1>11 DEF Initialize

LEMMA HealStart == Init => HealInv
<1> SUFFICES ASSUME Init PROVE HealInv
  OBVIOUS
<1>1. healed = {} /\ \A h \in Hooks : task[h] = Idle
  BY DEF Init
<1> QED BY <1>1, InitTypes DEF HealInv, IdentityHealed

LEMMA HealStep == HealInv /\ [Next]_vars => HealInv'
<1> SUFFICES ASSUME HealInv, [Next]_vars PROVE HealInv'
  OBVIOUS
<1>1. Types'
  BY StepTypes DEF HealInv
<1>2. ASSUME UNCHANGED <<task, healed, identity, local>> PROVE HealInv'
  BY <1>1, <1>2 DEF HealInv, IdentityHealed, Busy
<1>3. ASSUME NEW p \in Peers, GetPreKeyBundle(p) PROVE HealInv'
  BY <1>2, <1>3 DEF GetPreKeyBundle, FetchIdentity, FetchSigned, Claim, server, history
<1>4. CASE UNCHANGED vars
  BY <1>2, <1>4 DEF vars, server, history
<1> QED BY <1>1, <1>3, <1>4, HookHeals DEF Next

(* After an initialize that ran alone and without a failure the server has  *)
(* the identity of that device, whatever failed or overlapped before it.    *)
THEOREM CalmHeals == Spec => []IdentityHealed
<1>1. HealInv => IdentityHealed
  BY DEF HealInv
<1> QED BY <1>1, HealStart, HealStep, PTL DEF Spec
---------------------------------------------------------------------------
(* Whatever is published, device d can decrypt.                            *)
Holds(d) ==
    /\ local[d].identity = identity
    /\ signed # << >>
    /\ signed[Len(signed)].by = identity /\ signed[Len(signed)].mat = local[d].signed
    /\ \A r \in Unused : KeyOf(r) \in local[d].pre

Late == {"count", "taken", "insert"}

(* What the only initialize under way has done by its step.                *)
DeviceKnows(h) ==
    LET t == task[h]
        d == DeviceOf[h]
    IN  /\ t.step = "generate" => /\ t.fresh /\ t.g = t.n /\ local[d].identity = 0
                                  /\ \A e \in Devices : local[e].identity # t.g
        /\ t.step # "generate" => local[d].identity = t.g
        /\ t.step \in {"generate", "store"} => t.fresh /\ t.batch = FirstBatch
        /\ t.step \notin {"generate", "store"} =>
             Keys(t.batch, t.n, DOMAIN t.batch) \subseteq local[d].pre
        /\ \/ t.step \in {"signedFind", "signedSave", "prune"}
           \/ t.fresh /\ t.step \notin {"generate", "store"} \cup Late
           => local[d].signed = t.n

ServerKnows(h) ==
    LET t == task[h]
    IN  /\ t.step \in Before /\ identity # 0 => \E e \in Devices : Holds(e)
        /\ t.step \in Before \ {"compare"} => identity # t.g
        /\ t.step = "identitySave" => t.changed
        /\ t.step \notin Before => identity = t.g
        /\ t.step \in {"purgeSigned", "resign", "signedFind", "signedSave", "prune"} => pre = {}
        /\ t.step \in {"resign", "signedFind", "signedSave"} => signed = << >>
        /\ t.step = "signedSave" => t.row = 0
        /\ t.step = "prune" => signed = << [id |-> t.n, by |-> t.g, mat |-> t.n] >>
        /\ t.step \in Late => Holds(DeviceOf[h])

Numbered ==
    /\ identity <= inits
    /\ \A d \in Devices : local[d].identity <= inits
    /\ \A h \in Hooks : task[h] # Idle => task[h].g <= inits

Calm ==
    /\ \A h, x \in Hooks : task[h] # Idle /\ task[x] # Idle => h = x
    /\ \A d, e \in Devices : local[d].identity = local[e].identity /\ local[d].identity # 0 => d = e
    /\ Busy = {} /\ identity # 0 => \E d \in Devices : Holds(d)
    /\ \A h \in Hooks : task[h] # Idle => DeviceKnows(h) /\ ServerKnows(h)

OneIdentity ==
    /\ ~mixed
    /\ \A p \in Peers : fetch[p].step = "claim" /\ ~fetch[p].beside /\ disturbed = {} =>
         fetch[p].by = fetch[p].identity

UsableInv == Types /\ Numbered /\ (disturbed = {} => Calm) /\ OneIdentity

(* A step of a hook to another of its own steps.                           *)
Moves(h, s) ==
    /\ task[h] \in Active /\ task'[h] \in Active /\ task'[h].step = s
    /\ task'[h].n = task[h].n /\ task'[h].g = task[h].g /\ task'[h].fresh = task[h].fresh
    /\ \A x \in Hooks \ {h} : task'[x] = task[x]

LEMMA GotoMoves ==
  ASSUME TypeOK, NEW h \in Hooks, task[h].step # "idle", NEW s \in Steps, Goto(h, s)
  PROVE  /\ Moves(h, s)
         /\ task'[h].batch = task[h].batch /\ task'[h].changed = task[h].changed
         /\ task'[h].row = task[h].row
<1>1. task[h] \in Active
  BY AtStep
<1>2. task'[h] = [task[h] EXCEPT !.step = s] /\ task'[h] # Idle
      /\ task' \in [Hooks -> Active \cup {Idle}]
      /\ \A x \in Hooks \ {h} : task'[x] = task[x]
  BY GotoTypes
<1>3. task'[h] \in Active
  BY <1>2
<1> QED BY <1>1, <1>2, <1>3 DEF Moves, Active

(* Everything is numbered by the initialize calls so far.                  *)
LEMMA NumberStep ==
  ASSUME Types, Numbered, NEW h \in Hooks, Initialize(h)
  PROVE  Numbered'
<1> USE DEF server, history
<1>t. TypeOK
  BY DEF Types
<1>i. /\ inits \in Nat /\ identity \in Int
      /\ local \in [Devices -> [identity : 0..MaxInits, signed : 0..MaxInits,
                                pre : SUBSET OneTimeKey]]
  BY <1>t, BoundsAssumption DEF TypeOK
<1>d. DeviceOf[h] \in Devices
  BY DeviceAssumption
<1>1. CASE Start(h)
  <2>1. \A x \in Hooks \ {h} : task'[x] # Idle => task[x] # Idle /\ task'[x].g = task[x].g
    <3>1. \A x \in Hooks \ {h} : task[x] # Idle => task[x] \in Active
      BY <1>t DEF TypeOK
    <3> QED BY <1>1, <3>1 DEF Start, Active
  <2>2. task'[h].g <= inits + 1 /\ inits' = inits + 1 /\ UNCHANGED <<identity, local>>
    BY <1>1, <1>t, <1>i, <1>d DEF Start, TypeOK, Numbered
  <2>3. \A x \in Hooks : task[x] # Idle => task[x].g \in Int
    BY <1>t DEF TypeOK, Active, Material
  <2>4. \A x \in Hooks : task'[x] # Idle => task'[x].g <= inits + 1
    BY <2>1, <2>2, <2>3, <1>i DEF Numbered
  <2> QED BY <2>2, <2>4, <1>i DEF Numbered
<1>2. CASE ~Start(h)
  <2>1. Goes(h)
    BY <1>t, <1>2, InitializeSplits, UploadsGoes, WorksGoes
  <2>2. inits' = inits /\ identity' \in {identity, task[h].g}
    BY <1>2 DEF Initialize, SaveIdentity, StoreFirstKeys, CompareIdentity, Resign, CountEnough,
       Replenish, IdentityLoad, IdentitySave, PurgeOneTime, PurgeSigned, SignedFind, SignedUpdate,
       SignedInsert, SignedPrune, ReadTaken, InsertFresh, CallFails, TabCloses
  <2>3. \A d \in Devices : local'[d].identity \in {local[d].identity, task[h].g}
    <3>1. CASE SaveIdentity(h)
      BY <3>1, <1>i, <1>d DEF SaveIdentity
    <3>4. CASE StoreFirstKeys(h)
      BY <3>4, <1>i, <1>d DEF StoreFirstKeys
    <3>5. CASE Resign(h)
      BY <3>5, <1>i, <1>d DEF Resign
    <3>2. ASSUME NEW batch, Replenish(h, batch)
          PROVE  \A d \in Devices : local'[d].identity = local[d].identity
      BY <3>2, <1>i, <1>d DEF Replenish
    <3>3. CASE UNCHANGED local
      BY <3>3
    <3> QED BY <1>2, <3>1, <3>2, <3>3, <3>4, <3>5 DEF Initialize, CompareIdentity, CountEnough, IdentityLoad,
       IdentitySave, PurgeOneTime, PurgeSigned, SignedFind, SignedUpdate, SignedInsert, SignedPrune,
       ReadTaken, InsertFresh, CallFails, TabCloses
  <2> QED BY <2>1, <2>2, <2>3 DEF Numbered, Goes
<1> QED BY <1>1, <1>2

(* While nothing is disturbed a hook that is under way is the only one.    *)
LEMMA Alone ==
  ASSUME UsableInv, disturbed = {}, NEW h \in Hooks, task[h] # Idle
  PROVE  /\ DeviceKnows(h) /\ ServerKnows(h)
         /\ \A x \in Hooks \ {h} : task[x] = Idle
         /\ \A d, e \in Devices : local[d].identity = local[e].identity /\ local[d].identity # 0
                                    => d = e
  BY DEF UsableInv, Calm

(* What is left to show for a step of a hook.                              *)
LEMMA StaysCalm ==
  ASSUME UsableInv, disturbed = {}, NEW h \in Hooks, task[h] # Idle, Types', Numbered',
         UNCHANGED <<mixed, fetch>>,
         \A x \in Hooks \ {h} : task'[x] = task[x],
         \A d, e \in Devices : local'[d].identity = local'[e].identity /\ local'[d].identity # 0
                                 => d = e,
         \/ task'[h] = Idle /\ \E d \in Devices : Holds(d)'
         \/ task'[h] # Idle /\ DeviceKnows(h)' /\ ServerKnows(h)'
  PROVE  UsableInv'
<1>1. \A x \in Hooks \ {h} : task'[x] = Idle
  BY Alone
<1>2. CASE task'[h] = Idle /\ \E d \in Devices : Holds(d)'
  <2>1. \A x \in Hooks : task'[x] = Idle
    BY <1>1, <1>2
  <2>2. Calm'
    BY <1>2, <2>1 DEF Calm
  <2> QED BY <2>2 DEF UsableInv, OneIdentity
<1>3. CASE task'[h] # Idle /\ DeviceKnows(h)' /\ ServerKnows(h)'
  <2>1. Busy' # {} /\ \A x \in Hooks : task'[x] # Idle => x = h
    BY <1>1, <1>3 DEF Busy
  <2>2. Calm'
    BY <1>3, <2>1 DEF Calm
  <2> QED BY <2>2 DEF UsableInv, OneIdentity
<1> QED BY <1>2, <1>3

(* The first steps of a hook.                                              *)
LEMMA StartsCalm ==
  ASSUME UsableInv, disturbed' = {}, NEW h \in Hooks, Start(h), Types', Numbered'
  PROVE  UsableInv'
<1> USE DEF server, history
<1>t. TypeOK /\ inits \in Nat /\ DeviceOf[h] \in Devices
      /\ \A d \in Devices : local[d].identity \in Nat
  BY DeviceAssumption, BoundsAssumption DEF UsableInv, Types, TypeOK
<1>b. Busy = {} /\ disturbed = {} /\ \A x \in Hooks : task[x] = Idle
  BY DEF Start, Busy
<1> DEFINE d == DeviceOf[h]
           mine == local[d].identity
<1>1. /\ task'[h].step = IF mine = 0 THEN "generate" ELSE "compare"
      /\ task'[h].n = inits + 1
      /\ task'[h].g = IF mine = 0 THEN inits + 1 ELSE mine
      /\ task'[h].fresh = (mine = 0)
      /\ task'[h].batch = IF mine = 0 THEN FirstBatch ELSE << >>
      /\ task'[h].step # "idle"
  BY <1>t DEF Start, TypeOK
<1>2. \A x \in Hooks \ {h} : task'[x] = Idle
  BY <1>b, <1>t, StartGoes
<1>3. UNCHANGED <<identity, signed, pre, local, mixed, fetch>>
  BY DEF Start
<1>4. identity # 0 => \E e \in Devices : Holds(e)
  BY <1>b DEF UsableInv, Calm
<1>5. (identity # 0 => \E e \in Devices : Holds(e))'
  BY <1>3, <1>4 DEF Holds, Unused
<1>6. identity <= inits /\ identity \in Int /\ \A e \in Devices : local[e].identity <= inits
  BY <1>t DEF UsableInv, Numbered, TypeOK
<1>7. DeviceKnows(h)'
  <2>1. CASE mine = 0
    <3>1. task'[h].step = "generate" /\ task'[h].fresh /\ task'[h].g = inits + 1
          /\ task'[h].n = inits + 1 /\ task'[h].batch = FirstBatch /\ local'[d].identity = 0
      BY <2>1, <1>1, <1>3
    <3>2. \A e \in Devices : local'[e].identity # inits + 1
      BY <1>3, <1>6, <1>t
    <3> QED BY <3>1, <3>2 DEF DeviceKnows
  <2>2. CASE mine # 0
    <3>1. Keys(<< >>, inits + 1, DOMAIN << >>) = {}
      BY DEF Keys
    <3> QED BY <2>2, <3>1, <1>1, <1>3, <1>t DEF DeviceKnows, Late
  <2> QED BY <2>1, <2>2
<1>8. ServerKnows(h)'
  BY <1>1, <1>3, <1>5, <1>6, <1>t DEF ServerKnows, Late, Before
<1>9. \A x, y \in Hooks : task'[x] # Idle /\ task'[y] # Idle => x = y
  BY <1>2
<1>10. \A x \in Hooks : task'[x] # Idle => DeviceKnows(x)' /\ ServerKnows(x)'
  BY <1>2, <1>7, <1>8
<1>11. \A a, e \in Devices : local'[a].identity = local'[e].identity /\ local'[a].identity # 0
                               => a = e
  BY <1>3, <1>b DEF UsableInv, Calm
<1>12. Calm'
  BY <1>5, <1>9, <1>10, <1>11 DEF Calm
<1> QED BY <1>3, <1>12, <1>b DEF UsableInv, OneIdentity

LEMMA SaveCalm ==
  ASSUME UsableInv, disturbed' = {}, NEW h \in Hooks, SaveIdentity(h) \/ StoreFirstKeys(h),
         Types', Numbered'
  PROVE  UsableInv'
<1> USE DEF server, history
<1> DEFINE d == DeviceOf[h]
<1>t. TypeOK /\ DeviceOf[h] \in Devices /\ local \in [Devices -> [identity : 0..MaxInits,
        signed : 0..MaxInits, pre : SUBSET OneTimeKey]]
  BY DeviceAssumption DEF UsableInv, Types, TypeOK
<1>0. disturbed = {} /\ UNCHANGED <<identity, signed, pre, mixed, fetch>>
      /\ task[h].step \in {"generate", "store"}
  BY DEF SaveIdentity, StoreFirstKeys, At
<1>1. task[h] \in Active /\ task[h] # Idle
  BY <1>0, <1>t, AtStep
<1>2. DeviceKnows(h) /\ ServerKnows(h)
      /\ \A a, e \in Devices : local[a].identity = local[e].identity /\ local[a].identity # 0
                                 => a = e
  BY <1>0, <1>1, Alone
<1>3. /\ identity # 0 => \E e \in Devices : Holds(e)
      /\ identity # task[h].g /\ task[h].fresh /\ task[h].batch = FirstBatch
  BY <1>0, <1>2 DEF DeviceKnows, ServerKnows, Before
<1>h. ASSUME identity # 0, local[d].identity \in {0, task[h].g},
             \A e \in Devices \ {d} : local'[e] = local[e]
      PROVE  (\E e \in Devices : Holds(e))'
  <2>1. PICK e \in Devices : Holds(e)
    BY <1>3, <1>h
  <2>2. e # d
    BY <1>3, <1>h, <2>1 DEF Holds
  <2>3. Holds(e)'
    BY <1>0, <1>h, <2>1, <2>2 DEF Holds, Unused
  <2> QED BY <2>3
<1>4. CASE SaveIdentity(h)
  <2>1. /\ Moves(h, "store") /\ task'[h].batch = task[h].batch
    BY <1>4, <1>t, GotoMoves DEF SaveIdentity, At, Steps
  <2>2. task[h].step = "generate" /\ \A e \in Devices \ {d} : local'[e] = local[e]
    BY <1>4, <1>t DEF SaveIdentity, At
  <2>3. local'[d].identity = task[h].g
    BY <1>4, <1>t DEF SaveIdentity
  <2>4. local[d].identity = 0 /\ \A e \in Devices : local[e].identity # task[h].g
    BY <1>2, <2>2 DEF DeviceKnows
  <2>5. DeviceKnows(h)'
    BY <1>3, <2>1, <2>3 DEF DeviceKnows, Moves, Late
  <2>6. ServerKnows(h)'
    BY <1>0, <1>3, <1>h, <2>1, <2>2, <2>4 DEF ServerKnows, Moves, Late, Before
  <2>7. \A a, e \in Devices : local'[a].identity = local'[e].identity /\ local'[a].identity # 0
                                => a = e
    BY <1>2, <2>2, <2>3, <2>4
  <2>8. task'[h] # Idle /\ \A x \in Hooks \ {h} : task'[x] = task[x]
    BY <2>1 DEF Moves, Active, Steps, Idle
  <2> QED BY <1>0, <1>1, <2>5, <2>6, <2>7, <2>8, StaysCalm
<1>5. CASE StoreFirstKeys(h)
  <2>1. /\ Moves(h, "identityLoad") /\ task'[h].batch = task[h].batch
    BY <1>5, <1>t, GotoMoves DEF StoreFirstKeys, At, Steps
  <2>2. task[h].step = "store" /\ \A e \in Devices \ {d} : local'[e] = local[e]
    BY <1>5, <1>t DEF StoreFirstKeys, At
  <2>3. /\ local'[d].identity = local[d].identity /\ local'[d].signed = task[h].n
        /\ Keys(FirstBatch, task[h].n, DOMAIN FirstBatch) \subseteq local'[d].pre
    <3>1. Last(FirstBatch) = DOMAIN FirstBatch
      BY IdsAssumption DEF Last, FirstBatch, Draws
    <3>2. local'[d].pre = Stored(local[d].pre, task[h].batch, task[h].n)
          /\ local'[d].identity = local[d].identity /\ local'[d].signed = task[h].n
      BY <1>5, <1>t DEF StoreFirstKeys
    <3> QED BY <1>3, <3>1, <3>2 DEF Stored
  <2>4. local[d].identity = task[h].g
    BY <1>2, <2>2 DEF DeviceKnows
  <2>5. DeviceKnows(h)'
    BY <1>3, <2>1, <2>3, <2>4 DEF DeviceKnows, Moves, Late
  <2>6. ServerKnows(h)'
    BY <1>0, <1>3, <1>h, <2>1, <2>2, <2>4 DEF ServerKnows, Moves, Late, Before
  <2>7. \A a, e \in Devices : local'[a].identity = local'[e].identity /\ local'[a].identity # 0
                                => a = e
    BY <1>2, <2>2, <2>3
  <2>8. task'[h] # Idle /\ \A x \in Hooks \ {h} : task'[x] = task[x]
    BY <2>1 DEF Moves, Active, Steps, Idle
  <2> QED BY <1>0, <1>1, <2>5, <2>6, <2>7, <2>8, StaysCalm
<1> QED BY <1>4, <1>5

(* Of the devices only the one that published an identity has it.          *)
LEMMA OwnerHolds ==
  ASSUME UsableInv, disturbed = {}, NEW h \in Hooks, task[h].step \in Before \ {"generate"},
         task[h] \in Active, identity = task[h].g
  PROVE  Holds(DeviceOf[h])
<1>1. task[h] # Idle /\ identity # 0
  BY DEF Before, Idle, Active, Material
<1>2. PICK e \in Devices : Holds(e)
  BY <1>1, Alone DEF ServerKnows
<1>3. local[DeviceOf[h]].identity = identity
  BY <1>1, Alone DEF DeviceKnows
<1>4. DeviceOf[h] = e
  BY <1>1, <1>2, <1>3, Alone, DeviceAssumption DEF Holds
<1> QED BY <1>2, <1>4

(* The identity of the device is compared and uploaded.                    *)
LEMMA IdentityCalm ==
  ASSUME UsableInv, disturbed' = {}, NEW h \in Hooks,
         CompareIdentity(h) \/ IdentityLoad(h) \/ IdentitySave(h) \/ PurgeOneTime(h) \/ PurgeSigned(h),
         Types', Numbered'
  PROVE  UsableInv'
<1> USE DEF server, history
<1> DEFINE d == DeviceOf[h]
<1>t. TypeOK /\ DeviceOf[h] \in Devices
  BY DeviceAssumption DEF UsableInv, Types, TypeOK
<1>0. disturbed = {} /\ UNCHANGED <<local, mixed, fetch>>
      /\ task[h].step \in {"compare", "identityLoad", "identitySave", "purgeOneTime", "purgeSigned"}
  BY DEF CompareIdentity, IdentityLoad, IdentitySave, PurgeOneTime, PurgeSigned, At
<1>1. task[h] \in Active /\ task[h] # Idle
  BY <1>0, <1>t, AtStep
<1>2. DeviceKnows(h) /\ ServerKnows(h)
      /\ \A a, e \in Devices : local'[a].identity = local'[e].identity /\ local'[a].identity # 0
                                 => a = e
  BY <1>0, <1>1, Alone
<1>q. ASSUME NEW s \in Steps, Moves(h, s), DeviceKnows(h)', ServerKnows(h)' PROVE UsableInv'
  <2>1. task'[h] # Idle /\ \A x \in Hooks \ {h} : task'[x] = task[x]
    BY <1>q DEF Moves, Active, Steps, Idle
  <2> QED BY <1>0, <1>1, <1>2, <1>q, <2>1, StaysCalm
<1>h. ASSUME UNCHANGED server, \E e \in Devices : Holds(e) PROVE (\E e \in Devices : Holds(e))'
  BY <1>0, <1>h DEF Holds, Unused
<1>3. CASE CompareIdentity(h)
  <2> DEFINE s == IF identity = task[h].g THEN "count" ELSE "identityLoad"
  <2>1. Moves(h, s) /\ task'[h].batch = task[h].batch /\ s \in Steps /\ task[h].step = "compare"
        /\ UNCHANGED server
    BY <1>3, <1>t, GotoMoves DEF CompareIdentity, At, Steps
  <2>2. DeviceKnows(h)'
    BY <1>0, <1>2, <2>1 DEF DeviceKnows, Moves, Late
  <2>3. CASE identity = task[h].g
    <3>1. Holds(d)
      BY <1>0, <1>1, <2>1, <2>3, OwnerHolds DEF Before
    <3>2. Holds(d)'
      BY <1>0, <2>1, <3>1 DEF Holds, Unused
    <3>3. ServerKnows(h)'
      BY <2>1, <2>3, <3>2 DEF ServerKnows, Moves, Before
    <3> QED BY <1>q, <2>1, <2>2, <3>3
  <2>4. CASE identity # task[h].g
    <3>1. ServerKnows(h)'
      BY <1>2, <1>h, <2>1, <2>4 DEF ServerKnows, Moves, Before, Late
    <3> QED BY <1>q, <2>1, <2>2, <3>1
  <2> QED BY <2>3, <2>4
<1>4. CASE IdentityLoad(h)
  <2>1. /\ Moves(h, "identitySave") /\ task'[h].batch = task[h].batch
        /\ task[h].step = "identityLoad" /\ UNCHANGED server
        /\ task'[h].changed = (identity # task[h].g)
    BY <1>4, <1>1, <1>t DEF IdentityLoad, At, Moves, Active, TypeOK, Steps
  <2>2. DeviceKnows(h)'
    BY <1>0, <1>2, <2>1 DEF DeviceKnows, Moves, Late
  <2>3. ServerKnows(h)'
    BY <1>2, <1>h, <2>1 DEF ServerKnows, Moves, Before, Late
  <2> QED BY <1>q, <2>1, <2>2, <2>3 DEF Steps
<1>5. CASE IdentitySave(h)
  <2>1. task[h].changed /\ task[h].step = "identitySave"
    BY <1>2, <1>5 DEF ServerKnows, IdentitySave, At
  <2>2. /\ Moves(h, "purgeOneTime") /\ task'[h].batch = task[h].batch /\ identity' = task[h].g
    BY <1>5, <1>t, <2>1, GotoMoves DEF IdentitySave, At, Steps
  <2>3. DeviceKnows(h)'
    BY <1>0, <1>2, <2>1, <2>2 DEF DeviceKnows, Moves, Late
  <2>4. ServerKnows(h)'
    BY <2>2 DEF ServerKnows, Moves, Before, Late
  <2> QED BY <1>q, <2>2, <2>3, <2>4 DEF Steps
<1>6. CASE PurgeOneTime(h)
  <2>1. /\ Moves(h, "purgeSigned") /\ task'[h].batch = task[h].batch /\ pre' = {}
        /\ task[h].step = "purgeOneTime" /\ identity' = identity
    BY <1>6, <1>t, GotoMoves DEF PurgeOneTime, At, Steps
  <2>2. DeviceKnows(h)'
    BY <1>0, <1>2, <2>1 DEF DeviceKnows, Moves, Late
  <2>3. ServerKnows(h)'
    BY <1>2, <2>1 DEF ServerKnows, Moves, Before, Late
  <2> QED BY <1>q, <2>1, <2>2, <2>3 DEF Steps
<1>7. CASE PurgeSigned(h)
  <2> DEFINE s == AfterIdentity(h)
  <2>1. /\ Moves(h, s) /\ task'[h].batch = task[h].batch /\ signed' = << >>
        /\ task[h].step = "purgeSigned" /\ UNCHANGED <<identity, pre>> /\ s \in Steps
    BY <1>7, <1>t, GotoMoves DEF PurgeSigned, At, Steps, AfterIdentity
  <2>2. DeviceKnows(h)'
    BY <1>0, <1>2, <2>1 DEF DeviceKnows, Moves, Late, AfterIdentity
  <2>3. ServerKnows(h)'
    BY <1>2, <2>1 DEF ServerKnows, Moves, Before, Late, AfterIdentity
  <2> QED BY <1>q, <2>1, <2>2, <2>3
<1> QED BY <1>3, <1>4, <1>5, <1>6, <1>7

(* A signed pre-key is made and uploaded.                                  *)
LEMMA SignedCalm ==
  ASSUME UsableInv, disturbed' = {}, NEW h \in Hooks,
         Resign(h) \/ SignedFind(h) \/ SignedUpdate(h) \/ SignedInsert(h) \/ SignedPrune(h),
         Types', Numbered'
  PROVE  UsableInv'
<1> USE DEF server, history
<1> DEFINE d == DeviceOf[h]
           row == [id |-> task[h].n, by |-> task[h].g, mat |-> task[h].n]
<1>t. TypeOK /\ DeviceOf[h] \in Devices /\ local \in [Devices -> [identity : 0..MaxInits,
        signed : 0..MaxInits, pre : SUBSET OneTimeKey]]
  BY DeviceAssumption DEF UsableInv, Types, TypeOK
<1>0. disturbed = {} /\ UNCHANGED <<identity, pre, mixed, fetch>>
      /\ task[h].step \in {"resign", "signedFind", "signedSave", "prune"}
  BY DEF Resign, SignedFind, SignedUpdate, SignedInsert, SignedPrune, At
<1>1. task[h] \in Active /\ task[h] # Idle
  BY <1>0, <1>t, AtStep
<1>2. DeviceKnows(h) /\ ServerKnows(h)
      /\ \A a, e \in Devices : local[a].identity = local[e].identity /\ local[a].identity # 0
                                 => a = e
  BY <1>0, <1>1, Alone
<1>i. \A e \in Devices : local'[e].identity = local[e].identity
  BY <1>t DEF Resign, SignedFind, SignedUpdate, SignedInsert, SignedPrune
<1>q. ASSUME NEW s \in Steps, Moves(h, s), DeviceKnows(h)', ServerKnows(h)' PROVE UsableInv'
  <2>1. task'[h] # Idle /\ \A x \in Hooks \ {h} : task'[x] = task[x]
    BY <1>q DEF Moves, Active, Steps, Idle
  <2> QED BY <1>0, <1>1, <1>2, <1>i, <1>q, <2>1, StaysCalm
<1>3. CASE Resign(h)
  <2>1. /\ Moves(h, "signedFind") /\ task'[h].batch = task[h].batch
        /\ task[h].step = "resign" /\ signed' = signed
    BY <1>3, <1>t, GotoMoves DEF Resign, At, Steps
  <2>2. local'[d].identity = local[d].identity /\ local'[d].signed = task[h].n
        /\ local'[d].pre = local[d].pre
    BY <1>3, <1>t DEF Resign
  <2>3. DeviceKnows(h)'
    BY <1>2, <2>1, <2>2 DEF DeviceKnows, Moves, Late
  <2>4. ServerKnows(h)'
    BY <1>0, <1>2, <2>1 DEF ServerKnows, Moves, Before, Late
  <2> QED BY <1>q, <2>1, <2>3, <2>4 DEF Steps
<1>4. CASE SignedFind(h)
  <2>0. task[h].step = "signedFind" /\ UNCHANGED <<signed, local>> /\ signed = << >>
    BY <1>2, <1>4 DEF SignedFind, At, ServerKnows
  <2>1. task' = [task EXCEPT ![h].step = "signedSave", ![h].row = 0]
    BY <1>4, <2>0 DEF SignedFind
  <2>2. Moves(h, "signedSave") /\ task'[h].batch = task[h].batch /\ task'[h].row = 0
    BY <1>1, <1>t, <2>1 DEF Moves, TypeOK, Active, Steps
  <2>3. DeviceKnows(h)'
    BY <1>2, <2>0, <2>2 DEF DeviceKnows, Moves, Late
  <2>4. ServerKnows(h)'
    BY <1>0, <1>2, <2>0, <2>2 DEF ServerKnows, Moves, Before, Late
  <2> QED BY <1>q, <2>2, <2>3, <2>4 DEF Steps
<1>5. CASE SignedUpdate(h)
  BY <1>2, <1>5 DEF SignedUpdate, At, ServerKnows
<1>6. CASE SignedInsert(h)
  <2>1. /\ Moves(h, "prune") /\ task'[h].batch = task[h].batch /\ local' = local
        /\ task[h].step = "signedSave"
    BY <1>6, <1>t, GotoMoves DEF SignedInsert, At, Steps
  <2>2. signed' = <<row>>
    BY <1>2, <1>6, <2>1 DEF SignedInsert, ServerKnows
  <2>3. DeviceKnows(h)'
    BY <1>2, <2>1 DEF DeviceKnows, Moves, Late
  <2>4. ServerKnows(h)'
    BY <1>0, <1>2, <2>1, <2>2 DEF ServerKnows, Moves, Before, Late
  <2> QED BY <1>q, <2>1, <2>3, <2>4 DEF Steps
<1>7. CASE SignedPrune(h)
  <2> DEFINE s == AfterSigned(h)
  <2>1. /\ Moves(h, s) /\ task'[h].batch = task[h].batch /\ local' = local
        /\ task[h].step = "prune" /\ s \in Steps /\ s \in Late
    BY <1>7, <1>t, GotoMoves DEF SignedPrune, At, Steps, AfterSigned, Late
  <2>2. signed = <<row>> /\ pre = {} /\ identity = task[h].g
    BY <1>2, <2>1 DEF ServerKnows, Before
  <2>3. signed' = <<row>>
    <3>1. Len(signed) = 1 /\ signed \in Seq(SignedRow)
      BY <1>t, <2>2 DEF TypeOK
    <3>2. signed' = SubSeq(signed, 1, Len(signed))
      BY <1>7, <3>1 DEF SignedPrune
    <3> QED BY <2>2, <3>1, <3>2, SubSeqFull
  <2>4. local[d].identity = task[h].g /\ local[d].signed = task[h].n
    BY <1>2, <2>1 DEF DeviceKnows
  <2>5. Holds(d)'
    BY <1>0, <2>1, <2>2, <2>3, <2>4 DEF Holds, Unused
  <2>6. DeviceKnows(h)'
    BY <1>2, <2>1 DEF DeviceKnows, Moves, Late
  <2>7. ServerKnows(h)'
    BY <1>0, <2>1, <2>2, <2>5 DEF ServerKnows, Moves, Before, Late
  <2> QED BY <1>q, <2>1, <2>6, <2>7
<1> QED BY <1>3, <1>4, <1>5, <1>6, <1>7

(* The one-time pre-keys are counted and, when too few are left, uploaded.  *)
LEMMA BatchCalm ==
  ASSUME UsableInv, disturbed' = {}, NEW h \in Hooks,
         \/ CountEnough(h) \/ ReadTaken(h) \/ InsertFresh(h)
         \/ \E batch \in [Draws -> RandomIds] : Replenish(h, batch),
         Types', Numbered'
  PROVE  UsableInv'
<1> USE DEF server, history
<1> DEFINE d == DeviceOf[h]
<1>t. TypeOK /\ DeviceOf[h] \in Devices /\ local \in [Devices -> [identity : 0..MaxInits,
        signed : 0..MaxInits, pre : SUBSET OneTimeKey]]
  BY DeviceAssumption DEF UsableInv, Types, TypeOK
<1>0. disturbed = {} /\ UNCHANGED <<identity, signed, mixed, fetch>>
      /\ task[h].step \in Late
  BY DEF CountEnough, ReadTaken, InsertFresh, Replenish, At, Late
<1>1. task[h] \in Active /\ task[h] # Idle
  BY <1>0, <1>t, AtStep DEF Late
<1>2. DeviceKnows(h) /\ ServerKnows(h)
      /\ \A a, e \in Devices : local[a].identity = local[e].identity /\ local[a].identity # 0
                                 => a = e
  BY <1>0, <1>1, Alone
<1>3. Holds(d) /\ identity = task[h].g /\ local[d].identity = task[h].g
      /\ Keys(task[h].batch, task[h].n, DOMAIN task[h].batch) \subseteq local[d].pre
  BY <1>0, <1>2 DEF ServerKnows, DeviceKnows, Late, Before
<1>i. \A e \in Devices : local'[e].identity = local[e].identity
  <2>1. ASSUME NEW batch, Replenish(h, batch)
        PROVE  \A e \in Devices : local'[e].identity = local[e].identity
    BY <1>t, <2>1 DEF Replenish
  <2> QED BY <2>1 DEF CountEnough, ReadTaken, InsertFresh
<1>q. ASSUME NEW s \in Late, Moves(h, s), Holds(d)', local'[d].identity = local[d].identity,
             Keys(task'[h].batch, task[h].n, DOMAIN task'[h].batch) \subseteq local'[d].pre
      PROVE  UsableInv'
  <2>1. task'[h] # Idle /\ \A x \in Hooks \ {h} : task'[x] = task[x]
    BY <1>q DEF Moves, Active, Steps, Idle
  <2>2. DeviceKnows(h)'
    BY <1>3, <1>q DEF DeviceKnows, Moves, Late
  <2>3. ServerKnows(h)'
    BY <1>0, <1>3, <1>q DEF ServerKnows, Moves, Before, Late
  <2> QED BY <1>0, <1>1, <1>2, <1>i, <2>1, <2>2, <2>3, StaysCalm
<1>f. ASSUME Finish(h), Holds(d)' PROVE UsableInv'
  <2>1. task'[h] = Idle /\ \A x \in Hooks \ {h} : task'[x] = task[x]
    BY <1>f, <1>t DEF Finish, TypeOK
  <2> QED BY <1>0, <1>1, <1>2, <1>i, <1>f, <1>t, <2>1, StaysCalm
<1>4. CASE CountEnough(h)
  <2>1. Holds(d)'
    BY <1>0, <1>3, <1>4 DEF CountEnough, Holds, Unused
  <2> QED BY <1>4, <1>f, <2>1 DEF CountEnough
<1>5. CASE ReadTaken(h)
  <2>1. Holds(d)' /\ local' = local
    BY <1>0, <1>3, <1>5 DEF ReadTaken, Holds, Unused
  <2>2. {r.keyId : r \in pre} \in SUBSET KeyIds
    BY <1>t DEF TypeOK, OneTimeRow
  <2>3. Moves(h, "insert") /\ task'[h].batch = task[h].batch
    BY <1>1, <1>5, <1>t, <2>2 DEF ReadTaken, Moves, TypeOK, Active, Steps
  <2> QED BY <1>3, <1>q, <2>1, <2>3 DEF Late
<1>6. CASE InsertFresh(h)
  <2> DEFINE next == Cardinality({r.at : r \in pre}) + 1
             rows == {NewRow(h, i, next) : i \in Fresh(h)}
  <2>1. pre' = pre \cup rows /\ local' = local
    BY <1>6 DEF InsertFresh
  <2>2. \A r \in rows : KeyOf(r) \in Keys(task[h].batch, task[h].n, DOMAIN task[h].batch)
    <3>1. \A i \in Fresh(h) : i \in DOMAIN task[h].batch
      BY DEF Fresh
    <3>2. \A i : KeyOf(NewRow(h, i, next)) = [keyId |-> task[h].batch[i], mat |-> task[h].n, draw |-> i]
      BY DEF NewRow, KeyOf
    <3> QED BY <3>1, <3>2 DEF Keys
  <2> HIDE DEF rows, next
  <2>3. \A r \in Unused' : r \in Unused \/ r \in rows
    BY <2>1 DEF Unused
  <2>4. \A r \in Unused' : KeyOf(r) \in local[d].pre
    BY <1>3, <2>2, <2>3 DEF Holds
  <2>5. Holds(d)'
    BY <1>0, <1>3, <2>1, <2>4 DEF Holds
  <2> QED BY <1>6, <1>f, <2>5 DEF InsertFresh
<1>7. ASSUME NEW batch \in [Draws -> RandomIds], Replenish(h, batch) PROVE UsableInv'
  <2>1. UNCHANGED <<identity, signed, pre>> /\ ~Collides(d, batch) /\ batch \in [Draws -> KeyIds]
    BY <1>7, Batches DEF Replenish
  <2>2. Moves(h, "taken") /\ task'[h].batch = batch
    <3>1. task' = [task EXCEPT ![h].step = "taken", ![h].batch = batch]
      BY <1>7 DEF Replenish
    <3> QED BY <1>1, <1>t, <2>1, <3>1 DEF Moves, TypeOK, Active, Steps
  <2>3. /\ local'[d].identity = local[d].identity /\ local'[d].signed = local[d].signed
        /\ local'[d].pre = Stored(local[d].pre, batch, task[h].n)
    BY <1>7, <1>t DEF Replenish
  <2>4. Last(batch) = DOMAIN batch /\ \A k \in local[d].pre : k.keyId \notin Ids(batch)
    BY <2>1 DEF Collides
  <2>5. local'[d].pre = local[d].pre \cup Keys(batch, task[h].n, DOMAIN batch)
    BY <2>3, <2>4 DEF Stored
  <2>6. Holds(d)'
    BY <1>3, <2>1, <2>3, <2>5 DEF Holds, Unused
  <2> QED BY <1>q, <2>2, <2>3, <2>5, <2>6 DEF Late
<1> QED BY <1>4, <1>5, <1>6, <1>7

LEMMA HookUsable ==
  ASSUME UsableInv, NEW h \in Hooks, Initialize(h), Types'
  PROVE  UsableInv'
<1>1. Numbered' /\ Numbered /\ Types
  BY NumberStep DEF UsableInv
<1>2. CASE disturbed' = {}
  <2>1. ~CallFails(h) /\ ~TabCloses(h)
    BY <1>2 DEF CallFails, TabCloses, Fault
  <2> QED BY <1>1, <1>2, <2>1, StartsCalm, SaveCalm, IdentityCalm, SignedCalm, BatchCalm
          DEF Initialize
<1>3. CASE disturbed' # {}
  <2>1. UNCHANGED <<mixed, fetch>>
    BY DEF Initialize, Start, SaveIdentity, StoreFirstKeys, CompareIdentity, Resign, CountEnough,
       Replenish, IdentityLoad, IdentitySave, PurgeOneTime, PurgeSigned, SignedFind, SignedUpdate,
       SignedInsert, SignedPrune, ReadTaken, InsertFresh, CallFails, TabCloses, history
  <2> QED BY <1>1, <1>3, <2>1 DEF UsableInv, OneIdentity
<1> QED BY <1>2, <1>3

(* While no upload publishes, the newest signed pre-key is of the identity  *)
(* that the server has.                                                    *)
LEMMA NewestFits ==
  ASSUME UsableInv, disturbed = {}, ~Publishing, identity # 0, signed # << >>
  PROVE  signed[Len(signed)].by = identity
<1>1. CASE Busy = {}
  BY <1>1 DEF UsableInv, Calm, Holds
<1>2. ASSUME NEW h \in Hooks, task[h] # Idle PROVE signed[Len(signed)].by = identity
  <2>1. task[h].step \in Steps
    BY <1>2 DEF UsableInv, Types, TypeOK, Active
  <2>2. ServerKnows(h)
    BY <1>2, Alone
  <2>3. task[h].step \in Before \cup Late
    BY <2>1, <2>2 DEF Publishing, Steps, Before, Late, ServerKnows
  <2>4. \E e : Holds(e)
    BY <2>2, <2>3 DEF ServerKnows
  <2> QED BY <2>4 DEF Holds
<1> QED BY <1>1, <1>2 DEF Busy

LEMMA FetchUsable ==
  ASSUME UsableInv, NEW p \in Peers, GetPreKeyBundle(p), Types'
  PROVE  UsableInv'
<1> USE DEF server, history
<1>t. fetch \in [Peers -> [step : {"signed", "claim"}, no : 1..MaxFetches,
                           identity : Material, by : Material, beside : BOOLEAN] \cup {Idle}]
  BY DEF UsableInv, Types, TypeOK
<1>1. UNCHANGED <<identity, signed, local, task, inits, disturbed>>
  BY DEF GetPreKeyBundle, FetchIdentity, FetchSigned, Claim
<1>2. Unused' \subseteq Unused /\ (pre = {} => pre' = {})
  <2>1. CASE pre' = pre
    BY <2>1 DEF Unused
  <2>2. ASSUME NEW r \in Oldest, pre' = (pre \ {r}) \cup {[r EXCEPT !.used = TRUE]}
        PROVE  Unused' \subseteq Unused /\ (pre = {} => pre' = {})
    <3>1. r \in pre /\ r \in OneTimeRow
      BY DEF Oldest, Unused, UsableInv, Types, TypeOK
    <3>2. [r EXCEPT !.used = TRUE].used
      BY <3>1 DEF OneTimeRow
    <3> QED BY <2>2, <3>1, <3>2 DEF Unused
  <2> QED BY <2>1, <2>2 DEF GetPreKeyBundle, FetchIdentity, FetchSigned, Claim
<1>3. Numbered'
  BY <1>1 DEF UsableInv, Numbered
<1>4. \A e : Holds(e) => Holds(e)'
  BY <1>1, <1>2 DEF Holds
<1>5. ASSUME disturbed = {} PROVE Calm'
  <2>1. \A h \in Hooks : DeviceKnows(h) => DeviceKnows(h)'
    BY <1>1 DEF DeviceKnows
  <2>2. \A h \in Hooks : ServerKnows(h) => ServerKnows(h)'
    BY <1>1, <1>2, <1>4 DEF ServerKnows
  <2>3. Busy' = Busy
    BY <1>1 DEF Busy
  <2> QED BY <1>1, <1>4, <1>5, <2>1, <2>2, <2>3 DEF UsableInv, Calm
<1>6. OneIdentity'
  <2>1. CASE FetchIdentity(p)
    <3>1. \A q \in Peers : fetch'[q].step = "claim" => fetch'[q] = fetch[q]
      BY <1>t, <2>1 DEF FetchIdentity
    <3> QED BY <1>1, <2>1, <3>1 DEF FetchIdentity, UsableInv, OneIdentity
  <2>2. CASE FetchSigned(p)
    <3>1. \A q \in Peers \ {p} : fetch'[q] = fetch[q]
      BY <1>t, <2>2 DEF FetchSigned
    <3>2. fetch[p].step = "signed" /\ fetch[p].identity \in Material
          /\ fetch[p] \in [step : {"signed", "claim"}, no : 1..MaxFetches,
                           identity : Material, by : Material, beside : BOOLEAN]
      BY <1>t, <2>2 DEF FetchSigned, Idle
    <3>3. ASSUME fetch'[p].step = "claim", ~fetch'[p].beside, disturbed = {}
          PROVE  fetch'[p].by = fetch'[p].identity
      <4>1. signed # << >>
        BY <1>t, <2>2, <3>3 DEF FetchSigned, Idle
      <4>2. /\ fetch'[p].by = signed[Len(signed)].by /\ fetch'[p].identity = fetch[p].identity
            /\ fetch'[p].beside = (fetch[p].beside \/ Publishing \/ identity # fetch[p].identity)
        BY <1>t, <2>2, <3>2, <4>1 DEF FetchSigned
      <4>3. ~Publishing /\ identity = fetch[p].identity
        BY <3>3, <4>2
      <4> QED BY <3>2, <3>3, <4>1, <4>2, <4>3, NewestFits DEF Material
    <3> QED BY <1>1, <2>2, <3>1, <3>3 DEF FetchSigned, UsableInv, OneIdentity
  <2>3. CASE Claim(p)
    <3>1. \A q \in Peers : fetch'[q].step = "claim" => fetch'[q] = fetch[q]
      BY <1>t, <2>3 DEF Claim, Idle
    <3>2. ~mixed'
      BY <2>3 DEF Claim, UsableInv, OneIdentity
    <3> QED BY <1>1, <3>1, <3>2 DEF UsableInv, OneIdentity
  <2> QED BY <2>1, <2>2, <2>3 DEF GetPreKeyBundle
<1> QED BY <1>1, <1>3, <1>5, <1>6 DEF UsableInv

LEMMA UsableStart == Init => UsableInv
<1> SUFFICES ASSUME Init PROVE UsableInv
  OBVIOUS
<1>1. /\ \A h \in Hooks : task[h] = Idle
      /\ \A p \in Peers : fetch[p].step # "claim"
      /\ \A d \in Devices : local[d].identity = 0
      /\ identity = 0 /\ inits = 0 /\ mixed = FALSE
  BY DEF Init, Idle
<1> QED BY <1>1, InitTypes DEF UsableInv, Numbered, Calm, OneIdentity

LEMMA UsableStep == UsableInv /\ [Next]_vars => UsableInv'
<1> SUFFICES ASSUME UsableInv, [Next]_vars PROVE UsableInv'
  OBVIOUS
<1>1. Types'
  BY StepTypes DEF UsableInv
<1>2. CASE UNCHANGED vars
  <2>1. UNCHANGED <<identity, signed, pre, local, task, fetch, inits, mixed, disturbed>>
    BY <1>2 DEF vars, server, history
  <2>2. Calm => Calm'
    BY <2>1 DEF Calm, Busy, Holds, Unused, DeviceKnows, ServerKnows
  <2> QED BY <1>1, <2>1, <2>2 DEF UsableInv, Numbered, OneIdentity
<1> QED BY <1>1, <1>2, HookUsable, FetchUsable DEF Next

(* What a peer is given fits together and can be decrypted, if no calls     *)
(* overlapped, none failed and no drawn ids collided: for every number of   *)
(* devices, hooks, fetches and keys, however often identities are rotated.  *)
THEOREM BundlesAreUsable == Spec => []BundleIsUsable
<1>1. UsableInv => BundleIsUsable
  <2>1. UsableInv => PublishedIsHeld
    BY DEF UsableInv, Calm, PublishedIsHeld, Holds
  <2>2. UsableInv => BundleOfOneIdentity
    BY DEF UsableInv, OneIdentity, BundleOfOneIdentity
  <2> QED BY <2>1, <2>2 DEF BundleIsUsable
<1> QED BY <1>1, UsableStart, UsableStep, PTL DEF Spec
=============================================================================
