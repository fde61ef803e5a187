------------------------------- MODULE PreKeys -------------------------------
(***************************************************************************)
(* The end-to-end encryption keys of one user: the pre-key tables of       *)
(* server/src/keys/prekeys.service.ts, the devices that fill them          *)
(* (initialize of client/src/services/e2ee.service.ts, called once by      *)
(* every mounted useE2EE hook) and the peers that fetch bundles.           *)
(*                                                                         *)
(* Key material is named by the number of the initialize that generated    *)
(* it: one initialize generates at most one identity, one signed pre-key   *)
(* and one batch of one-time pre-keys.                                     *)
(***************************************************************************)
EXTENDS Integers, FiniteSets, Sequences

CONSTANTS
    Hooks,        \* mounted useE2EE hooks; each calls initialize on its own
    Devices,      \* browsers, each with one IndexedDB store
    DeviceOf,     \* DeviceOf[h]: the browser that hook h runs in
    Peers,        \* users that fetch a bundle of this one
    BatchSize,    \* one-time pre-keys in a batch, PREKEY_BATCH_SIZE (20)
    RandomIds,    \* key ids a later batch draws from, 100..100099 in the code
    LowMark,      \* a device uploads a batch when fewer are unused (5)
    MaxInits,     \* bound of the model: initialize calls
    MaxFetches,   \* bound of the model: bundle fetches
    MaxFaults     \* bound of the model: failed calls, stopped replicas, closed tabs

ASSUME DeviceAssumption == DeviceOf \in [Hooks -> Devices]
ASSUME IdsAssumption ==
    /\ BatchSize \in Nat \ {0} /\ LowMark \in Nat
    /\ IsFiniteSet(RandomIds) /\ RandomIds \cap (2..(BatchSize + 1)) = {}
ASSUME BoundsAssumption == MaxInits \in Nat /\ MaxFetches \in Nat /\ MaxFaults \in Nat

VARIABLES
    identity,     \* users.publicKey: 0 when the user has none
    signed,       \* signed_prekeys of the user, oldest first
    pre,          \* one_time_prekeys of the user
    local,        \* local[d]: the private halves device d holds
    task,         \* task[h]: how far hook h's initialize is
    fetch,        \* fetch[p]: how far peer p's fetch is
    inits,        \* initialize calls so far
    handed,       \* history: one-time pre-keys given to a fetch
    mixed,        \* history: an undisturbed fetch returned keys of two identities
    healed,       \* history: the device whose initialize was the last, if it ran
                  \*          alone and without a failure, else empty
    disturbed,    \* history: what has gone wrong so far
    spent         \* fetches and faults so far

server == <<identity, signed, pre>>
history == <<handed, mixed, healed, disturbed>>
vars == <<server, local, task, fetch, inits, history, spent>>

Material == 1..MaxInits

(* A batch gives every key it generates, in order, a key id.  The first    *)
(* batch of a device counts from 2, later ones draw at random.             *)
Draws == 1..BatchSize
FirstBatch == [i \in Draws |-> i + 1]
KeyIds == 2..(BatchSize + 1) \cup RandomIds
Ids(batch) == {batch[i] : i \in DOMAIN batch}

(* The halves of a one-time pre-key: the key id, the initialize that       *)
(* generated it and its place in that batch.                               *)
OneTimeKey == [keyId : KeyIds, mat : Material, draw : Draws]
Keys(batch, n, places) == {[keyId |-> batch[i], mat |-> n, draw |-> i] : i \in places}

(* signed_prekeys: the id of the row, the identity that signed it and the  *)
(* material.  The client always uses keyId 1.                              *)
SignedRow == [id : Material, by : Material, mat : Material]
(* one_time_prekeys; `at` orders the batches by createdAt.                 *)
OneTimeRow == [keyId : KeyIds, mat : Material, draw : Draws, at : Nat \ {0}, used : BOOLEAN]
KeyOf(row) == [keyId |-> row.keyId, mat |-> row.mat, draw |-> row.draw]

Idle == [step |-> "idle"]
Steps == {"generate", "store", "compare", "identityLoad", "identitySave", "purgeOneTime",
          "purgeSigned", "resign", "signedFind", "signedSave", "prune", "count",
          "taken", "insert"}
(* n: the number of the initialize; g: the identity it publishes; fresh:   *)
(* it generated that identity; calm: alone and without a failure so far;   *)
(* batch: what it uploads; changed, row, skip: what its handlers read.     *)
Active == [step : Steps, n : Material, g : Material, fresh : BOOLEAN, calm : BOOLEAN,
           changed : BOOLEAN, row : Material \cup {0},
           batch : {<< >>} \cup [Draws -> KeyIds], skip : SUBSET KeyIds]

Init ==
    /\ identity = 0 /\ signed = << >> /\ pre = {}
    /\ local = [d \in Devices |-> [identity |-> 0, signed |-> 0, pre |-> {}]]
    /\ task = [h \in Hooks |-> Idle]
    /\ fetch = [p \in Peers |-> Idle]
    /\ inits = 0
    /\ handed = {} /\ mixed = FALSE /\ healed = {} /\ disturbed = {}
    /\ spent = [fetches |-> 0, faults |-> 0]

Busy == {h \in Hooks : task[h] # Idle}
At(h, step) == task[h].step = step
Goto(h, step) == task' = [task EXCEPT ![h].step = step]

(* initialize returns; the hook is not initialized again.                  *)
Finish(h) ==
    /\ task' = [task EXCEPT ![h] = Idle]
    /\ healed' = IF task[h].calm THEN {DeviceOf[h]} ELSE {}

---------------------------------------------------------------------------
(* The device: initialize.                                                 *)

(* A hook mounts and reads the identity of its device.                     *)
Start(h) ==
    LET mine == local[DeviceOf[h]].identity
    IN  /\ task[h] = Idle
        /\ inits < MaxInits
        /\ inits' = inits + 1
        /\ task' = [x \in Hooks |->
             IF x = h
             THEN [step |-> IF mine = 0 THEN "generate" ELSE "compare", n |-> inits + 1,
                   g |-> IF mine = 0 THEN inits + 1 ELSE mine, fresh |-> mine = 0,
                   calm |-> Busy = {}, changed |-> FALSE, row |-> 0,
                   batch |-> IF mine = 0 THEN FirstBatch ELSE << >>, skip |-> {}]
             ELSE IF task[x] = Idle THEN Idle ELSE [task[x] EXCEPT !.calm = FALSE]]
        /\ healed' = {}
        /\ disturbed' = IF Busy = {} THEN disturbed ELSE disturbed \cup {"overlap"}
        /\ UNCHANGED <<server, local, fetch, handed, mixed, spent>>

(* saveIdentityKeyPair, at once and before any upload.                     *)
SaveIdentity(h) ==
    /\ At(h, "generate")
    /\ local' = [local EXCEPT ![DeviceOf[h]].identity = task[h].g]
    /\ Goto(h, "store")
    /\ UNCHANGED <<server, fetch, inits, history, spent>>

(* The private halves of a batch are put in the store one by one: a key    *)
(* id that is there, or came earlier in the batch, is overwritten.         *)
Last(batch) == {i \in DOMAIN batch : \A j \in DOMAIN batch : batch[j] = batch[i] => j <= i}
Stored(held, batch, n) ==
    {k \in held : k.keyId \notin Ids(batch)} \cup Keys(batch, n, Last(batch))

(* A new device: its signed pre-key and its first batch, then the uploads. *)
StoreFirstKeys(h) ==
    LET d == DeviceOf[h]
    IN  /\ At(h, "store")
        /\ local' = [local EXCEPT
             ![d].signed = task[h].n,
             ![d].pre = Stored(@, task[h].batch, task[h].n)]
        /\ Goto(h, "identityLoad")
        /\ UNCHANGED <<server, fetch, inits, history, spent>>

(* Variant: any identity on the server will do.                            *)
CompareAny(h) ==
    /\ At(h, "compare")
    /\ Goto(h, IF identity # 0 THEN "count" ELSE "identityLoad")
    /\ UNCHANGED <<server, local, fetch, inits, history, spent>>

(* syncSelfIdentity: an identity the server has in this very form is left  *)
(* alone, and so are the signed pre-key and the one-time keys beside it.   *)
CompareIdentity(h) ==
    /\ At(h, "compare")
    /\ Goto(h, IF identity = task[h].g THEN "count" ELSE "identityLoad")
    /\ UNCHANGED <<server, local, fetch, inits, history, spent>>

(* syncSelfIdentity signs a new pre-key, under the one key id there is.    *)
Resign(h) ==
    /\ At(h, "resign")
    /\ local' = [local EXCEPT ![DeviceOf[h]].signed = task[h].n]
    /\ Goto(h, "signedFind")
    /\ UNCHANGED <<server, fetch, inits, history, spent>>

(* getOneTimePreKeyCount, and refreshPreKeys: enough are left.             *)
Unused == {r \in pre : ~r.used}
CountEnough(h) ==
    /\ At(h, "count")
    /\ Cardinality(Unused) >= LowMark
    /\ Finish(h)
    /\ UNCHANGED <<server, local, fetch, inits, handed, mixed, disturbed, spent>>

(* A batch drawn at random may repeat an id, or hit one that is taken.     *)
Collides(d, batch) ==
    \/ Last(batch) # DOMAIN batch
    \/ \E k \in local[d].pre \cup pre : k.keyId \in Ids(batch)

(* refreshPreKeys: too few are left, a batch is stored and uploaded, its   *)
(* key ids drawn at random and independently of each other.                *)
Replenish(h, batch) ==
    LET d == DeviceOf[h]
    IN  /\ At(h, "count")
        /\ Cardinality(Unused) < LowMark
        /\ local' = [local EXCEPT ![d].pre = Stored(@, batch, task[h].n)]
        /\ task' = [task EXCEPT ![h].step = "taken", ![h].batch = batch]
        /\ disturbed' = IF Collides(d, batch) THEN disturbed \cup {"collision"} ELSE disturbed
        /\ UNCHANGED <<server, fetch, inits, handed, mixed, healed, spent>>

---------------------------------------------------------------------------
(* The server: uploadIdentityKey.                                          *)

IdentityLoad(h) ==
    /\ At(h, "identityLoad")
    /\ task' = [task EXCEPT ![h].step = "identitySave", ![h].changed = identity # task[h].g]
    /\ UNCHANGED <<server, local, fetch, inits, history, spent>>

(* The call after POST /keys/identity: a new device has its signed         *)
(* pre-key, syncSelfIdentity generates one now.                            *)
AfterIdentity(h) == IF task[h].fresh THEN "signedFind" ELSE "resign"

(* The save; the same key again purges nothing.                            *)
IdentitySave(h) ==
    /\ At(h, "identitySave")
    /\ identity' = task[h].g
    /\ Goto(h, IF task[h].changed THEN "purgeOneTime" ELSE AfterIdentity(h))
    /\ UNCHANGED <<signed, pre, local, fetch, inits, history, spent>>

(* Variant: a rotation leaves the one-time pre-keys.                       *)
PurgeNoOneTime(h) ==
    /\ At(h, "purgeOneTime")
    /\ Goto(h, "purgeSigned")
    /\ UNCHANGED <<server, local, fetch, inits, history, spent>>

PurgeOneTime(h) ==
    /\ At(h, "purgeOneTime")
    /\ pre' = {}
    /\ Goto(h, "purgeSigned")
    /\ UNCHANGED <<identity, signed, local, fetch, inits, history, spent>>

(* Variant: a rotation leaves the signed pre-key.                          *)
PurgeNoSigned(h) ==
    /\ At(h, "purgeSigned")
    /\ Goto(h, AfterIdentity(h))
    /\ UNCHANGED <<server, local, fetch, inits, history, spent>>

(* The second delete, then the audit row, whose failure is swallowed.      *)
PurgeSigned(h) ==
    /\ At(h, "purgeSigned")
    /\ signed' = << >>
    /\ Goto(h, AfterIdentity(h))
    /\ UNCHANGED <<identity, pre, local, fetch, inits, history, spent>>

---------------------------------------------------------------------------
(* The server: uploadSignedPreKey.                                         *)

(* One of the rows with this key id, or none.                              *)
SignedFind(h) ==
    /\ At(h, "signedFind")
    /\ \E row \in IF signed = << >> THEN {0} ELSE {signed[i].id : i \in DOMAIN signed} :
          task' = [task EXCEPT ![h].step = "signedSave", ![h].row = row]
    /\ UNCHANGED <<server, local, fetch, inits, history, spent>>

AfterSigned(h) == IF task[h].fresh THEN "taken" ELSE "count"

(* The row found is saved with the new key and signature.  One that was    *)
(* purged meanwhile is inserted again, with its old createdAt.             *)
SignedUpdate(h) ==
    LET row == [id |-> task[h].row, by |-> task[h].g, mat |-> task[h].n]
    IN  /\ At(h, "signedSave")
        /\ task[h].row # 0
        /\ signed' = IF \E i \in DOMAIN signed : signed[i].id = row.id
                     THEN [i \in DOMAIN signed |-> IF signed[i].id = row.id THEN row ELSE signed[i]]
                     ELSE <<row>> \o signed
        /\ Goto(h, AfterSigned(h))
        /\ UNCHANGED <<identity, pre, local, fetch, inits, history, spent>>

SignedInsert(h) ==
    /\ At(h, "signedSave")
    /\ task[h].row = 0
    /\ signed' = Append(signed, [id |-> task[h].n, by |-> task[h].g, mat |-> task[h].n])
    /\ Goto(h, "prune")
    /\ UNCHANGED <<identity, pre, local, fetch, inits, history, spent>>

(* Only the newest two stay (SIGNED_PREKEY_HISTORY).                       *)
SignedPrune(h) ==
    /\ At(h, "prune")
    /\ signed' = SubSeq(signed, IF Len(signed) > 2 THEN Len(signed) - 1 ELSE 1, Len(signed))
    /\ Goto(h, AfterSigned(h))
    /\ UNCHANGED <<identity, pre, local, fetch, inits, history, spent>>

---------------------------------------------------------------------------
(* The server: uploadOneTimePreKeys.                                       *)

ReadTaken(h) ==
    /\ At(h, "taken")
    /\ task' = [task EXCEPT ![h].step = "insert", ![h].skip = {r.keyId : r \in pre}]
    /\ UNCHANGED <<server, local, fetch, inits, history, spent>>

(* Variant: ids that are taken are uploaded again.                         *)
FreshAll(h) == DOMAIN task[h].batch

Fresh(h) == {i \in DOMAIN task[h].batch : task[h].batch[i] \notin task[h].skip}

(* The keys whose ids were not taken, also those that share an id with     *)
(* another of the batch; no UNIQUE column backs the check.                 *)
NewRow(h, i, at) ==
    [keyId |-> task[h].batch[i], mat |-> task[h].n, draw |-> i, at |-> at, used |-> FALSE]
InsertFresh(h) ==
    LET next == Cardinality({r.at : r \in pre}) + 1
    IN  /\ At(h, "insert")
        /\ pre' = pre \cup {NewRow(h, i, next) : i \in Fresh(h)}
        /\ Finish(h)
        /\ UNCHANGED <<identity, signed, local, fetch, inits, handed, mixed, disturbed, spent>>

---------------------------------------------------------------------------
(* Faults: a call fails or its handler stops at any statement, an answer   *)
(* is lost, a tab is closed.                                               *)

Fault ==
    /\ spent.faults < MaxFaults
    /\ spent' = [spent EXCEPT !.faults = @ + 1]
    /\ disturbed' = disturbed \cup {"fault"}

(* At "resign" it is the answer of POST /keys/identity that is lost.       *)
Calls == Steps \ {"generate", "store"}

(* Where the catch blocks resume.  A failed read of the own identity is    *)
(* taken for a missing one; syncSelfIdentity gives up and goes on to       *)
(* refreshPreKeys; a new device gives up altogether.                       *)
ResumeAt(h) ==
    IF At(h, "compare") THEN "identityLoad"
    ELSE IF task[h].fresh \/ task[h].step \in {"count", "taken", "insert"} THEN "idle"
    ELSE "count"

CallFails(h) ==
    /\ task[h].step \in Calls
    /\ Fault
    /\ task' = [task EXCEPT ![h] =
         IF ResumeAt(h) = "idle" THEN Idle
         ELSE [task[h] EXCEPT !.step = ResumeAt(h), !.calm = FALSE]]
    /\ UNCHANGED <<server, local, fetch, inits, handed, mixed, healed>>

TabCloses(h) ==
    /\ task[h] # Idle
    /\ Fault
    /\ task' = [task EXCEPT ![h] = Idle]
    /\ UNCHANGED <<server, local, fetch, inits, handed, mixed, healed>>

---------------------------------------------------------------------------
(* A peer: getPreKeyBundle, statement by statement.  `beside` says that an *)
(* upload of an identity or of a signed pre-key ran at the same time.      *)

Publishing ==
    \E h \in Hooks : task[h].step \in {"identitySave", "purgeOneTime", "purgeSigned",
                                       "signedSave", "prune"}

(* Variant: a user without an identity is not refused.                     *)
FetchIdentityUnchecked(p) ==
    /\ fetch[p] = Idle
    /\ spent.fetches < MaxFetches
    /\ spent' = [spent EXCEPT !.fetches = @ + 1]
    /\ fetch' = [fetch EXCEPT ![p] =
         [step |-> "signed", no |-> spent.fetches + 1, identity |-> identity, by |-> identity,
          beside |-> Publishing]]
    /\ UNCHANGED <<server, local, task, inits, history>>

FetchIdentity(p) ==
    /\ fetch[p] = Idle
    /\ identity # 0
    /\ spent.fetches < MaxFetches
    /\ spent' = [spent EXCEPT !.fetches = @ + 1]
    /\ fetch' = [fetch EXCEPT ![p] =
         [step |-> "signed", no |-> spent.fetches + 1, identity |-> identity, by |-> identity,
          beside |-> Publishing]]
    /\ UNCHANGED <<server, local, task, inits, history>>

(* The newest signed pre-key; without one the fetch ends with 404.         *)
FetchSigned(p) ==
    /\ fetch[p].step = "signed"
    /\ fetch' = [fetch EXCEPT ![p] =
         IF signed = << >> THEN Idle
         ELSE [@ EXCEPT !.step = "claim", !.by = signed[Len(signed)].by,
                        !.beside = fetch[p].beside \/ Publishing \/ identity # fetch[p].identity]]
    /\ UNCHANGED <<server, local, task, inits, history, spent>>

Oldest == {r \in Unused : \A s \in Unused : r.at <= s.at}

(* Variant: the key is given out and not marked as used.                   *)
ClaimUnsaved(p) ==
    /\ fetch[p].step = "claim"
    /\ \/ Unused = {} /\ UNCHANGED handed
       \/ \E r \in Oldest :
             handed' = handed \cup {[no |-> fetch[p].no, key |-> KeyOf(r)]}
    /\ fetch' = [fetch EXCEPT ![p] = Idle]
    /\ UNCHANGED <<server, local, task, inits, mixed, healed, disturbed, spent>>

(* The transaction that claims one of the oldest unused keys under a row   *)
(* lock, if there is one, and the end of the fetch.                        *)
Claim(p) ==
    /\ fetch[p].step = "claim"
    /\ \/ Unused = {} /\ UNCHANGED <<pre, handed>>
       \/ \E r \in Oldest :
             /\ pre' = (pre \ {r}) \cup {[r EXCEPT !.used = TRUE]}
             /\ handed' = handed \cup {[no |-> fetch[p].no, key |-> KeyOf(r)]}
    /\ mixed' = (mixed \/ (/\ disturbed = {} /\ ~fetch[p].beside
                           /\ fetch[p].by # fetch[p].identity))
    /\ fetch' = [fetch EXCEPT ![p] = Idle]
    /\ UNCHANGED <<identity, signed, local, task, inits, healed, disturbed, spent>>

---------------------------------------------------------------------------
Initialize(h) ==
    \/ Start(h) \/ SaveIdentity(h) \/ StoreFirstKeys(h) \/ CompareIdentity(h) \/ Resign(h)
    \/ CountEnough(h)
    \/ \E batch \in [Draws -> RandomIds] : Replenish(h, batch)
    \/ IdentityLoad(h) \/ IdentitySave(h) \/ PurgeOneTime(h) \/ PurgeSigned(h)
    \/ SignedFind(h) \/ SignedUpdate(h) \/ SignedInsert(h) \/ SignedPrune(h)
    \/ ReadTaken(h) \/ InsertFresh(h)
    \/ CallFails(h) \/ TabCloses(h)

GetPreKeyBundle(p) == FetchIdentity(p) \/ FetchSigned(p) \/ Claim(p)

Next == (\E h \in Hooks : Initialize(h)) \/ (\E p \in Peers : GetPreKeyBundle(p))

Spec == Init /\ [][Next]_vars
---------------------------------------------------------------------------
(* The tables, the stores and the calls under way hold what their columns  *)
(* allow, every key in them has the number of an initialize and its place  *)
(* in a batch, and a bundle is begun only for a user with an identity.     *)
TypeOK ==
    /\ identity \in 0..MaxInits
    /\ signed \in Seq(SignedRow)
    /\ pre \subseteq OneTimeRow
    /\ local \in [Devices -> [identity : 0..MaxInits, signed : 0..MaxInits,
                              pre : SUBSET OneTimeKey]]
    /\ task \in [Hooks -> Active \cup {Idle}]
    /\ fetch \in [Peers -> [step : {"signed", "claim"}, no : 1..MaxFetches,
                            identity : Material, by : Material, beside : BOOLEAN]
                           \cup {Idle}]
    /\ inits \in 0..MaxInits
    /\ handed \subseteq [no : 1..MaxFetches, key : OneTimeKey]
    /\ mixed \in BOOLEAN
    /\ healed \subseteq Devices
    /\ disturbed \subseteq {"overlap", "fault", "collision"}
    /\ spent \in [fetches : 0..MaxFetches, faults : 0..MaxFaults]

(* One one-time pre-key is given to at most one fetch, however fetches,    *)
(* rotations, uploads and their failures interleave (prekeys.service.ts    *)
(* 183: "two peers fetching a bundle at the same instant must not receive  *)
(* the same one-time pre-key").                                            *)
HandedOnce ==
    \A a, b \in handed : a.key = b.key => a.no = b.no

(* Unless two initialize calls overlapped, two rows share a key id only if *)
(* one batch drew it twice: "KeyIds already present (used or unused) are   *)
(* skipped" (prekeys.service.ts 142) holds between batches, whatever ids   *)
(* they draw and however calls fail, and within a batch nothing skips.     *)
KeyIdsUnique ==
    \/ "overlap" \in disturbed
    \/ \A r, s \in pre : r.keyId = s.keyId =>
          r = s \/ ("collision" \in disturbed /\ r.mat = s.mat /\ r.draw # s.draw)

(* After an initialize that ran alone and without a failure the server has *)
(* the identity of that device, whatever went wrong before it.             *)
IdentityHealed == \A d \in healed : identity = local[d].identity

(* If no two initialize calls overlapped, no call failed and no drawn ids  *)
(* collided, then between initialize calls the device whose identity is    *)
(* published holds the private half of the newest signed pre-key, which    *)
(* that identity signed, and of every unused one-time pre-key: whatever a  *)
(* peer is given, the device can decrypt.                                  *)
PublishedIsHeld ==
    disturbed = {} /\ Busy = {} /\ identity # 0 =>
        \E d \in Devices :
            /\ local[d].identity = identity
            /\ signed # << >>
            /\ LET newest == signed[Len(signed)]
               IN  newest.by = identity /\ newest.mat = local[d].signed
            /\ \A r \in Unused : KeyOf(r) \in local[d].pre

(* In the same circumstances a bundle has the keys of two identities only  *)
(* if an upload ran beside the fetch.                                      *)
BundleOfOneIdentity == ~mixed

(* What a peer is given fits together and can be decrypted.                *)
BundleIsUsable == PublishedIsHeld /\ BundleOfOneIdentity
==============================================================================
