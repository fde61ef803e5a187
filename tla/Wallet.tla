------------------------------- MODULE Wallet -------------------------------
(***************************************************************************)
(* The wallet of server/src/wallet/wallet.service.ts: one `users` row per  *)
(* user (balance, linked wallet address, NFT picture) and the append-only  *)
(* ledger.  Requests run on several replicas and interleave at every await *)
(* so each is a worker that advances one database statement or one         *)
(* transaction at a time.                                                  *)
(*                                                                         *)
(* A balance movement is one transaction that locks the row.  The profile  *)
(* operations load the whole user, await, and `save` the entity: TypeORM   *)
(* reloads the row and writes every column in which the entity differs,    *)
(* the balance included.                                                   *)
(*                                                                         *)
(* Amounts are integers that count HALF CENTS, so that an amount below a   *)
(* cent and the rounding of a decimal(10,2) column can be told apart.      *)
(***************************************************************************)
EXTENDS Integers, Sequences

CONSTANTS
    Users,        \* accounts
    Workers,      \* concurrent requests, over all replicas
    Addresses,    \* blockchain wallet addresses
    None,         \* SQL NULL
    Deltas,       \* signed amounts callers pass to credit and debit
    MaxBalance,   \* largest value of the balance column
    MaxEntries    \* bound of the model: ledger rows per user

ASSUME NoneAssumption == None \notin Users \cup Addresses
ASSUME DeltasAssumption == Deltas \subseteq Int
ASSUME MaxBalanceAssumption == MaxBalance \in Nat /\ MaxBalance % 2 = 0
ASSUME MaxEntriesAssumption == MaxEntries \in Nat

VARIABLES
    row,          \* row[u]: the committed users row
    ledger,       \* ledger[u]: the committed ledger rows, oldest first
    pc,           \* pc[w]: where the request stands
    target,       \* target[w]: the user it works on
    entity,       \* entity[w]: the User object it holds in memory
    delta,        \* delta[w]: the amount it moves
    dirty,        \* dirty[w]: columns its save will write
    overwritten,  \* history: users whose balance a stale save wrote back
    rounded       \* history: ledger rows <<u, i>> of debits of part of a cent

vars == <<row, ledger, pc, target, entity, delta, dirty, overwritten, rounded>>
local == <<target, entity, delta, dirty>>
past == <<overwritten, rounded>>

Columns == {"balance", "address", "nft"}

Row == [balance: 0..MaxBalance,
        address: Addresses \cup {None},
        nft: Addresses \cup {None}]

Entry == [amount: Int, balanceAfter: 0..MaxBalance]

Steps == {"idle", "moving", "linking", "verifying", "saving", "writing"}

(* The value a decimal(10,2) column stores for x: the nearest whole cent,  *)
(* halves away from zero.                                                  *)
Column(x) == IF x % 2 = 0 THEN x ELSE IF x > 0 THEN x + 1 ELSE x - 1

(* The row lock of SELECT ... FOR UPDATE, held until the transaction ends. *)
Locked(u) == \E w \in Workers : pc[w] = "moving" /\ target[w] = u

Init ==
    /\ row = [u \in Users |-> [balance |-> 0, address |-> None, nft |-> None]]
    /\ ledger = [u \in Users |-> << >>]
    /\ pc = [w \in Workers |-> "idle"]
    /\ target = [w \in Workers |-> None]
    /\ entity = [w \in Workers |-> None]
    /\ delta = [w \in Workers |-> 0]
    /\ dirty = [w \in Workers |-> {}]
    /\ overwritten = {}
    /\ rounded = {}

(* The request ends, by returning, by throwing or with its process.        *)
Finish(w) ==
    /\ pc' = [pc EXCEPT ![w] = "idle"]
    /\ target' = [target EXCEPT ![w] = None]
    /\ entity' = [entity EXCEPT ![w] = None]
    /\ delta' = [delta EXCEPT ![w] = 0]
    /\ dirty' = [dirty EXCEPT ![w] = {}]

(* A request for user u begins by loading the row, and stops before its    *)
(* next statement, at step s.                                              *)
Load(w, u, s) ==
    /\ pc[w] = "idle"
    /\ pc' = [pc EXCEPT ![w] = s]
    /\ target' = [target EXCEPT ![w] = u]
    /\ entity' = [entity EXCEPT ![w] = row[u]]

---------------------------------------------------------------------------
(* credit and debit: applyMovement, one transaction.                       *)

(* Variant: the transaction reads the row without FOR UPDATE.              *)
MovementLockUnlocked(w, u, d) ==
    /\ Len(ledger[u]) < MaxEntries
    /\ Load(w, u, "moving")
    /\ delta' = [delta EXCEPT ![w] = d]
    /\ UNCHANGED <<row, ledger, dirty, past>>

(* The transaction opens and takes the row lock.                           *)
MovementLock(w, u, d) ==
    /\ ~Locked(u)
    /\ Len(ledger[u]) < MaxEntries
    /\ Load(w, u, "moving")
    /\ delta' = [delta EXCEPT ![w] = d]
    /\ UNCHANGED <<row, ledger, dirty, past>>

(* The ledger row of a movement of d that leaves balance next.             *)
Written(u, d, next) ==
    ledger' = [ledger EXCEPT ![u] =
        Append(@, [amount |-> Column(d), balanceAfter |-> Column(next)])]

(* History: d takes part of a cent.                                        *)
Rounds(u, d) ==
    rounded' = IF d < 0 /\ d % 2 = 1 THEN rounded \cup {<<u, Len(ledger[u]) + 1>>} ELSE rounded

(* Variant: the transaction does not look for an overdraft.                *)
MovementCommitOverdraft(w) ==
    LET u == target[w]
        next == entity[w].balance + delta[w]
    IN  /\ pc[w] = "moving"
        /\ row' = [row EXCEPT ![u].balance = Column(next)]
        /\ Written(u, delta[w], next)
        /\ Rounds(u, delta[w])
        /\ Finish(w)
        /\ UNCHANGED overwritten

(* Variant: the ledger row is written after the transaction, and may fail. *)
MovementCommitApart(w) ==
    LET u == target[w]
        next == entity[w].balance + delta[w]
    IN  /\ pc[w] = "moving"
        /\ next >= 0
        /\ Column(next) <= MaxBalance
        /\ row' = [row EXCEPT ![u].balance = Column(next)]
        /\ \/ Written(u, delta[w], next) /\ Rounds(u, delta[w])
           \/ UNCHANGED <<ledger, rounded>>
        /\ Finish(w)
        /\ UNCHANGED overwritten

(* The new balance and its ledger row become visible together; the columns *)
(* round the balance and the amount each for itself.                       *)
MovementCommit(w) ==
    LET u == target[w]
        next == entity[w].balance + delta[w]
    IN  /\ pc[w] = "moving"
        /\ next >= 0
        /\ Column(next) <= MaxBalance
        /\ row' = [row EXCEPT ![u].balance = Column(next)]
        /\ Written(u, delta[w], next)
        /\ Rounds(u, delta[w])
        /\ Finish(w)
        /\ UNCHANGED overwritten

(* An overdraft throws and a balance the column cannot hold is an error of *)
(* the database: both roll back.                                           *)
MovementRollback(w) ==
    LET next == entity[w].balance + delta[w]
    IN  /\ pc[w] = "moving"
        /\ next < 0 \/ Column(next) > MaxBalance
        /\ Finish(w)
        /\ UNCHANGED <<row, ledger, past>>

---------------------------------------------------------------------------
(* Operations that load, change and save a whole user.                     *)

(* connectWallet, its signature already verified.                          *)
ConnectLoad(w, u, a) ==
    /\ pc[w] = "idle"
    /\ pc' = [pc EXCEPT ![w] = "linking"]
    /\ target' = [target EXCEPT ![w] = u]
    /\ entity' = [entity EXCEPT ![w] = [row[u] EXCEPT !.address = a]]
    /\ UNCHANGED <<row, ledger, delta, dirty, past>>

(* "A wallet may only be linked to one account."                           *)
ConnectCheck(w) ==
    /\ pc[w] = "linking"
    /\ IF \E v \in Users \ {target[w]} : row[v].address = entity[w].address
       THEN Finish(w)
       ELSE /\ pc' = [pc EXCEPT ![w] = "saving"]
            /\ UNCHANGED local
    /\ UNCHANGED <<row, ledger, past>>

Disconnect(w, u) ==
    /\ pc[w] = "idle"
    /\ pc' = [pc EXCEPT ![w] = "saving"]
    /\ target' = [target EXCEPT ![w] = u]
    /\ entity' = [entity EXCEPT ![w] = [row[u] EXCEPT !.address = None, !.nft = None]]
    /\ UNCHANGED <<row, ledger, delta, dirty, past>>

(* setNftPfp loads the user, then asks the NFT index of the linked wallet. *)
NftLoad(w, u) ==
    /\ row[u].address # None
    /\ Load(w, u, "verifying")
    /\ UNCHANGED <<row, ledger, delta, dirty, past>>

(* The index answers whether the wallet owns the picture's token; the      *)
(* picture is remembered by the wallet it was verified against.            *)
NftAnswer(w, owned) ==
    /\ pc[w] = "verifying"
    /\ IF owned
       THEN /\ pc' = [pc EXCEPT ![w] = "saving"]
            /\ entity' = [entity EXCEPT ![w].nft = entity[w].address]
            /\ UNCHANGED <<target, delta, dirty>>
       ELSE Finish(w)
    /\ UNCHANGED <<row, ledger, past>>

(* payments.service.ts also saves a user it loaded before it awaited       *)
(* Stripe (getConnectStatus, createOnboardingLink, syncConnectAccount);    *)
(* it changes no column of this model itself.                              *)
ConnectAccountLoad(w, u) ==
    /\ Load(w, u, "saving")
    /\ UNCHANGED <<row, ledger, delta, dirty, past>>

(* save: the row is read again and the columns that differ are chosen ...  *)
SaveReload(w) ==
    /\ pc[w] = "saving"
    /\ dirty' = [dirty EXCEPT ![w] = {c \in Columns : entity[w][c] # row[target[w]][c]}]
    /\ pc' = [pc EXCEPT ![w] = "writing"]
    /\ UNCHANGED <<row, ledger, target, entity, delta, past>>

(* walletAddress is a UNIQUE column.                                       *)
AddressTaken(w) ==
    /\ "address" \in dirty[w]
    /\ entity[w].address # None
    /\ \E v \in Users \ {target[w]} : row[v].address = entity[w].address

(* ... and one UPDATE writes them, once no movement locks the row and      *)
(* unless it breaks the constraint.                                        *)
SaveWrite(w) ==
    LET u == target[w]
    IN  /\ pc[w] = "writing"
        /\ ~Locked(u)
        /\ IF AddressTaken(w)
           THEN UNCHANGED <<row, overwritten>>
           ELSE /\ row' = [row EXCEPT ![u] =
                     [c \in Columns |-> IF c \in dirty[w] THEN entity[w][c] ELSE @[c]]]
                /\ overwritten' = IF "balance" \in dirty[w]
                                  THEN overwritten \cup {u} ELSE overwritten
        /\ Finish(w)
        /\ UNCHANGED <<ledger, rounded>>

(* A replica stops: an open transaction rolls back, a held entity is gone. *)
Crash(w) ==
    /\ pc[w] # "idle"
    /\ Finish(w)
    /\ UNCHANGED <<row, ledger, past>>

---------------------------------------------------------------------------
Movement(w) ==
    \/ \E u \in Users, d \in Deltas : MovementLock(w, u, d)
    \/ MovementCommit(w)
    \/ MovementRollback(w)

Profile(w) ==
    \/ \E u \in Users, a \in Addresses : ConnectLoad(w, u, a)
    \/ ConnectCheck(w)
    \/ \E u \in Users : Disconnect(w, u) \/ NftLoad(w, u) \/ ConnectAccountLoad(w, u)
    \/ \E owned \in BOOLEAN : NftAnswer(w, owned)
    \/ SaveReload(w)
    \/ SaveWrite(w)

Next == \E w \in Workers : Movement(w) \/ Profile(w) \/ Crash(w)

Spec == Init /\ [][Next]_vars

---------------------------------------------------------------------------
(* Every variable has the shape the code gives it; a request that is under *)
(* way holds a user and its entity (wallet.service.ts, User entity).       *)
TypeOK ==
    /\ row \in [Users -> Row]
    /\ ledger \in [Users -> Seq(Entry)]
    /\ pc \in [Workers -> Steps]
    /\ target \in [Workers -> Users \cup {None}]
    /\ entity \in [Workers -> Row \cup {None}]
    /\ delta \in [Workers -> Deltas \cup {0}]
    /\ dirty \in [Workers -> SUBSET Columns]
    /\ overwritten \subseteq Users
    /\ rounded \subseteq Users \X Nat
    /\ \A w \in Workers : pc[w] # "idle" => target[w] \in Users /\ entity[w] \in Row

(* The balance ledger row i of user u started from.                        *)
Before(u, i) == IF i = 1 THEN 0 ELSE ledger[u][i - 1].balanceAfter

Latest(u) == IF ledger[u] = << >> THEN 0 ELSE ledger[u][Len(ledger[u])].balanceAfter

(* What a ledger row takes beyond what the balance lost: a debit of part   *)
(* of a cent is written as the whole cent, and the balance keeps it.       *)
Overstated(u, i) == IF <<u, i>> \in rounded THEN 2 ELSE 0

Exact(u) ==
    /\ \A i \in 1..Len(ledger[u]) :
         ledger[u][i].balanceAfter = Before(u, i) + ledger[u][i].amount + Overstated(u, i)
    /\ row[u].balance = Latest(u)

(* ledger-entry.entity.ts: "the ledger is always an exact, auditable       *)
(* history of the balance".  The last row is the balance, and each row     *)
(* continues the one before it by its amount; only a debit of part of a    *)
(* cent, which no caller of applyMovement rules out, is one cent too large *)
(* in the ledger, whatever the others do.  This holds for each user whose  *)
(* balance no stale whole-entity save has written back.                    *)
LedgerExactUnlessOverwritten == \A u \in Users \ overwritten : Exact(u)

(* The balances the ledger of u has recorded.                              *)
Recorded(u) == {0} \cup {ledger[u][i].balanceAfter : i \in 1..Len(ledger[u])}

(* No interleaving makes a balance up: also where disconnectWallet or      *)
(* another whole-entity save writes one back, it is one that a committed   *)
(* movement has recorded in the ledger.                                    *)
BalanceWasRecorded == \A u \in Users : row[u].balance \in Recorded(u)

=============================================================================
