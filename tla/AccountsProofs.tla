--------------------------- MODULE AccountsProofs ---------------------------
(* Proofs about Wallet, and about Accounts, which extends it, for every     *)
(* number of accounts, lists, requests, addresses and amounts: the saves of *)
(* Accounts are saves of Wallet, so the ledger is as exact as Wallet's; and *)
(* what BlockSevers and LinksAsAsked say holds whatever lists the others    *)
(* hold.                                                                   *)
EXTENDS Accounts, TLAPS

(* The wallet.                                                             *)
(* A movement that holds the row lock holds it alone, and the balance it   *)
(* read is still the row's.                                                *)
LockInv ==
    \A w \in Workers : pc[w] = "moving" =>
        /\ entity[w].balance = row[target[w]].balance
        /\ \A v \in Workers \ {w} : ~(pc[v] = "moving" /\ target[v] = target[w])

(* Balances, in the table and in the entities requests hold, are whole     *)
(* numbers of cents.                                                       *)
WholeBalances ==
    /\ \A u \in Users : row[u].balance % 2 = 0
    /\ \A w \in Workers : pc[w] # "idle" => entity[w].balance % 2 = 0

(* The balance in an entity that a request holds was once committed.       *)
HeldWasRecorded ==
    \A w \in Workers : pc[w] # "idle" => entity[w].balance \in Recorded(target[w])

(* History names ledger rows that are there.                               *)
RoundedRows == \A p \in rounded : p[2] \in 1..Len(ledger[p[1]])

(* The inductive invariant behind the ledger.                              *)
LedgerInv ==
    /\ LockInv /\ WholeBalances /\ RoundedRows
    /\ LedgerExactUnlessOverwritten
    /\ BalanceWasRecorded /\ HeldWasRecorded

---------------------------------------------------------------------------
(* A decimal(10,2) column returns a whole-cent value unchanged and always  *)
(* holds a whole number of cents.                                          *)
LEMMA ColumnExact == ASSUME NEW x \in Int PROVE x % 2 = 0 => Column(x) = x
  BY DEF Column

(* The next whole cent, away from zero, otherwise.                         *)
LEMMA ColumnHalf ==
  ASSUME NEW x \in Int, x % 2 = 1 PROVE Column(x) = IF x > 0 THEN x + 1 ELSE x - 1
  BY DEF Column

LEMMA ColumnWhole == ASSUME NEW x \in Int PROVE Column(x) % 2 = 0
  BY DEF Column

LEMMA ColumnNat == ASSUME NEW x \in Nat PROVE Column(x) \in Nat
  BY DEF Column

LEMMA ColumnInt == ASSUME NEW x \in Int PROVE Column(x) \in Int
  BY DEF Column

(* Ending a request keeps the request variables well typed.                *)
LEMMA FinishType ==
  ASSUME TypeOK, NEW w \in Workers, Finish(w)
  PROVE  /\ pc' \in [Workers -> Steps]
         /\ target' \in [Workers -> Users \cup {None}]
         /\ entity' \in [Workers -> Row \cup {None}]
         /\ delta' \in [Workers -> Deltas \cup {0}]
         /\ dirty' \in [Workers -> SUBSET Columns]
         /\ \A v \in Workers : pc'[v] # "idle" => v # w
         /\ \A v \in Workers \ {w} :
              pc'[v] = pc[v] /\ target'[v] = target[v] /\ entity'[v] = entity[v]
         /\ \A v \in Workers : pc'[v] # "idle" => target'[v] \in Users /\ entity'[v] \in Row
  BY DEF TypeOK, Finish, Steps

(* Each step of the wallet keeps the type invariant.                       *)
LEMMA TypeStep == TypeOK /\ [Next]_vars => TypeOK'
<1> SUFFICES ASSUME TypeOK, [Next]_vars PROVE TypeOK'
  OBVIOUS
<1> USE DeltasAssumption, MaxBalanceAssumption, MaxEntriesAssumption
<1>1. ASSUME NEW w \in Workers, NEW u \in Users, NEW d \in Deltas, MovementLock(w, u, d)
      PROVE TypeOK'
  BY <1>1 DEF MovementLock, Load, TypeOK, past, Steps
<1>2. ASSUME NEW w \in Workers, MovementCommit(w) PROVE TypeOK'
  <2> DEFINE u == target[w]
             next == entity[w].balance + delta[w]
             e == [amount |-> Column(delta[w]), balanceAfter |-> Column(next)]
  <2>1. u \in Users /\ entity[w] \in Row /\ delta[w] \in Int
    BY <1>2 DEF MovementCommit, TypeOK
  <2>2. next \in Nat
    BY <1>2, <2>1 DEF MovementCommit, Row
  <2>3. Column(next) \in 0..MaxBalance
    BY <1>2, <2>2, ColumnNat DEF MovementCommit
  <2>4. row' \in [Users -> Row]
    BY <1>2, <2>1, <2>3 DEF MovementCommit, TypeOK, Row
  <2>5. e \in Entry
    BY <2>1, <2>3, ColumnInt DEF Entry
  <2>6. ledger' \in [Users -> Seq(Entry)]
    <3>1. Append(ledger[u], e) \in Seq(Entry)
      BY <2>1, <2>5 DEF TypeOK
    <3>2. ledger' = [ledger EXCEPT ![u] = Append(ledger[u], e)]
      BY <1>2 DEF MovementCommit, Written
    <3> QED BY <3>1, <3>2, <2>1 DEF TypeOK
  <2>7. Finish(w) /\ overwritten' = overwritten
    BY <1>2 DEF MovementCommit
  <2>8. rounded' \subseteq Users \X Nat
    <3>1. Len(ledger[u]) + 1 \in Nat
      BY <2>1 DEF TypeOK
    <3> QED BY <1>2, <2>1, <3>1 DEF MovementCommit, Rounds, TypeOK
  <2> QED BY <2>4, <2>6, <2>7, <2>8, FinishType DEF TypeOK
<1>3. ASSUME NEW w \in Workers, MovementRollback(w) PROVE TypeOK'
  BY <1>3, FinishType DEF MovementRollback, TypeOK, past
<1>4. ASSUME NEW w \in Workers, NEW u \in Users, NEW a \in Addresses, ConnectLoad(w, u, a)
      PROVE TypeOK'
  <2>1. [row[u] EXCEPT !.address = a] \in Row
    BY ZenonT(60) DEF TypeOK, Row
  <2> QED BY <1>4, <2>1 DEF ConnectLoad, TypeOK, past, Steps
<1>5. ASSUME NEW w \in Workers, ConnectCheck(w) PROVE TypeOK'
  <2>1. CASE Finish(w)
    BY <1>5, <2>1, FinishType DEF ConnectCheck, TypeOK, past
  <2>2. CASE pc' = [pc EXCEPT ![w] = "saving"] /\ UNCHANGED local
    BY <1>5, <2>2 DEF ConnectCheck, TypeOK, past, Steps, local
  <2> QED BY <1>5, <2>1, <2>2 DEF ConnectCheck
<1>6. ASSUME NEW w \in Workers, NEW u \in Users, Disconnect(w, u) PROVE TypeOK'
  <2>1. [row[u] EXCEPT !.address = None, !.nft = None] \in Row
    BY ZenonT(60) DEF TypeOK, Row
  <2> QED BY <1>6, <2>1 DEF Disconnect, TypeOK, past, Steps
<1>7. ASSUME NEW w \in Workers, NEW u \in Users, NftLoad(w, u) PROVE TypeOK'
  BY <1>7 DEF NftLoad, Load, TypeOK, past, Steps
<1>8. ASSUME NEW w \in Workers, NEW u \in Users, ConnectAccountLoad(w, u) PROVE TypeOK'
  BY <1>8 DEF ConnectAccountLoad, Load, TypeOK, past, Steps
<1>9. ASSUME NEW w \in Workers, NEW owned \in BOOLEAN, NftAnswer(w, owned) PROVE TypeOK'
  <2>1. CASE owned
    <3>1. entity[w] \in Row /\ target[w] \in Users
      BY <1>9 DEF NftAnswer, TypeOK
    <3>2. [entity[w] EXCEPT !.nft = entity[w].address] \in Row
      BY <3>1 DEF Row
    <3> QED BY <1>9, <2>1, <3>1, <3>2 DEF NftAnswer, TypeOK, past, Steps
  <2>2. CASE ~owned
    BY <1>9, <2>2, FinishType DEF NftAnswer, TypeOK, past
  <2> QED BY <2>1, <2>2
<1>10. ASSUME NEW w \in Workers, SaveReload(w) PROVE TypeOK'
  BY <1>10 DEF SaveReload, TypeOK, past, Steps
<1>11. ASSUME NEW w \in Workers, SaveWrite(w) PROVE TypeOK'
  <2>1. /\ target[w] \in Users /\ entity[w] \in Row /\ Finish(w)
        /\ UNCHANGED <<ledger, rounded>>
    BY <1>11 DEF SaveWrite, TypeOK
  <2>2. row' \in [Users -> Row]
    <3>1. [c \in Columns |-> IF c \in dirty[w] THEN entity[w][c] ELSE row[target[w]][c]] \in Row
      BY <2>1 DEF TypeOK, Columns, Row
    <3> QED BY <1>11, <2>1, <3>1 DEF SaveWrite, TypeOK
  <2>3. overwritten' \subseteq Users
    BY <1>11, <2>1 DEF SaveWrite, TypeOK
  <2> QED BY <2>1, <2>2, <2>3, FinishType DEF TypeOK
<1>12. ASSUME NEW w \in Workers, Crash(w) PROVE TypeOK'
  BY <1>12, FinishType DEF Crash, TypeOK, past
<1>13. CASE UNCHANGED vars
  BY <1>13 DEF vars, TypeOK
<1> QED
  BY <1>1, <1>2, <1>3, <1>4, <1>5, <1>6, <1>7, <1>8, <1>9, <1>10, <1>11, <1>12, <1>13
     DEF Next, Movement, Profile

(* The state of rows, ledgers and requests keeps its type in every run.    *)
THEOREM WalletTypes == Spec => []TypeOK
<1>1. Init => TypeOK
  BY MaxBalanceAssumption DEF Init, TypeOK, Row, Steps
<1> QED BY <1>1, TypeStep, PTL DEF Spec

---------------------------------------------------------------------------
(* A ledger that nobody extends stays exact while the balance stays.       *)
LEMMA ExactKept ==
  ASSUME NEW u \in Users, Exact(u), ledger'[u] = ledger[u],
         row'[u].balance = row[u].balance,
         \A i \in 1..Len(ledger[u]) : <<u, i>> \in rounded' <=> <<u, i>> \in rounded
  PROVE  Exact(u)'
  BY DEF Exact, Before, Latest, Overstated

(* A ledger that is only extended forgets no balance.                      *)
LEMMA RecordedGrows ==
  ASSUME NEW u \in Users, Len(ledger[u]) \in Nat, Len(ledger'[u]) \in Nat,
         Len(ledger[u]) <= Len(ledger'[u]),
         \A i \in 1..Len(ledger[u]) : ledger'[u][i] = ledger[u][i]
  PROVE  Recorded(u) \subseteq Recorded(u)'
  BY DEF Recorded

(* A step that takes no lock, ends at most the request of w and leaves the *)
(* balance of every locked row alone keeps the locks exclusive and the     *)
(* balances read under them current.                                       *)
LEMMA LockKept ==
  ASSUME LockInv, NEW w \in Workers, pc'[w] # "moving",
         \A v \in Workers \ {w} :
            pc'[v] = pc[v] /\ target'[v] = target[v] /\ entity'[v] = entity[v],
         \A v \in Workers \ {w} :
            pc[v] = "moving" => row'[target[v]].balance = row[target[v]].balance
  PROVE  LockInv'
  BY DEF LockInv

(* A step that changes no ledger and no balance, and loads at most a       *)
(* balance as the row has it, keeps the rest of the invariant.             *)
LEMMA LedgerKept ==
  ASSUME LedgerInv, NEW w \in Workers, UNCHANGED <<row, ledger, past>>, LockInv',
         pc'[w] # "idle" =>
            entity'[w].balance % 2 = 0 /\ entity'[w].balance \in Recorded(target'[w]),
         \A v \in Workers \ {w} :
            pc'[v] = pc[v] /\ target'[v] = target[v] /\ entity'[v] = entity[v]
  PROVE  LedgerInv'
<1>1. UNCHANGED <<row, ledger, overwritten, rounded>>
  BY DEF past
<1>2. WholeBalances'
  BY <1>1 DEF LedgerInv, WholeBalances
<1>3. LedgerExactUnlessOverwritten'
  BY <1>1, ExactKept DEF LedgerInv, LedgerExactUnlessOverwritten
<1>4. \A x : Recorded(x)' = Recorded(x)
  BY <1>1 DEF Recorded
<1>5. BalanceWasRecorded'
  BY <1>1, <1>4 DEF LedgerInv, BalanceWasRecorded
<1>6. HeldWasRecorded'
  BY <1>4 DEF LedgerInv, HeldWasRecorded, Recorded
<1>7. RoundedRows'
  BY <1>1 DEF LedgerInv, RoundedRows
<1> QED BY <1>2, <1>3, <1>5, <1>6, <1>7 DEF LedgerInv

(* The first step of a request other than a movement loads the balance.    *)
LEMMA LedgerLoad ==
  ASSUME TypeOK, LedgerInv, NEW w \in Workers, NEW u \in Users, NEW r \in Row,
         NEW s \in Steps, s # "moving", r.balance = row[u].balance,
         pc' = [pc EXCEPT ![w] = s], target' = [target EXCEPT ![w] = u],
         entity' = [entity EXCEPT ![w] = r], UNCHANGED <<row, ledger, past>>
  PROVE  LedgerInv'
<1>1. pc'[w] = s /\ entity'[w] = r /\ target'[w] = u
  BY DEF TypeOK
<1>2. \A v \in Workers \ {w} :
         pc'[v] = pc[v] /\ target'[v] = target[v] /\ entity'[v] = entity[v]
  BY DEF TypeOK
<1>3. LockInv'
  BY <1>1, <1>2, LockKept DEF LedgerInv
<1>4. entity'[w].balance % 2 = 0 /\ entity'[w].balance \in Recorded(target'[w])
  BY <1>1 DEF LedgerInv, WholeBalances, BalanceWasRecorded
<1> QED BY <1>2, <1>3, <1>4, LedgerKept

(* A request that ends without a write keeps the invariant.                *)
LEMMA LedgerFinish ==
  ASSUME TypeOK, LedgerInv, NEW w \in Workers, Finish(w),
         UNCHANGED <<row, ledger, past>>
  PROVE  LedgerInv'
<1>1. pc'[w] = "idle"
  BY DEF Finish, TypeOK
<1>2. LockInv'
  BY <1>1, FinishType, LockKept DEF LedgerInv
<1> QED BY <1>1, <1>2, FinishType, LedgerKept

(* A request that goes on with the entity it holds keeps the invariant.    *)
LEMMA LedgerAdvance ==
  ASSUME TypeOK, LedgerInv, NEW w \in Workers, NEW s \in Steps, s # "moving",
         pc[w] # "idle", pc' = [pc EXCEPT ![w] = s], UNCHANGED target,
         entity'[w].balance = entity[w].balance,
         \A v \in Workers \ {w} : entity'[v] = entity[v],
         UNCHANGED <<row, ledger, past>>
  PROVE  LedgerInv'
<1>1. pc'[w] = s /\ \A v \in Workers \ {w} : pc'[v] = pc[v]
  BY DEF TypeOK
<1>2. LockInv'
  BY <1>1, LockKept DEF LedgerInv
<1>3. entity'[w].balance % 2 = 0 /\ entity'[w].balance \in Recorded(target'[w])
  BY DEF LedgerInv, WholeBalances, HeldWasRecorded
<1> QED BY <1>1, <1>2, <1>3, LedgerKept

(* Taking the row lock keeps the invariant: nobody else holds it.          *)
LEMMA LedgerLock ==
  ASSUME TypeOK, LedgerInv, NEW w \in Workers, NEW u \in Users, NEW d \in Deltas,
         MovementLock(w, u, d)
  PROVE  LedgerInv'
<1>1. pc'[w] = "moving" /\ target'[w] = u /\ entity'[w] = row[u]
  BY DEF MovementLock, Load, TypeOK
<1>2. \A v \in Workers \ {w} :
         pc'[v] = pc[v] /\ target'[v] = target[v] /\ entity'[v] = entity[v]
  BY DEF MovementLock, Load, TypeOK
<1>3. LockInv'
  BY <1>1, <1>2 DEF MovementLock, Locked, LedgerInv, LockInv
<1>4. /\ entity'[w].balance % 2 = 0 /\ entity'[w].balance \in Recorded(target'[w])
      /\ UNCHANGED <<row, ledger, past>>
  BY <1>1 DEF LedgerInv, WholeBalances, BalanceWasRecorded, MovementLock
<1> QED BY <1>2, <1>3, <1>4, LedgerKept

(* How the columns round: the balance continues by the amount, and by one  *)
(* cent more after a debit of part of a cent.                              *)
LEMMA Rounding ==
  ASSUME NEW b \in Nat, b % 2 = 0, NEW d \in Int, b + d >= 0
  PROVE  /\ Column(b + d) \in Nat /\ Column(b + d) % 2 = 0
         /\ Column(b + d) = b + Column(d) + IF d < 0 /\ d % 2 = 1 THEN 2 ELSE 0
<1>1. Column(b + d) \in Nat /\ Column(b + d) % 2 = 0
  BY ColumnNat, ColumnWhole
<1>2. CASE d % 2 = 0
  <2>1. (b + d) % 2 = 0
    BY <1>2
  <2> QED BY <1>1, <1>2, <2>1, ColumnExact
<1>3. CASE d % 2 = 1
  <2>1. (b + d) % 2 = 1
    BY <1>3
  <2>2. b + d > 0 /\ Column(b + d) = b + d + 1
    BY <2>1, ColumnHalf
  <2>3. CASE d > 0
    BY <1>1, <1>3, <2>2, <2>3, ColumnHalf
  <2>4. CASE d < 0
    <3>1. Column(d) = d - 1
      BY <1>3, <2>4, ColumnHalf
    <3> QED BY <1>1, <1>3, <2>2, <2>4, <3>1
  <2> QED BY <1>3, <2>3, <2>4
<1> QED BY <1>2, <1>3

(* Under the lock the balance read is the balance of the row, so the new   *)
(* ledger row continues the last one and ends at the new balance.          *)
LEMMA LedgerCommit ==
  ASSUME TypeOK, LedgerInv, NEW w \in Workers, MovementCommit(w)
  PROVE  LedgerInv'
<1> PICK u : u = target[w]
  OBVIOUS
<1> DEFINE d == delta[w]
           next == Column(entity[w].balance + d)
           e == [amount |-> Column(d), balanceAfter |-> next]
           cut == IF d < 0 /\ d % 2 = 1 THEN 2 ELSE 0
<1>1. u \in Users /\ d \in Int /\ entity[w] \in Row
  BY DeltasAssumption DEF MovementCommit, TypeOK
<1>2. entity[w].balance = row[u].balance /\ row[u].balance \in Nat /\ row[u].balance % 2 = 0
  BY <1>1 DEF MovementCommit, LedgerInv, LockInv, WholeBalances, TypeOK, Row
<1>3. next \in Nat /\ next % 2 = 0 /\ next = row[u].balance + Column(d) + cut
  <2>1. row[u].balance + d >= 0
    BY <1>2 DEF MovementCommit
  <2> QED BY <1>1, <1>2, <2>1, Rounding
<1> PICK n \in Nat : n = Len(ledger[u])
  BY <1>1 DEF TypeOK
<1>4. ledger[u] \in Seq(Entry) /\ n = Len(ledger[u])
  BY <1>1 DEF TypeOK
<1>5. /\ row'[u].balance = next
      /\ \A v \in Users \ {u} : row'[v] = row[v]
      /\ ledger'[u] = Append(ledger[u], e)
      /\ \A v \in Users \ {u} : ledger'[v] = ledger[v]
      /\ overwritten' = overwritten
      /\ rounded' = IF cut = 2 THEN rounded \cup {<<u, n + 1>>} ELSE rounded
  BY <1>1, <1>4 DEF MovementCommit, Written, Rounds, TypeOK, Row
<1>6. /\ Len(ledger'[u]) = n + 1
      /\ ledger'[u][n + 1] = e
      /\ \A i \in 1..n : ledger'[u][i] = ledger[u][i]
  BY <1>4, <1>5
<1>7. pc'[w] = "idle" /\ Finish(w)
  BY DEF MovementCommit, Finish, TypeOK
<1>8. /\ e.amount = Column(d) /\ e.balanceAfter = next
      /\ <<u, n + 1>> \in rounded' <=> cut = 2
      /\ \A i \in 1..n : <<u, i>> \in rounded' <=> <<u, i>> \in rounded
      /\ \A v \in Users \ {u} : \A i : <<v, i>> \in rounded' <=> <<v, i>> \in rounded
  <2>1. <<u, n + 1>> \notin rounded
    BY <1>4 DEF LedgerInv, RoundedRows
  <2> QED BY <1>5, <2>1
<1> HIDE DEF next, e, cut
<1>9. LockInv'
  <2>1. \A v \in Workers \ {w} : pc[v] = "moving" => target[v] # u /\ target[v] \in Users
    BY DEF MovementCommit, LedgerInv, LockInv, TypeOK
  <2> QED BY <1>5, <1>7, <2>1, FinishType, LockKept DEF LedgerInv
<1>10. WholeBalances'
  BY <1>3, <1>5, <1>7, FinishType DEF LedgerInv, WholeBalances
<1>11. LedgerExactUnlessOverwritten'
  <2> SUFFICES ASSUME NEW v \in Users, v \notin overwritten PROVE Exact(v)'
    BY <1>5 DEF LedgerExactUnlessOverwritten
  <2>1. Exact(v)
    BY DEF LedgerInv, LedgerExactUnlessOverwritten
  <2>2. CASE v # u
    BY <1>5, <1>8, <2>1, <2>2, ExactKept
  <2>3. CASE v = u
    <3>1. ASSUME NEW i \in 1..n
          PROVE  ledger'[v][i].balanceAfter
                   = Before(v, i)' + ledger'[v][i].amount + Overstated(v, i)'
      <4>1. i # 1 => i - 1 \in 1..n
        OBVIOUS
      <4>2. Before(v, i)' = Before(v, i)
        BY <1>6, <2>3, <4>1 DEF Before
      <4>3. Overstated(v, i)' = Overstated(v, i)
        BY <1>8, <2>3 DEF Overstated
      <4>4. ledger[v][i].balanceAfter = Before(v, i) + ledger[v][i].amount + Overstated(v, i)
        BY <1>4, <2>1, <2>3 DEF Exact
      <4> QED BY <1>6, <2>3, <4>2, <4>3, <4>4
    <3>2. Before(v, n + 1)' = row[v].balance
      <4>1. n = 0 <=> ledger[v] = << >>
        BY <1>4, <2>3
      <4>2. Before(v, n + 1)' = IF n = 0 THEN 0 ELSE ledger'[v][n].balanceAfter
        BY DEF Before
      <4>3. n # 0 => ledger'[v][n] = ledger[v][n]
        BY <1>6, <2>3
      <4> QED BY <1>4, <2>1, <2>3, <4>1, <4>2, <4>3 DEF Exact, Latest
    <3>3. Overstated(v, n + 1)' = cut
      BY <1>8, <2>3 DEF Overstated, cut
    <3>4. ledger'[v][n + 1].balanceAfter
             = Before(v, n + 1)' + ledger'[v][n + 1].amount + Overstated(v, n + 1)'
      BY <1>3, <1>6, <1>8, <2>3, <3>2, <3>3
    <3>5. row'[v].balance = Latest(v)'
      <4>1. ledger'[v] # << >>
        BY <1>4, <1>6, <2>3
      <4> QED BY <1>5, <1>6, <1>8, <2>3, <4>1 DEF Latest
    <3>6. \A i \in 1..Len(ledger'[v]) :
             ledger'[v][i].balanceAfter
               = Before(v, i)' + ledger'[v][i].amount + Overstated(v, i)'
      <4>1. \A i \in 1..(n + 1) : i = n + 1 \/ i \in 1..n
        OBVIOUS
      <4> QED BY <1>6, <2>3, <3>1, <3>4, <4>1
    <3> QED BY <3>5, <3>6 DEF Exact
  <2> QED BY <2>2, <2>3
<1>12. \A v \in Users : Recorded(v) \subseteq Recorded(v)'
  <2> SUFFICES ASSUME NEW v \in Users PROVE Recorded(v) \subseteq Recorded(v)'
    OBVIOUS
  <2>1. CASE v = u
    BY <1>4, <1>6, <2>1, RecordedGrows
  <2>2. CASE v # u
    BY <1>5, <2>2 DEF Recorded
  <2> QED BY <2>1, <2>2
<1>13. next \in Recorded(u)'
  <2>1. n + 1 \in 1..Len(ledger'[u]) /\ ledger'[u][n + 1].balanceAfter = next
    BY <1>6, <1>8
  <2> QED BY <2>1 DEF Recorded
<1>14. BalanceWasRecorded'
  BY <1>5, <1>12, <1>13 DEF LedgerInv, BalanceWasRecorded
<1>15. HeldWasRecorded'
  <2> SUFFICES ASSUME NEW v \in Workers, pc'[v] # "idle"
               PROVE  (entity[v].balance \in Recorded(target[v]))'
    BY DEF HeldWasRecorded
  <2>1. v # w /\ pc'[v] = pc[v] /\ target'[v] = target[v] /\ entity'[v] = entity[v]
    BY <1>7, FinishType
  <2>2. target[v] \in Users /\ entity[v].balance \in Recorded(target[v])
    BY <2>1 DEF LedgerInv, HeldWasRecorded, TypeOK
  <2> PICK t \in Users : t = target[v]
    BY <2>2
  <2>3. Recorded(target[v])' = Recorded(t)'
    BY <2>1 DEF Recorded
  <2> QED BY <1>12, <2>1, <2>2, <2>3
<1>16. RoundedRows'
  <2> SUFFICES ASSUME NEW p \in rounded' PROVE p[2] \in 1..Len(ledger'[p[1]])
    BY DEF RoundedRows
  <2>1. CASE p = <<u, n + 1>>
    BY <1>6, <2>1
  <2>2. CASE p # <<u, n + 1>>
    <3>1. p \in rounded /\ p[1] \in Users /\ p[2] \in 1..Len(ledger[p[1]])
      BY <1>5, <2>2 DEF LedgerInv, RoundedRows, TypeOK
    <3> QED BY <1>4, <1>5, <1>6, <3>1
  <2> QED BY <2>1, <2>2
<1> QED BY <1>9, <1>10, <1>11, <1>14, <1>15, <1>16 DEF LedgerInv

(* A save waits for the row lock; if it writes the balance back the user   *)
(* counts as overwritten from then on.                                     *)
LEMMA LedgerSave ==
  ASSUME TypeOK, LedgerInv, NEW w \in Workers, SaveWrite(w)
  PROVE  LedgerInv'
<1> PICK u : u = target[w]
  OBVIOUS
<1>1. u \in Users /\ entity[w] \in Row /\ Finish(w) /\ UNCHANGED <<ledger, rounded>>
  BY DEF SaveWrite, TypeOK
<1>2. pc'[w] = "idle"
  BY <1>1 DEF Finish, TypeOK
<1>3. /\ \A v \in Users \ {u} : row'[v] = row[v]
      /\ row'[u].balance \in {row[u].balance, entity[w].balance}
      /\ overwritten \subseteq overwritten'
      /\ u \notin overwritten' => row'[u].balance = row[u].balance
  BY <1>1 DEF SaveWrite, TypeOK, Columns, Row
<1>4. LockInv'
  BY <1>1, <1>2, <1>3, FinishType, LockKept DEF LedgerInv, SaveWrite, Locked, TypeOK
<1>5. WholeBalances'
  BY <1>1, <1>2, <1>3, FinishType DEF LedgerInv, WholeBalances, SaveWrite
<1>6. LedgerExactUnlessOverwritten'
  BY <1>1, <1>3, ExactKept DEF LedgerInv, LedgerExactUnlessOverwritten
<1>7. \A x : Recorded(x)' = Recorded(x)
  BY <1>1 DEF Recorded
<1>8. BalanceWasRecorded'
  <2>1. row[u].balance \in Recorded(u) /\ entity[w].balance \in Recorded(u)
    BY <1>1 DEF LedgerInv, BalanceWasRecorded, HeldWasRecorded, SaveWrite
  <2> QED BY <1>3, <1>7, <2>1 DEF LedgerInv, BalanceWasRecorded
<1>9. HeldWasRecorded'
  <2> SUFFICES ASSUME NEW v \in Workers, pc'[v] # "idle"
               PROVE  (entity[v].balance \in Recorded(target[v]))'
    BY DEF HeldWasRecorded
  <2>1. pc'[v] = pc[v] /\ target'[v] = target[v] /\ entity'[v] = entity[v]
    BY <1>1, <1>2, FinishType
  <2> PICK t : t = target[v]
    OBVIOUS
  <2>2. Recorded(target[v])' = Recorded(t)'
    BY <2>1 DEF Recorded
  <2> QED BY <1>7, <2>1, <2>2 DEF LedgerInv, HeldWasRecorded
<1>10. RoundedRows'
  BY <1>1 DEF LedgerInv, RoundedRows
<1> QED BY <1>4, <1>5, <1>6, <1>8, <1>9, <1>10 DEF LedgerInv

(* Every step keeps the invariant.                                         *)
LEMMA LedgerStep ==
  ASSUME TypeOK, LedgerInv, [Next]_vars
  PROVE  LedgerInv'
<1>1. ASSUME NEW w \in Workers, Movement(w) PROVE LedgerInv'
  <2>1. CASE MovementRollback(w)
    BY <2>1, LedgerFinish DEF MovementRollback
  <2> QED BY <1>1, <2>1, LedgerLock, LedgerCommit DEF Movement
<1>2. ASSUME NEW w \in Workers, Profile(w) PROVE LedgerInv'
  <2>1. ASSUME NEW u \in Users, NEW a \in Addresses, ConnectLoad(w, u, a) PROVE LedgerInv'
    <3>1. [row[u] EXCEPT !.address = a] \in Row
          /\ [row[u] EXCEPT !.address = a].balance = row[u].balance
      BY DEF TypeOK, Row
    <3> QED BY <2>1, <3>1, LedgerLoad DEF ConnectLoad, Steps
  <2>2. ASSUME NEW u \in Users, Disconnect(w, u) PROVE LedgerInv'
    <3>1. [row[u] EXCEPT !.address = None, !.nft = None] \in Row
          /\ [row[u] EXCEPT !.address = None, !.nft = None].balance = row[u].balance
      BY DEF TypeOK, Row
    <3> QED BY <2>2, <3>1, LedgerLoad DEF Disconnect, Steps
  <2>3. ASSUME NEW u \in Users, NftLoad(w, u) PROVE LedgerInv'
    BY <2>3, LedgerLoad DEF NftLoad, Load, Steps, TypeOK
  <2>4. ASSUME NEW u \in Users, ConnectAccountLoad(w, u) PROVE LedgerInv'
    BY <2>4, LedgerLoad DEF ConnectAccountLoad, Load, Steps, TypeOK
  <2>5. CASE ConnectCheck(w)
    <3>1. CASE Finish(w)
      BY <2>5, <3>1, LedgerFinish DEF ConnectCheck
    <3>2. CASE pc' = [pc EXCEPT ![w] = "saving"] /\ UNCHANGED local
      BY <2>5, <3>2, LedgerAdvance DEF ConnectCheck, local, Steps
    <3> QED BY <2>5, <3>1, <3>2 DEF ConnectCheck
  <2>6. ASSUME NEW owned \in BOOLEAN, NftAnswer(w, owned) PROVE LedgerInv'
    <3>1. CASE owned
      <4>1. entity[w] \in Row
        BY <2>6 DEF NftAnswer, TypeOK
      <4>2. /\ entity'[w].balance = entity[w].balance
            /\ \A v \in Workers \ {w} : entity'[v] = entity[v]
        BY <2>6, <3>1, <4>1 DEF NftAnswer, TypeOK, Row
      <4> QED BY <2>6, <3>1, <4>2, LedgerAdvance DEF NftAnswer, Steps
    <3>2. CASE ~owned
      BY <2>6, <3>2, LedgerFinish DEF NftAnswer
    <3> QED BY <3>1, <3>2
  <2>7. CASE SaveReload(w)
    BY <2>7, LedgerAdvance DEF SaveReload, Steps
  <2> QED BY <1>2, <2>1, <2>2, <2>3, <2>4, <2>5, <2>6, <2>7, LedgerSave DEF Profile
<1>3. ASSUME NEW w \in Workers, Crash(w) PROVE LedgerInv'
  BY <1>3, LedgerFinish DEF Crash
<1>4. CASE UNCHANGED vars
  BY <1>4 DEF vars, LedgerInv, LockInv, WholeBalances, LedgerExactUnlessOverwritten,
              Exact, Before, Latest, Overstated, RoundedRows, BalanceWasRecorded,
              HeldWasRecorded, Recorded
<1> QED BY <1>1, <1>2, <1>3, <1>4 DEF Next

LEMMA LedgerAlways == Spec => []LedgerInv
<1>1. Init => LedgerInv
  BY DEF Init, LedgerInv, LockInv, WholeBalances, LedgerExactUnlessOverwritten,
         Exact, Before, Latest, RoundedRows, BalanceWasRecorded, HeldWasRecorded, Recorded
<1>2. TypeOK /\ LedgerInv /\ [Next]_vars => LedgerInv'
  BY LedgerStep
<1> QED BY <1>1, <1>2, WalletTypes, PTL DEF Spec

(* Whatever amounts callers pass, the ledger of a user whose balance no    *)
(* stale save wrote back is an exact history of the balance, but for the   *)
(* one cent too many of each debit of part of a cent, under every          *)
(* interleaving of movements, profile saves and crashes.                   *)
THEOREM WalletLedgerExact == Spec => []LedgerExactUnlessOverwritten
<1>1. LedgerInv => LedgerExactUnlessOverwritten
  BY DEF LedgerInv
<1> QED BY <1>1, LedgerAlways, PTL

(* A stale save brings back a balance of the past and no other.            *)
THEOREM WalletBalanceRecorded == Spec => []BalanceWasRecorded
<1>1. LedgerInv => BalanceWasRecorded
  BY DEF LedgerInv
<1> QED BY <1>1, LedgerAlways, PTL

---------------------------------------------------------------------------
(* The relations of users.                                                 *)
Between(a, b) == {Follows(a, b), Follows(b, a)}

(* A change loads every relation in which it adds or drops a row.          *)
Sound(c) == c \in Changes /\ c.add \cup c.drop \subseteq c.scope /\ c.add \cap c.drop = {}

(* What a request is about, from its first step on.                        *)
ChangeInv(w) ==
    /\ job[w].step \in {"theirs", "ours", "loading", "finding", "inserting"} =>
         \E a, b \in Users : job[w].change = FollowChange(a, b)
    /\ Holds(w) => Sound(job[w].change)

(* A list in memory agrees with what was asked, and what a reload found    *)
(* with the table, except in rows that others wrote meanwhile.             *)
CopyInv(w) ==
    Holds(w) =>
        LET j == job[w]
            c == j.change
        IN  /\ j.held \subseteq c.scope /\ c.add \subseteq j.held /\ c.drop \cap j.held = {}
            /\ \A l \in c.scope \ (mixed \cup c.add \cup c.drop) : l \in j.held <=> l \in asked
            /\ At(w, "writing") =>
                 /\ j.known \subseteq c.scope
                 /\ \A l \in c.scope \ mixed : l \in j.known <=> l \in links

(* Unless the two have crossed, no request will follow past a block, and   *)
(* one that holds a block will drop the follow that is there.              *)
MeetInv(w) ==
    \A a, b \in Users : <<a, b>> \notin crossed =>
        \A f \in Between(a, b) :
            /\ Blocks(a, b) \in links => ~MayFollow(w, f, a)
            /\ Holds(w) /\ Blocks(a, b) \in job[w].held =>
                 /\ f \notin job[w].held
                 /\ f \in links => \/ At(w, "saving") /\ f \in job[w].change.drop
                                   \/ At(w, "writing") /\ f \in job[w].known

WorkerInv(w) == Standing(w) /\ ChangeInv(w) /\ CopyInv(w) /\ MeetInv(w)

(* The inductive invariant.                                                *)
AccountsInv ==
    /\ TypeOK /\ GraphTypeOK
    /\ LinksAsAsked /\ BlockSevers
    /\ \A w \in Workers : WorkerInv(w)

---------------------------------------------------------------------------
(* The changes the handlers ask for are sound.                             *)
LEMMA FollowSound ==
  ASSUME NEW a \in Users, NEW b \in Users
  PROVE  Sound(FollowChange(a, b)) /\ Sound(UnfollowChange(a, b))
<1>1. Own("follows", a) \subseteq Link /\ Follows(a, b) \in Own("follows", a)
  BY DEF Own, Link, Follows
<1> QED BY <1>1 DEF Sound, Changes, FollowChange, UnfollowChange

LEMMA ListSound ==
  ASSUME NEW table \in Lists, NEW a \in Users, NEW b \in Users
  PROVE  Sound(EnlistChange(table, a, b)) /\ Sound(DelistChange(table, a, b))
<1>1. Own(table, a) \subseteq Link /\ <<table, a, b>> \in Own(table, a)
  BY DEF Own, Link
<1>2. /\ Own("follows", a) \subseteq Link /\ Inverse("follows", a) \subseteq Link
      /\ Follows(a, b) \in Own("follows", a) /\ Follows(b, a) \in Inverse("follows", a)
  BY DEF Own, Inverse, Link, Follows
<1>3. table # "follows"
  BY ListsAssumption
<1>4. <<table, a, b>> \notin Between(a, b)
  BY <1>3 DEF Follows, Between
<1> DEFINE e == EnlistChange(table, a, b)
<1>5. e.add \subseteq Link /\ e.drop \subseteq Link /\ e.scope \subseteq Link
  BY <1>1, <1>2 DEF EnlistChange
<1>6. e \in Changes
  BY <1>5 DEF EnlistChange, Changes
<1>7. e.add \cup e.drop \subseteq e.scope
  BY <1>1, <1>2 DEF EnlistChange
<1>8. e.add \cap e.drop = {}
  BY <1>4 DEF EnlistChange, Between
<1>9. Sound(DelistChange(table, a, b))
  BY <1>1 DEF Sound, Changes, DelistChange
<1> QED BY <1>6, <1>7, <1>8, <1>9 DEF Sound

(* Nothing but follow adds a follow, and a block drops the follows.        *)
LEMMA FollowsOnly ==
  ASSUME NEW table \in Lists, NEW u \in Users, NEW v \in Users,
         NEW c \in {UnfollowChange(u, v), EnlistChange(table, u, v), DelistChange(table, u, v)},
         NEW a \in Users, NEW b \in Users, NEW f \in Between(a, b)
  PROVE  f \notin c.add /\ (Blocks(a, b) \in c.add => f \in c.drop)
<1>1. table # "follows"
  BY ListsAssumption
<1>2. CASE c = EnlistChange(table, u, v)
  BY <1>1, <1>2 DEF EnlistChange, Between, Follows, Blocks
<1>3. CASE c = UnfollowChange(u, v) \/ c = DelistChange(table, u, v)
  BY <1>3 DEF UnfollowChange, DelistChange
<1> QED BY <1>2, <1>3

---------------------------------------------------------------------------
(* A request that neither holds a list nor is about to load one has only   *)
(* to stand where it stands.                                               *)
LEMMA Quiet ==
  ASSUME NEW w \in Workers,
         job'[w].step \in {"none", "accepted", "theirs", "finding", "inserting"},
         Standing(w)', ChangeInv(w)'
  PROVE  WorkerInv(w)'
<1>1. ~Holds(w)' /\ ~(At(w, "loading"))' /\ ~(At(w, "ours"))'
  BY DEF Holds, At
<1> QED BY <1>1 DEF WorkerInv, CopyInv, MeetInv, MayFollow

(* A request that does not move keeps its part of the invariant when the   *)
(* relations stay.                                                         *)
LEMMA Stays ==
  ASSUME NEW x \in Workers, WorkerInv(x), UNCHANGED <<links, asked, mixed, crossed>>,
         job'[x] = job[x], pc'[x] = pc[x], target'[x] = target[x]
  PROVE  WorkerInv(x)'
<1>1. Holds(x)' = Holds(x) /\ \A s : At(x, s)' = At(x, s)
  BY DEF Holds, At
<1>2. Standing(x)'
  BY <1>1 DEF WorkerInv, Standing
<1>3. ChangeInv(x)'
  BY <1>1 DEF WorkerInv, ChangeInv
<1>4. CopyInv(x)'
  BY <1>1 DEF WorkerInv, CopyInv, At
<1>5. MeetInv(x)'
  <2>1. \A f, a : MayFollow(x, f, a)' = MayFollow(x, f, a)
    BY <1>1 DEF MayFollow, At
  <2> QED BY <1>1, <2>1 DEF WorkerInv, MeetInv, At
<1> QED BY <1>2, <1>3, <1>4, <1>5 DEF WorkerInv

(* A step of one request that writes no relation keeps the invariant if it *)
(* keeps the part of that request.                                         *)
LEMMA Moves ==
  ASSUME AccountsInv, NEW w \in Workers, NEW j \in Jobs,
         UNCHANGED <<links, asked, mixed, crossed>>,
         job' = [job EXCEPT ![w] = j],
         request' \in [Requests -> (Users \X Users) \cup {None}], calls' \in 0..MaxCalls,
         \A x \in Workers \ {w} : pc'[x] = pc[x] /\ target'[x] = target[x],
         TypeOK', WorkerInv(w)'
  PROVE  AccountsInv'
<1>1. GraphTypeOK'
  BY DEF AccountsInv, GraphTypeOK
<1>2. \A x \in Workers \ {w} : job'[x] = job[x]
  BY DEF AccountsInv, GraphTypeOK
<1>3. \A x \in Workers \ {w} : WorkerInv(x)'
  BY <1>2, Stays DEF AccountsInv
<1>4. LinksAsAsked' /\ BlockSevers'
  BY DEF AccountsInv, LinksAsAsked, BlockSevers
<1> QED BY <1>1, <1>3, <1>4 DEF AccountsInv

---------------------------------------------------------------------------
(* Each of Wallet's steps is of one request.                               *)
LEMMA WalletFrame ==
  ASSUME TypeOK, NEW w \in Workers, Movement(w) \/ Profile(w) \/ Crash(w)
  PROVE  \A x \in Workers \ {w} : pc'[x] = pc[x] /\ target'[x] = target[x]
<1>1. CASE Finish(w)
  BY <1>1, FinishType
<1>2. CASE Movement(w)
  BY <1>2, FinishType
     DEF Movement, MovementLock, MovementCommit, MovementRollback, Load, TypeOK
<1>3. CASE Profile(w)
  BY <1>3, <1>1
     DEF Profile, ConnectLoad, ConnectCheck, Disconnect, NftLoad, ConnectAccountLoad, NftAnswer,
         SaveReload, SaveWrite, Load, local, TypeOK
<1> QED BY <1>1, <1>2, <1>3 DEF Crash

(* The shapes of jobs.                                                     *)
LEMMA NoJobTyped == NoJob \in Jobs /\ NoJob.step = "none"
  BY DEF NoJob, Jobs, JobSteps

LEMMA JobTyped ==
  ASSUME NEW c \in Changes, NEW s \in JobSteps, NEW r \in Requests \cup {None}
  PROVE  Job(s, c, r) \in Jobs
  BY DEF Job, Jobs

(* A step that puts request w at rest, or at a first step of a follow,     *)
(* keeps the invariant.                                                    *)
LEMMA Rests ==
  ASSUME AccountsInv, NEW w \in Workers, NEW j \in Jobs,
         UNCHANGED <<vars, links, history>>, job' = [job EXCEPT ![w] = j],
         request' \in [Requests -> (Users \X Users) \cup {None}], calls' \in 0..MaxCalls,
         j.step = "none" \/ pc[w] = "idle",
         \/ j.step \in {"none", "accepted"}
         \/ /\ j.step \in {"theirs", "finding", "inserting"}
            /\ \E a, b \in Users : j.change = FollowChange(a, b)
  PROVE  AccountsInv'
<1>1. TypeOK' /\ UNCHANGED <<asked, mixed, crossed, pc, target>>
  BY DEF AccountsInv, TypeOK, vars, history
<1>2. job'[w] = j
  BY DEF AccountsInv, GraphTypeOK
<1>3. Standing(w)' /\ ChangeInv(w)'
  BY <1>1, <1>2 DEF Standing, ChangeInv, Holds
<1>4. WorkerInv(w)'
  BY <1>2, <1>3, Quiet
<1> QED BY <1>1, <1>4, Moves

(* Asking about blocks keeps the invariant: what passes is not blocked.    *)
LEMMA Checks ==
  ASSUME AccountsInv, NEW w \in Workers, CheckTheirs(w) \/ CheckOurs(w)
  PROVE  AccountsInv'
<1> DEFINE c == job[w].change
<1>0. /\ UNCHANGED <<vars, links, request, history, calls>>
      /\ job[w] \in Jobs /\ pc[w] = "idle" /\ job \in [Workers -> Jobs]
      /\ request' \in [Requests -> (Users \X Users) \cup {None}] /\ calls' \in 0..MaxCalls
  BY DEF CheckTheirs, CheckOurs, Check, At, AccountsInv, GraphTypeOK, WorkerInv, Standing
<1>1. PICK u \in Users, v \in Users : c = FollowChange(u, v)
  BY DEF CheckTheirs, CheckOurs, Check, At, AccountsInv, WorkerInv, ChangeInv
<1>2. c.user = u /\ c.other = v /\ c.add = {Follows(u, v)}
  BY <1>1 DEF FollowChange
<1>3. CASE job' = [job EXCEPT ![w] = NoJob]
  BY <1>0, <1>3, NoJobTyped, Rests
<1>4. ASSUME NEW s \in {"ours", "loading"}, job' = [job EXCEPT ![w] = [job[w] EXCEPT !.step = s]],
             \A a, b \in Users : <<a, b>> \notin crossed /\ Blocks(a, b) \in links =>
                \A f \in Between(a, b) : f \in c.add => s = "ours" /\ v # a
      PROVE  AccountsInv'
  <2> DEFINE j == [job[w] EXCEPT !.step = s]
  <2>1. j \in Jobs /\ job'[w] = j /\ j.step = s /\ j.change = c
    BY <1>0, <1>4 DEF Jobs, JobSteps
  <2>2. TypeOK' /\ UNCHANGED <<links, asked, mixed, crossed, pc, target>>
    BY <1>0 DEF AccountsInv, TypeOK, vars, history
  <2>3. ~Holds(w)'
    BY <2>1 DEF Holds
  <2>4. Standing(w)' /\ ChangeInv(w)' /\ CopyInv(w)'
    BY <1>0, <1>1, <2>1, <2>2, <2>3 DEF Standing, ChangeInv, CopyInv
  <2>5. MeetInv(w)'
    BY <1>2, <1>4, <2>1, <2>2, <2>3 DEF MeetInv, MayFollow, At
  <2> QED BY <1>0, <1>4, <2>1, <2>2, <2>4, <2>5, Moves DEF WorkerInv
<1>5. CASE CheckTheirs(w)
  <2>1. CASE Blocks(v, u) \in links
    BY <1>2, <1>3, <1>5, <2>1 DEF CheckTheirs, Check
  <2>2. CASE Blocks(v, u) \notin links
    <3>1. \A a, b \in Users : Blocks(a, b) \in links =>
             \A f \in Between(a, b) : f \in c.add => v # a
      BY <1>2, <2>2 DEF Between, Follows, Blocks
    <3>2. job' = [job EXCEPT ![w] = [job[w] EXCEPT !.step = "ours"]]
      BY <1>2, <1>5, <2>2 DEF CheckTheirs, Check
    <3> QED BY <1>4, <3>1, <3>2
  <2> QED BY <2>1, <2>2
<1>6. CASE CheckOurs(w)
  <2>1. CASE Blocks(u, v) \in links
    BY <1>2, <1>3, <1>6, <2>1 DEF CheckOurs, Check
  <2>2. CASE Blocks(u, v) \notin links
    <3>1. ASSUME NEW a \in Users, NEW b \in Users, NEW f \in Between(a, b),
                 f \in c.add, Blocks(a, b) \in links, <<a, b>> \notin crossed
          PROVE  FALSE
      <4>1. f = Follows(u, v) /\ ((a = u /\ b = v) \/ (a = v /\ b = u))
        BY <1>2, <3>1 DEF Between, Follows
      <4>2. a = v /\ b = u
        BY <2>2, <3>1, <4>1
      <4>3. At(w, "ours") /\ c.other = a
        BY <1>2, <1>6, <4>2 DEF CheckOurs, Check
      <4>4. MayFollow(w, f, a)
        BY <3>1, <4>3 DEF MayFollow
      <4> QED BY <3>1, <4>4 DEF AccountsInv, WorkerInv, MeetInv
    <3>2. job' = [job EXCEPT ![w] = [job[w] EXCEPT !.step = "loading"]]
      BY <1>2, <1>6, <2>2 DEF CheckOurs, Check
    <3> QED BY <1>4, <3>1, <3>2
  <2> QED BY <2>1, <2>2
<1> QED BY <1>5, <1>6

(* Leaving a save, or skipping it, keeps the invariant.                    *)
LEMMA ReturnTyped ==
  ASSUME NEW j \in Jobs
  PROVE  LET n == IF j.request = None THEN NoJob
                  ELSE [NoJob EXCEPT !.step = "accepted", !.request = j.request]
         IN  n \in Jobs /\ n.step \in {"none", "accepted"}
  BY DEF NoJob, Jobs, JobSteps

(* A user is loaded for a sound change, one that does not follow past a    *)
(* block.  The list it makes holds what was asked and what it asks.        *)
LEMMA Loads ==
  ASSUME AccountsInv, NEW w \in Workers, NEW j \in Jobs, LoadLinks(w, j),
         pc[w] = "idle", Sound(j.change), calls' \in 0..MaxCalls,
         \A a, b \in Users : <<a, b>> \notin crossed =>
            \A f \in Between(a, b) :
               /\ Blocks(a, b) \in links => f \notin j.change.add
               /\ Blocks(a, b) \in j.change.add =>
                    f \notin j.change.add /\ f \in j.change.drop
  PROVE  AccountsInv'
<1> DEFINE c == j.change
           held == ((links \cap c.scope) \ c.drop) \cup c.add
           n == [j EXCEPT !.step = "saving", !.held = held]
<1>0. /\ UNCHANGED <<links, request, history>>
      /\ job \in [Workers -> Jobs]
      /\ request' \in [Requests -> (Users \X Users) \cup {None}]
      /\ UNCHANGED <<asked, mixed, crossed>>
  BY DEF LoadLinks, AccountsInv, GraphTypeOK, history
<1>1. CASE Return(w, j) /\ UNCHANGED vars
  BY <1>0, <1>1, ReturnTyped, Rests DEF Return
<1>2. CASE ConnectAccountLoad(w, c.user) /\ job' = [job EXCEPT ![w] = n]
  <2>1. c \in Changes /\ c.add \cup c.drop \subseteq c.scope /\ c.add \cap c.drop = {}
    BY DEF Sound
  <2>2. c.user \in Users /\ c.scope \subseteq Link
    BY <2>1 DEF Changes
  <2>3. held \subseteq c.scope /\ c.add \subseteq held /\ c.drop \cap held = {}
    BY <2>1
  <2>4. n \in Jobs
    BY <2>2, <2>3 DEF Jobs, JobSteps
  <2>5. job'[w] = n /\ n.step = "saving" /\ n.held = held /\ n.change = c
    BY <1>0, <1>2, <2>4 DEF Jobs
  <2>6. Next /\ (Movement(w) \/ Profile(w) \/ Crash(w))
    BY <1>2, <2>2 DEF Next, Profile
  <2>7. TypeOK' /\ \A x \in Workers \ {w} : pc'[x] = pc[x] /\ target'[x] = target[x]
    BY <2>6, TypeStep, WalletFrame DEF AccountsInv
  <2>8. pc'[w] = "saving" /\ target'[w] = c.user
    BY <1>2 DEF ConnectAccountLoad, Load, AccountsInv, TypeOK
  <2>9. Standing(w)' /\ ChangeInv(w)'
    BY <2>5, <2>8 DEF Standing, ChangeInv, Holds
  <2>10. CopyInv(w)'
    <3>1. \A l \in c.scope \ (mixed \cup c.add \cup c.drop) : l \in held <=> l \in asked
      BY <2>2 DEF AccountsInv, LinksAsAsked
    <3> QED BY <1>0, <2>3, <2>5, <3>1 DEF CopyInv, At
  <2>11. MeetInv(w)'
    <3> SUFFICES ASSUME NEW a \in Users, NEW b \in Users, <<a, b>> \notin crossed,
                        NEW f \in Between(a, b)
                 PROVE  /\ Blocks(a, b) \in links => ~MayFollow(w, f, a)'
                        /\ Blocks(a, b) \in held => /\ f \notin held
                                                    /\ f \in links => f \in c.drop
      BY <1>0, <2>5 DEF MeetInv, At
    <3>1. Blocks(a, b) \in links => f \notin links
      BY DEF AccountsInv, BlockSevers, Between
    <3>2. Blocks(a, b) \in links => f \notin held
      BY <3>1
    <3>3. Blocks(a, b) \in c.add => f \notin held /\ f \in c.drop
      OBVIOUS
    <3>4. MayFollow(w, f, a)' => f \in held
      BY <2>5 DEF MayFollow, At
    <3> QED BY <3>1, <3>2, <3>3, <3>4
  <2> QED BY <1>0, <1>2, <2>4, <2>7, <2>9, <2>10, <2>11, Moves DEF WorkerInv
<1> QED BY <1>1, <1>2 DEF LoadLinks, Start

(* A reload finds in the table what only others' writes will change.       *)
LEMMA Reloads ==
  ASSUME AccountsInv, NEW w \in Workers, ReloadLinks(w)
  PROVE  AccountsInv'
<1> DEFINE c == job[w].change
           n == [job[w] EXCEPT !.step = "writing", !.known = links \cap c.scope]
<1>0. /\ UNCHANGED <<links, request, calls, asked, mixed, crossed>>
      /\ job \in [Workers -> Jobs] /\ calls' \in 0..MaxCalls
      /\ request' \in [Requests -> (Users \X Users) \cup {None}]
      /\ SaveReload(w) /\ At(w, "saving")
  BY DEF ReloadLinks, AccountsInv, GraphTypeOK, history
<1>1. Holds(w) /\ WorkerInv(w)
  BY <1>0 DEF AccountsInv, Holds, At
<1>2. Sound(c) /\ target[w] = c.user
  BY <1>1 DEF WorkerInv, ChangeInv, Standing
<1>3. c \in Changes /\ c.drop \subseteq c.scope /\ c.scope \subseteq Link
  BY <1>2 DEF Sound, Changes
<1>4. n \in Jobs
  BY <1>0, <1>3 DEF Jobs, JobSteps
<1>5. job' = [job EXCEPT ![w] = n]
  BY <1>0 DEF ReloadLinks, Jobs
<1>6. /\ job'[w] = n /\ n.step = "writing" /\ n.change = c
      /\ n.held = job[w].held /\ n.known = links \cap c.scope
  BY <1>0, <1>5, <1>4 DEF Jobs
<1>7. Next /\ (Movement(w) \/ Profile(w) \/ Crash(w))
  BY <1>0 DEF Next, Profile
<1>8. TypeOK' /\ \A x \in Workers \ {w} : pc'[x] = pc[x] /\ target'[x] = target[x]
  BY <1>7, TypeStep, WalletFrame DEF AccountsInv
<1>9. pc'[w] = "writing" /\ target'[w] = c.user
  BY <1>0, <1>2 DEF SaveReload, AccountsInv, TypeOK
<1>10. Standing(w)' /\ ChangeInv(w)'
  BY <1>2, <1>6, <1>9 DEF Standing, ChangeInv, Holds
<1>11. CopyInv(w)'
  BY <1>0, <1>1, <1>6 DEF CopyInv, WorkerInv, At
<1>12. MeetInv(w)'
  <2> SUFFICES ASSUME NEW a \in Users, NEW b \in Users, <<a, b>> \notin crossed,
                      NEW f \in Between(a, b)
               PROVE  /\ Blocks(a, b) \in links => ~MayFollow(w, f, a)'
                      /\ Blocks(a, b) \in n.held =>
                           /\ f \notin n.held
                           /\ f \in links => f \in n.known
    BY <1>0, <1>6 DEF MeetInv, At
  <2>1. MayFollow(w, f, a)' => MayFollow(w, f, a)
    BY <1>1, <1>6 DEF MayFollow, At
  <2>2. /\ Blocks(a, b) \in links => ~MayFollow(w, f, a)
        /\ Blocks(a, b) \in n.held =>
             f \notin n.held /\ (f \in links => f \in c.drop)
    BY <1>0, <1>1, <1>6 DEF WorkerInv, MeetInv, At
  <2> QED BY <1>3, <1>6, <2>1, <2>2
<1> QED BY <1>0, <1>4, <1>5, <1>8, <1>10, <1>11, <1>12, Moves DEF WorkerInv

(* A write that fails leaves its request at rest.                          *)
LEMMA WriteFails ==
  ASSUME AccountsInv, NEW w \in Workers, WriteLinks(w), Crash(w), Leave(w),
         UNCHANGED <<links, history>>
  PROVE  AccountsInv'
<1>0. /\ UNCHANGED <<links, asked, mixed, crossed>>
      /\ job' = [job EXCEPT ![w] = NoJob] /\ job \in [Workers -> Jobs]
      /\ request' \in [Requests -> (Users \X Users) \cup {None}] /\ calls' \in 0..MaxCalls
  BY DEF WriteLinks, Leave, history, AccountsInv, GraphTypeOK
<1>1. TypeOK' /\ \A x \in Workers \ {w} : pc'[x] = pc[x] /\ target'[x] = target[x]
  BY TypeStep, WalletFrame DEF AccountsInv, Next
<1>2. job'[w] = NoJob
  BY <1>0, NoJobTyped
<1>3. Standing(w)' /\ ChangeInv(w)'
  BY <1>2, NoJobTyped DEF Standing, ChangeInv, Holds
<1> QED BY <1>0, <1>1, <1>2, <1>3, NoJobTyped, Quiet, Moves

(* A write that succeeds makes the rows of its scope those of its list;    *)
(* where others hold one of them, the histories say so.                    *)
LEMMA WriteSucceeds ==
  ASSUME AccountsInv, NEW w \in Workers, WriteLinks(w), SaveWrite(w),
         Return(w, job[w]),
         links' = (links \ (job[w].known \ job[w].held)) \cup (job[w].held \ job[w].known),
         asked' = (asked \ job[w].change.drop) \cup job[w].change.add,
         mixed' = mixed \cup
            Overtaken(w, (job[w].held \ job[w].known) \cup (job[w].known \ job[w].held)
                         \cup job[w].change.add \cup job[w].change.drop),
         crossed' = crossed \cup Crossed(w, job[w].held \ job[w].known)
  PROVE  AccountsInv'
<1> DEFINE j == job[w]
           c == j.change
           adds == j.held \ j.known
           drops == j.known \ j.held
           n == IF j.request = None THEN NoJob
                ELSE [NoJob EXCEPT !.step = "accepted", !.request = j.request]
<1>0. /\ At(w, "writing") /\ Holds(w) /\ WorkerInv(w)
      /\ j \in Jobs /\ job \in [Workers -> Jobs] /\ calls' = calls /\ request' = request
  BY DEF WriteLinks, AccountsInv, GraphTypeOK, At, Holds
<1>1. /\ job' = [job EXCEPT ![w] = n] /\ job'[w] = n
      /\ n \in Jobs /\ n.step \in {"none", "accepted"}
      /\ \A x \in Workers \ {w} : job'[x] = job[x]
  BY <1>0, ReturnTyped DEF Return
<1>2. /\ TypeOK' /\ pc'[w] = "idle"
      /\ \A x \in Workers \ {w} : pc'[x] = pc[x] /\ target'[x] = target[x]
  BY TypeStep, WalletFrame DEF AccountsInv, Next, Profile, SaveWrite, Finish, TypeOK
<1>3. Sound(c)
  BY <1>0 DEF WorkerInv, ChangeInv
<1>4. /\ j.held \subseteq c.scope /\ j.known \subseteq c.scope
      /\ c.add \subseteq c.scope /\ c.drop \subseteq c.scope /\ c.scope \subseteq Link
      /\ c.add \subseteq j.held /\ c.drop \cap j.held = {}
      /\ \A l \in c.scope \ (mixed \cup c.add \cup c.drop) : l \in j.held <=> l \in asked
      /\ \A l \in c.scope \ mixed : l \in j.known <=> l \in links
  BY <1>0, <1>3 DEF WorkerInv, CopyInv, Sound, Changes
<1>5. GraphTypeOK'
  <2>1. mixed' \subseteq Link
    BY <1>4 DEF Overtaken, AccountsInv, GraphTypeOK
  <2>2. crossed' \subseteq Users \X Users
    BY DEF Crossed, AccountsInv, GraphTypeOK
  <2> QED BY <1>0, <1>1, <1>4, <2>1, <2>2 DEF AccountsInv, GraphTypeOK
<1>6. LinksAsAsked'
  <2> SUFFICES ASSUME NEW l \in Link, l \notin mixed' PROVE l \in links' <=> l \in asked'
    BY DEF LinksAsAsked
  <2>1. l \notin mixed /\ (l \in links <=> l \in asked)
    BY DEF AccountsInv, LinksAsAsked
  <2>2. CASE l \in c.scope
    BY <1>4, <2>1, <2>2
  <2>3. CASE l \notin c.scope
    BY <1>4, <2>1, <2>3
  <2> QED BY <2>2, <2>3
<1>7. ASSUME NEW a \in Users, NEW b \in Users, <<a, b>> \notin crossed', NEW f \in Between(a, b)
      PROVE  /\ <<a, b>> \notin crossed
             /\ Blocks(a, b) \in adds => \A x \in Workers \ {w} : ~MayFollow(x, f, a)
             /\ f \in adds => \A x \in Workers \ {w} : ~MayBlock(x, Blocks(a, b), f)
  <2>1. <<a, b>> \notin crossed /\ <<a, b>> \notin Crossed(w, adds)
    BY <1>7
  <2>2. f \in {Follows(a, b), Follows(b, a)}
    BY DEF Between
  <2>3. \A x \in Workers \ {w} :
           ~(Blocks(a, b) \in adds /\ MayFollow(x, f, a)) /\ ~(f \in adds /\ MayBlock(x, Blocks(a, b), f))
    BY <2>1, <2>2 DEF Crossed
  <2> QED BY <2>1, <2>3
<1>8. ASSUME NEW a \in Users, NEW b \in Users, <<a, b>> \notin crossed', NEW f \in Between(a, b),
             Blocks(a, b) \in links'
      PROVE  f \notin links' /\ \A x \in Workers \ {w} : ~MayFollow(x, f, a)
  <2>1. CASE Blocks(a, b) \in adds
    <3>1. f \notin j.held /\ (f \in links => f \in j.known)
      BY <1>0, <1>7, <1>8, <2>1 DEF WorkerInv, MeetInv, At
    <3> QED BY <1>7, <1>8, <2>1, <3>1
  <2>2. CASE Blocks(a, b) \in links
    <3>1. f \notin links
      BY <1>7, <1>8, <2>2 DEF AccountsInv, BlockSevers, Between
    <3>2. \A x \in Workers : ~MayFollow(x, f, a)
      BY <1>7, <1>8, <2>2 DEF AccountsInv, WorkerInv, MeetInv
    <3>3. f \notin j.held
      BY <1>0, <3>2 DEF MayFollow
    <3> QED BY <3>1, <3>2, <3>3
  <2> QED BY <1>8, <2>1, <2>2
<1>9. BlockSevers'
  <2> SUFFICES ASSUME NEW a \in Users, NEW b \in Users, Blocks(a, b) \in links',
                      <<a, b>> \notin crossed'
               PROVE  Follows(a, b) \notin links' /\ Follows(b, a) \notin links'
    BY DEF BlockSevers
  <2>1. Follows(a, b) \in Between(a, b) /\ Follows(b, a) \in Between(a, b)
    BY DEF Between
  <2> QED BY <1>8, <2>1
<1>10. WorkerInv(w)'
  <2>1. Standing(w)' /\ ChangeInv(w)'
    BY <1>1, <1>2 DEF Standing, ChangeInv, Holds
  <2> QED BY <1>1, <2>1, Quiet
<1>11. ASSUME NEW x \in Workers \ {w} PROVE WorkerInv(x)'
  <2>1. /\ Holds(x)' = Holds(x) /\ \A s : At(x, s)' = At(x, s)
        /\ WorkerInv(x) /\ job'[x] = job[x]
    BY <1>1 DEF Holds, At, AccountsInv
  <2>2. Standing(x)'
    BY <1>2, <2>1 DEF WorkerInv, Standing
  <2>3. ChangeInv(x)'
    BY <2>1 DEF WorkerInv, ChangeInv
  <2>4. CopyInv(x)'
    <3> SUFFICES ASSUME Holds(x) PROVE CopyInv(x)'
      BY <2>1 DEF CopyInv
    <3>1. \A l \in job[x].change.scope \ mixed' :
             /\ l \notin mixed
             /\ l \in asked' <=> l \in asked
             /\ l \in links' <=> l \in links
      BY DEF Overtaken
    <3> QED BY <2>1, <3>1 DEF WorkerInv, CopyInv, At
  <2>5. MeetInv(x)'
    <3> SUFFICES ASSUME NEW a \in Users, NEW b \in Users, <<a, b>> \notin crossed',
                        NEW f \in Between(a, b)
                 PROVE  /\ Blocks(a, b) \in links' => ~MayFollow(x, f, a)'
                        /\ Holds(x) /\ Blocks(a, b) \in job[x].held =>
                             /\ f \notin job[x].held
                             /\ f \in links' => \/ At(x, "saving") /\ f \in job[x].change.drop
                                                \/ At(x, "writing") /\ f \in job[x].known
      BY <2>1 DEF MeetInv, At
    <3>1. MayFollow(x, f, a)' = MayFollow(x, f, a)
      BY <2>1 DEF MayFollow, At
    <3>2. <<a, b>> \notin crossed /\ (f \in adds => ~MayBlock(x, Blocks(a, b), f))
      BY <1>7
    <3>3. Holds(x) /\ Blocks(a, b) \in job[x].held =>
             /\ f \notin job[x].held
             /\ f \in links => \/ At(x, "saving") /\ f \in job[x].change.drop
                               \/ At(x, "writing") /\ f \in job[x].known
      BY <2>1, <3>2 DEF WorkerInv, MeetInv
    <3>4. f \in adds /\ Holds(x) /\ Blocks(a, b) \in job[x].held =>
             At(x, "saving") /\ f \in job[x].change.drop
      BY <3>2 DEF MayBlock
    <3>5. f \in links' => f \in links \/ f \in adds
      OBVIOUS
    <3> QED BY <1>8, <3>1, <3>3, <3>4, <3>5
  <2> QED BY <2>2, <2>3, <2>4, <2>5 DEF WorkerInv
<1> QED BY <1>2, <1>5, <1>6, <1>9, <1>10, <1>11 DEF AccountsInv

---------------------------------------------------------------------------
(* A request for something to do comes from an idle worker.                *)
LEMMA Called ==
  ASSUME AccountsInv, NEW w \in Workers, Call(w)
  PROVE  pc[w] = "idle" /\ job[w].step = "none" /\ calls' \in 0..MaxCalls
  BY CallsAssumption DEF Call, Free, AccountsInv, GraphTypeOK

(* The first steps of requests about relations.                            *)
LEMMA Begins ==
  ASSUME AccountsInv, NEW w \in Workers, RelationBegins(w)
  PROVE  AccountsInv'
<1>1. PICK p \in Pairs :
         \/ Follow(w, p[1], p[2]) \/ Unfollow(w, p[1], p[2]) \/ Ask(w, p[1], p[2])
         \/ \E table \in Lists : Enlist(w, table, p[1], p[2]) \/ Delist(w, table, p[1], p[2])
  BY DEF RelationBegins
<1>2. PICK a \in Users, b \in Users : a = p[1] /\ b = p[2]
  BY PairsAssumption
<1>3. pc[w] = "idle" /\ calls' \in 0..MaxCalls
  BY <1>1, Called DEF Follow, Unfollow, Ask, Enlist, Delist
<1>4. ASSUME NEW s \in {"theirs", "finding"},
             job' = [job EXCEPT ![w] = Job(s, FollowChange(a, b), None)],
             UNCHANGED <<vars, links, request, history>>
      PROVE  AccountsInv'
  <2> DEFINE j == Job(s, FollowChange(a, b), None)
  <2>1. j \in Jobs
    BY FollowSound, JobTyped DEF Sound, JobSteps
  <2>2. j.step = s /\ j.change = FollowChange(a, b)
    BY DEF Job
  <2>3. request' \in [Requests -> (Users \X Users) \cup {None}]
    BY <1>4 DEF AccountsInv, GraphTypeOK
  <2>4. j.step \in {"theirs", "finding", "inserting"}
        /\ \E u, v \in Users : j.change = FollowChange(u, v)
    BY <2>2
  <2> HIDE DEF j
  <2>5. job' = [job EXCEPT ![w] = j]
    BY <1>4 DEF j
  <2> QED BY <1>3, <1>4, <2>1, <2>3, <2>4, <2>5, Rests
<1>5. ASSUME NEW table \in Lists,
             NEW c \in {UnfollowChange(a, b), EnlistChange(table, a, b), DelistChange(table, a, b)},
             LoadLinks(w, Job("loading", c, None))
      PROVE  AccountsInv'
  <2>1. Sound(c)
    BY FollowSound, ListSound
  <2>2. Job("loading", c, None) \in Jobs /\ Job("loading", c, None).change = c
    BY <2>1, JobTyped DEF Sound, JobSteps, Job
  <2>3. \A u, v \in Users : \A f \in Between(u, v) :
           f \notin c.add /\ (Blocks(u, v) \in c.add => f \in c.drop)
    BY FollowsOnly
  <2> QED BY <1>3, <1>5, <2>1, <2>2, <2>3, Loads
<1>6. CASE Follow(w, a, b) \/ Ask(w, a, b)
  BY <1>4, <1>6 DEF Follow, Ask, Start
<1>7. CASE Unfollow(w, a, b)
  BY <1>5, <1>7, ListsAssumption DEF Unfollow
<1>8. ASSUME NEW table \in Lists, Enlist(w, table, a, b) \/ Delist(w, table, a, b)
      PROVE  AccountsInv'
  BY <1>5, <1>8 DEF Enlist, Delist
<1> QED BY <1>1, <1>2, <1>6, <1>7, <1>8

(* The later steps of requests about relations.                            *)
LEMMA Continues ==
  ASSUME AccountsInv, NEW w \in Workers, RelationContinues(w)
  PROVE  AccountsInv'
<1>0. /\ job \in [Workers -> Jobs] /\ job[w] \in Jobs /\ calls \in 0..MaxCalls
      /\ request \in [Requests -> (Users \X Users) \cup {None}]
      /\ Standing(w) /\ ChangeInv(w) /\ MeetInv(w)
  BY DEF AccountsInv, GraphTypeOK, WorkerInv
<1>1. CASE CheckTheirs(w) \/ CheckOurs(w)
  BY <1>1, Checks
<1>2. CASE LoadFollower(w)
  <2> DEFINE c == job[w].change
  <2>1. pc[w] = "idle" /\ At(w, "loading") /\ LoadLinks(w, job[w]) /\ calls' \in 0..MaxCalls
    BY <1>0, <1>2 DEF LoadFollower, Standing, At
  <2>2. PICK u \in Users, v \in Users : c = FollowChange(u, v)
    BY <1>0, <2>1 DEF ChangeInv, At
  <2>3. Sound(c) /\ c.add = {Follows(u, v)}
    BY <2>2, FollowSound DEF FollowChange
  <2>4. \A a, b \in Users : <<a, b>> \notin crossed =>
           \A f \in Between(a, b) :
              /\ Blocks(a, b) \in links => f \notin c.add
              /\ Blocks(a, b) \in c.add => f \notin c.add /\ f \in c.drop
    <3>1. \A a, b \in Users : Blocks(a, b) \notin c.add
      BY <2>3 DEF Blocks, Follows
    <3>2. \A f, a : f \in c.add => MayFollow(w, f, a)
      BY <2>1 DEF MayFollow
    <3> QED BY <1>0, <3>1, <3>2 DEF MeetInv
  <2> QED BY <1>0, <2>1, <2>3, <2>4, Loads
<1>3. CASE ReloadLinks(w)
  BY <1>3, Reloads
<1>4. CASE WriteLinks(w)
  BY <1>4, WriteFails, WriteSucceeds DEF WriteLinks
<1>5. CASE FindRequest(w)
  <2>1. PICK a \in Users, b \in Users : job[w].change = FollowChange(a, b)
    BY <1>0, <1>5 DEF FindRequest, At, ChangeInv
  <2>2. pc[w] = "idle"
    BY <1>0, <1>5 DEF FindRequest, At, Standing
  <2> DEFINE n == [job[w] EXCEPT !.step = "inserting"]
  <2>3. n \in Jobs /\ n.step = "inserting" /\ n.change = FollowChange(a, b)
    BY <1>0, <2>1 DEF Jobs, JobSteps
  <2>4. job' = [job EXCEPT ![w] = NoJob] \/ job' = [job EXCEPT ![w] = n]
    BY <1>5 DEF FindRequest
  <2>5. /\ UNCHANGED <<vars, links, history>> /\ calls' \in 0..MaxCalls
        /\ request' \in [Requests -> (Users \X Users) \cup {None}]
    BY <1>0, <1>5 DEF FindRequest
  <2>6. \E u, v \in Users : n.change = FollowChange(u, v)
    BY <2>3
  <2> HIDE DEF n
  <2>7. CASE job' = [job EXCEPT ![w] = n]
    BY <2>2, <2>3, <2>5, <2>6, <2>7, Rests
  <2>8. CASE job' = [job EXCEPT ![w] = NoJob]
    BY <2>5, <2>8, NoJobTyped, Rests
  <2> QED BY <2>4, <2>7, <2>8
<1>6. CASE InsertRequest(w)
  <2>1. PICK a \in Users, b \in Users : job[w].change = FollowChange(a, b)
    BY <1>0, <1>6 DEF InsertRequest, At, ChangeInv
  <2>2. request' \in [Requests -> (Users \X Users) \cup {None}]
    BY <1>0, <1>6, <2>1 DEF InsertRequest, FollowChange
  <2> QED BY <1>0, <1>6, <2>2, NoJobTyped, Rests DEF InsertRequest, Leave
<1>7. CASE DeleteRequest(w)
  <2>1. request' \in [Requests -> (Users \X Users) \cup {None}]
    BY <1>0, <1>7 DEF DeleteRequest
  <2> QED BY <1>0, <1>7, <2>1, NoJobTyped, Rests DEF DeleteRequest, Leave
<1> QED BY <1>1, <1>2, <1>3, <1>4, <1>5, <1>6, <1>7 DEF RelationContinues

(* Wallet's own requests, the acceptance of a request and stops.           *)
LEMMA Others ==
  ASSUME AccountsInv, NEW w \in Workers,
         \/ WalletBegins(w) \/ WalletContinues(w) \/ Stop(w)
         \/ \E r \in Requests : Accept(w, r)
  PROVE  AccountsInv'
<1>0. /\ job \in [Workers -> Jobs] /\ job[w] \in Jobs /\ calls \in 0..MaxCalls
      /\ request \in [Requests -> (Users \X Users) \cup {None}] /\ Standing(w)
  BY DEF AccountsInv, GraphTypeOK, WorkerInv
<1>1. CASE WalletBegins(w) \/ WalletContinues(w)
  <2>1. Movement(w) \/ Profile(w)
    BY <1>1 DEF WalletBegins, WalletContinues, Movement, Profile
  <2>2. job[w].step = "none" /\ calls' \in 0..MaxCalls
    BY <1>0, <1>1, Called DEF WalletBegins, WalletContinues, graph
  <2>3. UNCHANGED <<links, request, job, asked, mixed, crossed>>
    BY <1>1 DEF WalletBegins, WalletContinues, graph, history
  <2>4. TypeOK' /\ \A x \in Workers \ {w} : pc'[x] = pc[x] /\ target'[x] = target[x]
    BY <2>1, TypeStep, WalletFrame DEF AccountsInv, Next
  <2>5. job' = [job EXCEPT ![w] = job[w]]
    BY <1>0, <2>3
  <2>6. Standing(w)' /\ ChangeInv(w)'
    BY <2>2, <2>3 DEF Standing, ChangeInv, Holds
  <2>7. WorkerInv(w)'
    BY <2>2, <2>3, <2>6, Quiet
  <2> QED BY <1>0, <2>2, <2>3, <2>4, <2>5, <2>7, Moves
<1>2. CASE Stop(w)
  <2>1. /\ UNCHANGED <<links, request, asked, mixed, crossed, calls>>
        /\ job' = [job EXCEPT ![w] = NoJob]
    BY <1>2 DEF Stop, Leave, history
  <2>2. TypeOK' /\ \A x \in Workers \ {w} : pc'[x] = pc[x] /\ target'[x] = target[x]
    <3>1. CASE Crash(w)
      BY <3>1, TypeStep, WalletFrame DEF AccountsInv, Next
    <3>2. CASE UNCHANGED vars
      BY <3>2 DEF AccountsInv, TypeOK, vars
    <3> QED BY <1>2, <3>1, <3>2 DEF Stop
  <2>3. job'[w] = NoJob
    BY <1>0, <2>1, NoJobTyped
  <2>4. Standing(w)' /\ ChangeInv(w)'
    BY <2>3, NoJobTyped DEF Standing, ChangeInv, Holds
  <2> QED BY <1>0, <2>1, <2>2, <2>3, <2>4, NoJobTyped, Quiet, Moves
<1>3. ASSUME NEW r \in Requests, Accept(w, r) PROVE AccountsInv'
  <2>1. PICK a \in Users, b \in Users : request[r] = <<a, b>>
    BY <1>0, <1>3 DEF Accept
  <2> DEFINE j == Job("theirs", FollowChange(a, b), r)
  <2>2. j \in Jobs
    BY FollowSound, JobTyped DEF Sound, JobSteps
  <2>3. j.step = "theirs" /\ j.change = FollowChange(a, b)
    BY DEF Job
  <2>4. pc[w] = "idle" /\ calls' \in 0..MaxCalls
    BY <1>3, Called DEF Accept
  <2>5. /\ UNCHANGED <<vars, links, request, history>>
        /\ job' = [job EXCEPT ![w] = j]
    BY <1>3, <2>1 DEF Accept, Start
  <2>6. \E u, v \in Users : j.change = FollowChange(u, v)
    BY <2>3
  <2> HIDE DEF j
  <2> QED BY <1>0, <2>2, <2>3, <2>4, <2>5, <2>6, Rests
<1> QED BY <1>1, <1>2, <1>3

(* Every step keeps the invariant.                                         *)
LEMMA AccountsStep == AccountsInv /\ [AccountsNext]_accountVars => AccountsInv'
<1> SUFFICES ASSUME AccountsInv, [AccountsNext]_accountVars PROVE AccountsInv'
  OBVIOUS
<1>1. ASSUME NEW w \in Workers,
             \/ WalletBegins(w) \/ WalletContinues(w)
             \/ RelationBegins(w) \/ RelationContinues(w)
             \/ \E r \in Requests : Accept(w, r)
             \/ Stop(w)
      PROVE  AccountsInv'
  BY <1>1, Begins, Continues, Others
<1>2. ASSUME UNCHANGED <<vars, links, job, history, calls>>,
             request' \in [Requests -> (Users \X Users) \cup {None}]
      PROVE  AccountsInv'
  <2>1. TypeOK' /\ UNCHANGED <<asked, mixed, crossed, pc, target>>
    BY <1>2 DEF AccountsInv, TypeOK, vars, history
  <2>2. \A w \in Workers : WorkerInv(w)'
    BY <1>2, <2>1, Stays DEF AccountsInv
  <2>3. GraphTypeOK'
    BY <1>2, <2>1 DEF AccountsInv, GraphTypeOK
  <2>4. LinksAsAsked' /\ BlockSevers'
    BY <1>2, <2>1 DEF AccountsInv, LinksAsAsked, BlockSevers
  <2> QED BY <2>1, <2>2, <2>3, <2>4 DEF AccountsInv
<1>3. ASSUME NEW r \in Requests, Withdraw(r) PROVE AccountsInv'
  BY <1>2, <1>3 DEF Withdraw, AccountsInv, GraphTypeOK
<1>4. CASE UNCHANGED accountVars
  BY <1>2, <1>4 DEF accountVars, graph, history, AccountsInv, GraphTypeOK
<1> QED BY <1>1, <1>3, <1>4 DEF AccountsNext

LEMMA AccountsStart == AccountsInit => AccountsInv
<1> SUFFICES ASSUME AccountsInit PROVE AccountsInv
  OBVIOUS
<1>1. TypeOK
  BY MaxBalanceAssumption DEF AccountsInit, Init, TypeOK, Row, Steps
<1>2. GraphTypeOK
  BY FirstAssumption, CallsAssumption, NoJobTyped DEF AccountsInit, GraphTypeOK, Link
<1>3. LinksAsAsked /\ BlockSevers
  BY FirstAssumption DEF AccountsInit, LinksAsAsked, BlockSevers, Follows, Blocks
<1>4. ASSUME NEW w \in Workers PROVE WorkerInv(w)
  <2>1. job[w].step = "none"
    BY NoJobTyped DEF AccountsInit
  <2> QED BY <2>1
      DEF WorkerInv, Standing, ChangeInv, CopyInv, MeetInv, MayFollow, Holds, At
<1> QED BY <1>1, <1>2, <1>3, <1>4 DEF AccountsInv

(* Every step of Accounts is one of Wallet, or none.                       *)
LEMMA StepRefines == AccountsInv /\ [AccountsNext]_accountVars => [Next]_vars
<1> SUFFICES ASSUME AccountsInv, [AccountsNext]_accountVars PROVE Next \/ UNCHANGED vars
  OBVIOUS
<1>1. ASSUME NEW w \in Workers, NEW c \in Changes, ConnectAccountLoad(w, c.user) PROVE Next
  BY <1>1 DEF Changes, Next, Profile
<1>2. ASSUME NEW w \in Workers, WalletBegins(w) \/ WalletContinues(w) PROVE Next
  BY <1>2 DEF WalletBegins, WalletContinues, Movement, Profile, Next
<1>3. ASSUME NEW w \in Workers, RelationBegins(w) PROVE Next \/ UNCHANGED vars
  <2>1. PICK p \in Pairs :
           \/ Follow(w, p[1], p[2]) \/ Unfollow(w, p[1], p[2]) \/ Ask(w, p[1], p[2])
           \/ \E table \in Lists : Enlist(w, table, p[1], p[2]) \/ Delist(w, table, p[1], p[2])
    BY <1>3 DEF RelationBegins
  <2>2. PICK a \in Users, b \in Users : a = p[1] /\ b = p[2]
    BY PairsAssumption
  <2>3. UnfollowChange(a, b) \in Changes
        /\ \A t \in Lists : EnlistChange(t, a, b) \in Changes /\ DelistChange(t, a, b) \in Changes
    BY FollowSound, ListSound DEF Sound
  <2>4. ASSUME NEW c \in Changes, LoadLinks(w, Job("loading", c, None)) PROVE Next \/ UNCHANGED vars
    BY <1>1, <2>4 DEF LoadLinks, Job
  <2> QED BY <2>1, <2>2, <2>3, <2>4 DEF Follow, Ask, Unfollow, Enlist, Delist
<1>4. ASSUME NEW w \in Workers, RelationContinues(w) PROVE Next \/ UNCHANGED vars
  <2>1. CASE LoadFollower(w)
    <3>1. job[w].change \in Changes
      BY <2>1, FollowSound DEF LoadFollower, At, AccountsInv, WorkerInv, ChangeInv, Sound
    <3> QED BY <1>1, <2>1, <3>1 DEF LoadFollower, LoadLinks
  <2>2. CASE ReloadLinks(w)
    BY <2>2 DEF ReloadLinks, Next, Profile
  <2>3. CASE WriteLinks(w)
    BY <2>3 DEF WriteLinks, Next, Profile
  <2> QED BY <1>4, <2>1, <2>2, <2>3
      DEF RelationContinues, CheckTheirs, CheckOurs, Check, FindRequest, InsertRequest, DeleteRequest
<1>5. ASSUME NEW w \in Workers, Stop(w) PROVE Next \/ UNCHANGED vars
  BY <1>5 DEF Stop, Next
<1>6. ASSUME NEW w \in Workers, NEW r \in Requests, Accept(w, r) \/ Withdraw(r)
      PROVE  UNCHANGED vars
  BY <1>6 DEF Accept, Withdraw
<1>7. ASSUME NEW r \in Requests, Withdraw(r) PROVE UNCHANGED vars
  BY <1>7 DEF Withdraw
<1>8. CASE UNCHANGED accountVars
  BY <1>8 DEF accountVars
<1> QED BY <1>2, <1>3, <1>4, <1>5, <1>6, <1>7, <1>8 DEF AccountsNext

(* The invariant holds in every run.                                       *)
LEMMA AccountsAlways == AccountsSpec => []AccountsInv
  BY AccountsStart, AccountsStep, PTL DEF AccountsSpec

(* Every variable keeps its shape, and a request that holds a user with    *)
(* its relations is in the middle of a save of Wallet.                     *)
THEOREM AccountsTypes == AccountsSpec => []AccountsTypeOK
<1>1. AccountsInv => AccountsTypeOK
  BY DEF AccountsInv, AccountsTypeOK, WorkerInv
<1> QED BY <1>1, AccountsAlways, PTL

(* The saves of follows, blocks and mutes are, for the wallet, saves of    *)
(* stale users like those it has itself.                                   *)
LEMMA AccountsImplementWallet == AccountsSpec => Spec
<1>1. AccountsInit => Init
  BY DEF AccountsInit
<1> QED BY <1>1, StepRefines, AccountsAlways, PTL DEF AccountsSpec, Spec

(* So the ledger is as exact beside them, where no stale save wrote a      *)
(* balance back.                                                           *)
THEOREM LedgerExactBesideAccounts == AccountsSpec => []LedgerExactUnlessOverwritten
  BY AccountsImplementWallet, WalletLedgerExact, PTL

(* And their saves, too, bring back none but a recorded balance.           *)
THEOREM BalanceRecordedBesideAccounts == AccountsSpec => []BalanceWasRecorded
  BY AccountsImplementWallet, WalletBalanceRecorded, PTL

(* A block severs, whatever lists others hold, unless block and follow     *)
(* crossed.                                                                *)
THEOREM BlocksSever == AccountsSpec => []BlockSevers
<1>1. AccountsInv => BlockSevers
  BY DEF AccountsInv
<1> QED BY <1>1, AccountsAlways, PTL

(* A row nobody else held a copy of when it was written is as asked.       *)
THEOREM LinksStayAsAsked == AccountsSpec => []LinksAsAsked
<1>1. AccountsInv => LinksAsAsked
  BY DEF AccountsInv
<1> QED BY <1>1, AccountsAlways, PTL
=============================================================================
