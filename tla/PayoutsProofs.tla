---------------------------- MODULE PayoutsProofs ----------------------------
(* Proofs about Payouts, for any number of payouts, handlers and faults.   *)
EXTENDS Payouts, TLAPS

(* p's transfer failed at Stripe or was returned by the bank, for good.    *)
Gone(p) == transfers[p][1] \in {"failed", "returned"}

(* Steps whose worker owns the payout: nobody else may act on it.          *)
Owning == {"debiting", "inserting", "loading", "paying", "transferring", "refunding",
           "failing", "rejecting", "closing", "unclaiming",
           "crediting", "finishing", "restoring"}

(* Before the money moves, either way.                                     *)
Undecided == {"loading", "paying", "transferring", "refunding", "rejecting", "unclaiming"}

(* What the row says about the wallet and about Stripe.                    *)
RowInv(p) ==
    LET status == rows[p].status
        n == Len(transfers[p])
    IN  /\ debits[p] \in {0, 1} /\ refunds[p] \in {0, debits[p]}
        /\ n \in {0, 1}
        /\ rows[p].transfer \in {0, n}
        /\ status = "none" => refunds[p] = 0 /\ n = 0
        /\ status # "none" => debits[p] = 1
        /\ status = "pending" => refunds[p] = 0 /\ n = 0
        /\ status = "processing" /\ n = 1 => refunds[p] = 0
        /\ status = "paid" => refunds[p] = 0
        /\ status \in {"rejected", "failed"} => refunds[p] = 1
        /\ status = "rejected" => n = 0
        /\ status = "reversing" => n = 1
        /\ status \in {"reversing", "failed"} /\ n = 1 => Gone(p)

(* What a worker on p knows at each of its steps.                          *)
WorkerInv(p, t) ==
    LET status == rows[p].status
        n == Len(transfers[p])
    IN  /\ t.step = "debiting" => status = "none" /\ debits[p] = 0
        /\ t.step = "inserting" => status = "none" /\ debits[p] = 1
        /\ t.step \in {"marking", "claiming", "locating"} => status # "none"
        /\ t.step \in Undecided => status = "processing" /\ refunds[p] = 0 /\ n = 0
        /\ t.step \in {"failing", "closing"} =>
             status = "processing" /\ refunds[p] = 1 /\ n = 0
        /\ t.step \in {"settling", "recording", "retrieving"} => n = 1 /\ t.transfer = 1
        /\ t.step \in {"findingPaid", "booking", "findingFailed", "reversing"} => n = 1
        /\ t.step = "booking" => t.seen = "processing"
        /\ t.step \in {"reversing", "crediting", "restoring"} =>
             t.seen \in {"processing", "paid"}
        /\ t.step \in {"findingFailed", "reversing"} => Gone(p)
        /\ t.step \in {"crediting", "restoring"} => status = "reversing" /\ refunds[p] = 0
        /\ t.step = "finishing" => status = "reversing" /\ refunds[p] = 1

(* The inductive invariant, for one payout.                                *)
PayoutInv(p) ==
    /\ RowInv(p)
    /\ \A w \in Workers : task[w].payout = p => WorkerInv(p, task[w])
    /\ \A v, w \in Workers :
         /\ task[v].payout = p /\ task[w].payout = p
         /\ task[v].step \in Owning /\ task[w].step \in Owning
         => v = w

SafetyInv == \A p \in Undisturbed : PayoutInv(p)

---------------------------------------------------------------------------
(* What TypeOK says of the workers.                                        *)
TasksOK ==
    /\ task \in [Workers -> Tasks]
    /\ \A w \in Workers : task[w].step # "idle" => task[w].payout \in Payouts

LEMMA IdleType == Idle \in Tasks
  BY BoundsAssumption DEF Idle, Tasks, Steps, Modes, Statuses

(* Giving a worker a well-typed task that names a payout keeps TasksOK.    *)
LEMMA TaskType ==
  ASSUME TypeOK, NEW w \in Workers, NEW t \in Tasks, t = Idle \/ t.payout \in Payouts,
         task' = [task EXCEPT ![w] = t]
  PROVE  TasksOK'
  BY DEF TypeOK, TasksOK, Idle

LEMMA GotoType ==
  ASSUME TypeOK, NEW w \in Workers, NEW s \in Steps, task[w].payout \in Payouts, Goto(w, s)
  PROVE  TasksOK'
<1>1. /\ [task[w] EXCEPT !.step = s] \in Tasks
      /\ [task[w] EXCEPT !.step = s].payout \in Payouts
  BY DEF TypeOK, Tasks
<1> QED BY <1>1, TaskType DEF Goto

LEMMA DoneType ==
  ASSUME TypeOK, NEW w \in Workers, Done(w)
  PROVE  TasksOK'
  BY IdleType, TaskType DEF Done

LEMMA StatusType ==
  ASSUME TypeOK, NEW p \in Payouts, NEW s \in Statuses,
         rows' = [rows EXCEPT ![p].status = s]
  PROVE  rows' \in [Payouts -> Rows]
<1>1. [rows[p] EXCEPT !.status = s] \in Rows
  BY DEF TypeOK, Rows
<1> QED BY <1>1 DEF TypeOK

LEMMA UpdateType ==
  ASSUME TypeOK, NEW p \in Payouts, NEW from, NEW to \in Statuses, UpdateFrom(p, from, to)
  PROVE  rows' \in [Payouts -> Rows]
  BY StatusType DEF UpdateFrom, TypeOK

LEMMA CreditType ==
  ASSUME TypeOK, NEW p \in Payouts, Credit(p)
  PROVE  debits' \in [Payouts -> Nat] /\ refunds' \in [Payouts -> Nat] /\ balance' \in Nat
  BY DEF Credit, TypeOK

(* A busy worker's payout is a payout, and its task is well typed.         *)
LEMMA BusyType ==
  ASSUME TypeOK, NEW w \in Workers, task[w].step # "idle"
  PROVE  task[w].payout \in Payouts /\ task[w] \in Tasks
  BY DEF TypeOK

(* So are the tasks the webhook handlers choose.                           *)
LEMMA EventTaskType ==
  ASSUME TypeOK, NEW p \in Payouts
  PROVE  /\ BookingTask(p) \in Tasks /\ (BookingTask(p) = Idle \/ BookingTask(p).payout \in Payouts)
         /\ ReversalTask(p) \in Tasks /\ (ReversalTask(p) = Idle \/ ReversalTask(p).payout \in Payouts)
<1>1. rows[p].status \in Statuses
  BY DEF TypeOK, Rows
<1>2. ASSUME NEW s \in {"booking", "reversing"}
      PROVE  LET i == [Idle EXCEPT !.step = s, !.payout = p, !.seen = rows[p].status]
             IN  i \in Tasks /\ i.payout = p
  BY <1>1, IdleType DEF Idle, Tasks, Steps
<1> QED BY <1>2, IdleType DEF BookingTask, ReversalTask

(* A handler's first step keeps the types.                                 *)
LEMMA TypeBegin ==
  ASSUME TypeOK, NEW w \in Workers, NEW p \in Payouts, Begin(w, p)
  PROVE  TypeOK'
<1> USE DEF Start, Statuses, Steps, Modes
<1>2. ASSUME NEW mode \in Modes, Request(w, p, mode) PROVE TypeOK'
  <2>1. TasksOK'
    <3> DEFINE i == [[Idle EXCEPT !.step = "debiting", !.mode = mode] EXCEPT !.payout = p]
    <3>1. i \in Tasks /\ i.payout = p
      BY IdleType DEF Tasks, Idle
    <3> QED BY <1>2, <3>1, TaskType DEF Request
  <2> QED BY <1>2, <2>1 DEF Request, TypeOK, TasksOK, money, world, history
<1>3. ASSUME NEW s \in {"loading", "rejecting", "claiming"},
             Start(w, p, [Idle EXCEPT !.step = s])
      PROVE  TasksOK'
  <2> DEFINE i == [[Idle EXCEPT !.step = s] EXCEPT !.payout = p]
  <2>1. i \in Tasks /\ i.payout = p
    BY IdleType DEF Tasks, Idle
  <2> QED BY <1>3, <2>1, TaskType
<1>4. CASE ApproveClaim(w, p)
  <2>1. TasksOK'
    BY <1>3, <1>4 DEF ApproveClaim
  <2>2. rows' \in [Payouts -> Rows]
    BY <1>4, StatusType DEF ApproveClaim, Claim
  <2> QED BY <1>4, <2>1, <2>2 DEF ApproveClaim, TypeOK, TasksOK, money, world, history
<1>5. CASE RejectClaim(w, p)
  <2>1. TasksOK'
    BY <1>3, <1>5 DEF RejectClaim
  <2>2. rows' \in [Payouts -> Rows]
    BY <1>5, StatusType DEF RejectClaim, Claim
  <2> QED BY <1>5, <2>1, <2>2 DEF RejectClaim, TypeOK, TasksOK, money, world, history
<1>6. CASE CronList(w, p)
  BY <1>3, <1>6 DEF CronList, TypeOK, TasksOK, money, world, history
<1>9. CASE PaidEvent(w, p)
  <2>1. TasksOK'
    BY <1>9, EventTaskType, TaskType DEF PaidEvent
  <2> QED BY <1>9, <2>1 DEF PaidEvent, TypeOK, TasksOK, money, world, history
<1>10. CASE FailedEvent(w, p)
  <2>1. TasksOK'
    BY <1>10, EventTaskType, TaskType DEF FailedEvent
  <2> QED BY <1>10, <2>1 DEF FailedEvent, TypeOK, TasksOK, money, world, history
<1>11. CASE ReconcileList(w, p)
  <2>1. TasksOK'
    <3> DEFINE i == [[Idle EXCEPT
                       !.step = IF rows[p].transfer = 0 THEN "locating" ELSE "retrieving",
                       !.transfer = rows[p].transfer] EXCEPT !.payout = p]
    <3>1. rows[p].transfer \in 0..MaxTransfers
      BY DEF TypeOK, Rows
    <3>2. i \in Tasks /\ i.payout = p
      BY <3>1, IdleType DEF Tasks, Idle
    <3> QED BY <1>11, <3>2, TaskType DEF ReconcileList
  <2> QED BY <1>11, <2>1 DEF ReconcileList, TypeOK, TasksOK, money, world, history
<1> QED BY <1>2, <1>4, <1>5, <1>6, <1>9, <1>10, <1>11 DEF Begin

(* Every later step of a handler keeps the types.                          *)
LEMMA TypeContinue ==
  ASSUME TypeOK, NEW w \in Workers, Continue(w)
  PROVE  TypeOK'
<1> DEFINE p == task[w].payout
<1> USE DEF At, Statuses, Steps
<1>1. p \in Payouts /\ task[w] \in Tasks
  BY BusyType DEF Continue, Debit, Insert, Mark, TransferMade, TransferRefused, Settle, Refund,
     MarkFailed, CronClaim, ApproveLoad, PayManually, RejectCredit, Close, Unclaim, Book,
     ReverseClaim, ReverseCredit, FinishReversal, Restore, LocateFound, LocateMissing, Record,
     RetrieveSettled, RetrieveUnsettled, FindPaid, FindFailed
<1>2. rows[p] \in Rows /\ transfers[p] \in Seq(TransferStates) /\ Len(transfers[p]) <= MaxTransfers
  BY <1>1 DEF TypeOK
<1>3. ASSUME NEW t \in 1..MaxTransfers, NEW s \in Steps,
             task' = [task EXCEPT ![w].step = s, ![w].transfer = t]
      PROVE  TasksOK'
  <2> DEFINE i == [task[w] EXCEPT !.step = s, !.transfer = t]
  <2>0. t \in 0..MaxTransfers
    BY BoundsAssumption
  <2>1. i \in Tasks /\ i.payout = p
    <3>1. [task[w] EXCEPT !.step = s] \in Tasks
      BY <1>1 DEF Tasks
    <3>2. i = [[task[w] EXCEPT !.step = s] EXCEPT !.transfer = t]
      BY <1>1 DEF Tasks
    <3>3. i \in Tasks
      BY <2>0, <3>1, <3>2 DEF Tasks
    <3> QED BY <1>1, <3>3 DEF Tasks
  <2>2. task' = [task EXCEPT ![w] = i]
    BY <1>1, <1>3 DEF TypeOK, Tasks
  <2> QED BY <1>1, <2>1, <2>2, TaskType
<1>4. CASE Debit(w)
  <2>1. TasksOK'
    BY <1>1, <1>4, GotoType, DoneType DEF Debit
  <2>2. debits' \in [Payouts -> Nat] /\ balance' \in Nat
    <3>1. CASE balance >= 1
      <4>1. balance' = balance - 1 /\ debits' = [debits EXCEPT ![p] = @ + 1]
        BY <1>4, <3>1 DEF Debit
      <4>2. balance \in Nat /\ debits \in [Payouts -> Nat]
        BY DEF TypeOK
      <4>3. balance' \in Nat
        BY <3>1, <4>1, <4>2
      <4>4. debits[p] + 1 \in Nat
        BY <1>1, <4>2
      <4>5. debits' \in [Payouts -> Nat]
        BY <4>1, <4>2, <4>4
      <4> QED BY <4>3, <4>5
    <3>2. CASE ~(balance >= 1)
      BY <1>4, <3>2 DEF Debit, TypeOK
    <3> QED BY <3>1, <3>2
  <2> QED BY <1>4, <2>1, <2>2 DEF Debit, TypeOK, TasksOK, world, history
<1>5. CASE Insert(w)
  <2>1. TasksOK'
    BY <1>1, <1>5, GotoType, DoneType DEF Insert
  <2>2. rows' \in [Payouts -> Rows]
    BY <1>1, <1>5, BoundsAssumption DEF Insert, TypeOK, Rows, DueDates
  <2> QED BY <1>5, <2>1, <2>2 DEF Insert, TypeOK, TasksOK, money, world, history
<1>6. CASE Mark(w)
  <2>1. TasksOK'
    BY <1>1, <1>6, GotoType DEF Mark
  <2>2. rows' \in [Payouts -> Rows]
    <3>1. [rows[p] EXCEPT !.status = "processing", !.transfer = 0] \in Rows
      <4>1. [rows[p] EXCEPT !.status = "processing"] \in Rows /\ 0 \in 0..MaxTransfers
        BY <1>2, BoundsAssumption DEF Rows
      <4> QED BY <1>2, <4>1 DEF Rows
    <3>2. rows' = [rows EXCEPT ![p] = [rows[p] EXCEPT !.status = "processing", !.transfer = 0]]
      BY <1>1, <1>6 DEF Mark, TypeOK, Rows
    <3> QED BY <1>1, <3>1, <3>2 DEF TypeOK
  <2>3. overtaken' \subseteq Payouts
    BY <1>1, <1>6 DEF Mark, TypeOK
  <2> QED BY <1>6, <2>1, <2>2, <2>3 DEF Mark, TypeOK, TasksOK, money, world
<1>7. CASE TransferMade(w)
  <2>1. Len(transfers[p]) + 1 \in 1..MaxTransfers
    BY <1>2, <1>7, BoundsAssumption DEF TransferMade
  <2>2. TasksOK'
    BY <1>3, <1>7, <2>1 DEF TransferMade
  <2>3. transfers' \in [Payouts -> Seq(TransferStates)]
    BY <1>1, <1>7 DEF TransferMade, TypeOK, TransferStates
  <2>4. \A q \in Payouts : Len(transfers'[q]) <= MaxTransfers
    BY <1>1, <1>2, <1>7, <2>1 DEF TransferMade, TypeOK
  <2> QED BY <1>7, <2>2, <2>3, <2>4 DEF TransferMade, TypeOK, TasksOK, money, history
<1>8. CASE TransferRefused(w)
  BY <1>1, <1>8, GotoType DEF TransferRefused, TypeOK, TasksOK, money, world, history
<1>9. CASE Settle(w)
  <2>1. rows' \in [Payouts -> Rows]
    <3> DEFINE r == [rows[p] EXCEPT !.status = "paid", !.transfer = task[w].transfer]
    <3>1. r \in Rows
      BY <1>1, <1>2 DEF Rows, Tasks
    <3>2. rows' = rows \/ rows' = [rows EXCEPT ![p] = r]
      BY <1>1, <1>9 DEF Settle, TypeOK, Rows
    <3> QED BY <1>1, <3>1, <3>2 DEF TypeOK
  <2>2. TasksOK'
    BY <1>9, DoneType DEF Settle
  <2> QED BY <1>9, <2>1, <2>2 DEF Settle, TypeOK, TasksOK, money, world, history
<1>10. ASSUME NEW s \in Steps, Goto(w, s), Credit(p), UNCHANGED <<rows, world, history>>
       PROVE  TypeOK'
  BY <1>1, <1>10, GotoType, CreditType DEF TypeOK, TasksOK, world, history
<1>11. ASSUME NEW from, NEW to \in Statuses, UpdateFrom(p, from, to), TasksOK',
              UNCHANGED <<money, world, history>>
       PROVE  TypeOK'
  BY <1>1, <1>11, UpdateType DEF TypeOK, TasksOK, money, world, history
<1>12. ASSUME TasksOK', UNCHANGED <<rows, money, world, history>>
       PROVE  TypeOK'
  BY <1>12 DEF TypeOK, TasksOK, money, world, history
<1>13. CASE Refund(w) \/ RejectCredit(w) \/ ReverseCredit(w)
  BY <1>10, <1>13 DEF Refund, RejectCredit, ReverseCredit
<1>14. CASE MarkFailed(w) \/ PayManually(w) \/ Close(w) \/ Unclaim(w) \/ Book(w) \/ FinishReversal(w)
  <2>1. TasksOK'
    BY <1>14, DoneType DEF MarkFailed, PayManually, Close, Unclaim, Book, FinishReversal
  <2> QED BY <1>11, <1>14, <2>1
         DEF MarkFailed, PayManually, Close, Unclaim, Book, FinishReversal
<1>15. CASE Restore(w)
  <2>1. task[w].seen \in Statuses
    BY <1>1 DEF Tasks
  <2> QED BY <1>11, <1>15, <2>1, DoneType DEF Restore
<1>16. CASE ReverseClaim(w)
  <2>1. TasksOK'
    BY <1>1, <1>16, GotoType, DoneType DEF ReverseClaim
  <2> QED BY <1>11, <1>16, <2>1 DEF ReverseClaim
<1>17. CASE CronClaim(w)
  <2>1. TasksOK'
    BY <1>1, <1>17, GotoType, DoneType DEF CronClaim
  <2>2. rows' \in [Payouts -> Rows]
    BY <1>1, <1>17, StatusType DEF CronClaim, Claim, TypeOK
  <2> QED BY <1>17, <2>1, <2>2 DEF CronClaim, TypeOK, TasksOK, money, world, history
<1>18. CASE ApproveLoad(w)
  <2>1. TasksOK'
    BY <1>1, <1>18, GotoType DEF ApproveLoad
  <2> QED BY <1>12, <1>18, <2>1 DEF ApproveLoad
<1>19. CASE LocateFound(w)
  <2>1. TasksOK'
    <3>1. PICK t \in 1..Len(transfers[p]) :
            task' = [task EXCEPT ![w].step = "recording", ![w].transfer = t]
      BY <1>19 DEF LocateFound
    <3>2. t \in 1..MaxTransfers
      BY <1>2, <3>1, BoundsAssumption
    <3> HIDE DEF p
    <3> QED BY <1>3, <3>1, <3>2
  <2> QED BY <1>12, <1>19, <2>1 DEF LocateFound
<1>20. CASE LocateMissing(w) \/ RetrieveUnsettled(w)
  BY <1>12, <1>20, DoneType DEF LocateMissing, RetrieveUnsettled
<1>21. CASE Record(w)
  <2>1. rows' \in [Payouts -> Rows]
    <3> DEFINE r == [rows[p] EXCEPT !.transfer = task[w].transfer]
    <3>1. r \in Rows
      BY <1>1, <1>2 DEF Rows, Tasks
    <3>2. rows' = rows \/ rows' = [rows EXCEPT ![p] = r]
      BY <1>1, <1>21 DEF Record, TypeOK, Rows
    <3> QED BY <1>1, <3>1, <3>2 DEF TypeOK
  <2>2. TasksOK'
    BY <1>1, <1>21, GotoType DEF Record
  <2> QED BY <1>21, <2>1, <2>2 DEF Record, TypeOK, TasksOK, money, world, history
<1>22. CASE RetrieveSettled(w)
  <2>1. TasksOK'
    BY <1>1, <1>22, GotoType DEF RetrieveSettled
  <2> QED BY <1>12, <1>22, <2>1 DEF RetrieveSettled
<1>23. CASE FindPaid(w) \/ FindFailed(w)
  <2>1. TasksOK'
    BY <1>1, <1>23, EventTaskType, TaskType DEF FindPaid, FindFailed
  <2> QED BY <1>12, <1>23, <2>1 DEF FindPaid, FindFailed
<1> QED
  BY <1>4, <1>5, <1>6, <1>7, <1>8, <1>9, <1>13, <1>14, <1>15, <1>16, <1>17, <1>18, <1>19,
     <1>20, <1>21, <1>22, <1>23 DEF Continue

(* So do the failures ...                                                  *)
LEMMA TypeFaulty ==
  ASSUME TypeOK, NEW w \in Workers, Faulty(w)
  PROVE  TypeOK'
<1> DEFINE p == task[w].payout
<1> USE DEF At, Statuses, Steps
<1>1. p \in Payouts
  BY BusyType DEF Faulty, TransferTimesOut, DecisionFails, ReverseCreditFails, Crash
<1>2. Fault => faults' \in 0..MaxFaults
  BY BoundsAssumption DEF Fault, TypeOK
<1>3. CASE TransferTimesOut(w)
  <2>1. TasksOK'
    BY <1>1, <1>3, GotoType DEF TransferTimesOut
  <2>2. transfers' \in [Payouts -> Seq(TransferStates)]
    BY <1>1, <1>3 DEF TransferTimesOut, TypeOK, TransferStates
  <2>3. transfers[p] \in Seq(TransferStates) /\ Len(transfers[p]) < MaxTransfers
    BY <1>1, <1>3 DEF TransferTimesOut, TypeOK
  <2>4. \A q \in Payouts : Len(transfers'[q]) <= MaxTransfers
    BY <1>1, <1>3, <2>3, BoundsAssumption DEF TransferTimesOut, TypeOK
  <2>5. timedOut' \subseteq Payouts
    BY <1>1, <1>3 DEF TransferTimesOut, TypeOK
  <2>6. faults' \in 0..MaxFaults
    BY <1>2, <1>3 DEF TransferTimesOut
  <2> QED BY <1>3, <2>1, <2>2, <2>4, <2>5, <2>6 DEF TransferTimesOut, TypeOK, TasksOK, money
<1>4. ASSUME TasksOK', Fault, UNCHANGED <<rows, money, world, overtaken, timedOut>>
      PROVE  TypeOK'
  BY <1>2, <1>4 DEF TypeOK, TasksOK, money, world
<1>5. CASE DecisionFails(w) \/ ReverseCreditFails(w)
  <2>1. TasksOK'
    BY <1>1, <1>5, GotoType DEF DecisionFails, ReverseCreditFails
  <2> QED BY <1>4, <1>5, <2>1 DEF DecisionFails, ReverseCreditFails
<1>6. CASE Crash(w)
  BY <1>4, <1>6, DoneType DEF Crash
<1> QED BY <1>3, <1>5, <1>6 DEF Faulty

(* ... and the world outside.                                              *)
LEMMA TypeEnvironment ==
  ASSUME TypeOK, Environment
  PROVE  TypeOK'
<1> USE DEF money, history
<1>1. ASSUME NEW p \in Payouts, NEW t \in 1..Len(transfers[p]), NEW state \in TransferStates,
             transfers' = [transfers EXCEPT ![p][t] = state],
             UNCHANGED <<rows, money, ready, task, history>>
      PROVE  TypeOK'
  <2>1. transfers[p] \in Seq(TransferStates) /\ Len(transfers[p]) <= MaxTransfers
    BY DEF TypeOK
  <2>2. /\ [transfers[p] EXCEPT ![t] = state] \in Seq(TransferStates)
        /\ Len([transfers[p] EXCEPT ![t] = state]) = Len(transfers[p])
    BY <2>1
  <2>3. transfers' = [transfers EXCEPT ![p] = [transfers[p] EXCEPT ![t] = state]]
    BY <1>1 DEF TypeOK
  <2>4. transfers' \in [Payouts -> Seq(TransferStates)]
    BY <2>2, <2>3 DEF TypeOK
  <2>5. \A q \in Payouts : Len(transfers'[q]) <= MaxTransfers
    BY <2>1, <2>2, <2>3 DEF TypeOK
  <2> QED BY <1>1, <2>4, <2>5 DEF TypeOK
<1>2. ASSUME NEW p \in Payouts, StripeSettles(p) PROVE TypeOK'
  <2>1. PICK t \in 1..Len(transfers[p]), state \in {"paid", "failed"} :
          transfers' = [transfers EXCEPT ![p][t] = state]
    BY <1>2 DEF StripeSettles
  <2>2. state \in TransferStates
    BY DEF TransferStates
  <2> QED BY <1>1, <1>2, <2>1, <2>2 DEF StripeSettles
<1>3. ASSUME NEW p \in Payouts, BankReturns(p) PROVE TypeOK'
  BY <1>1, <1>3 DEF BankReturns, TransferStates
<1>4. ASSUME NEW p \in Payouts, DueDatePasses(p) PROVE TypeOK'
  <2>1. [rows[p] EXCEPT !.due = "passed"] \in Rows
    BY DEF TypeOK, Rows, DueDates
  <2>2. rows' \in [Payouts -> Rows]
    BY <1>4, <2>1 DEF DueDatePasses, TypeOK
  <2> QED BY <1>4, <2>2 DEF DueDatePasses, TypeOK, world
<1>5. CASE AccountUpdated
  BY <1>5 DEF AccountUpdated, TypeOK
<1> QED BY <1>2, <1>3, <1>4, <1>5 DEF Environment

(* The types hold at first, and every step keeps them.                     *)
LEMMA TypeInit == Init => TypeOK
  BY IdleType, BoundsAssumption, PayoutsAssumption
     DEF Init, TypeOK, Rows, Statuses, DueDates, Idle, TransferStates

LEMMA TypeNext == TypeOK /\ [Next]_vars => TypeOK'
<1>1. CASE Next
  BY <1>1, TypeBegin, TypeContinue, TypeFaulty, TypeEnvironment DEF Next
<1>2. CASE UNCHANGED vars
  BY <1>2 DEF vars, TypeOK
<1> QED BY <1>1, <1>2

(* Every variable of the payouts has its type, whatever the number of      *)
(* payouts, handlers and faults: the service's handlers cannot write a     *)
(* status, a due date or a transfer of a row that the table has no place   *)
(* for, and the wallet's balance never goes below zero.                    *)
THEOREM PayoutTypes == Spec => []TypeOK
  BY TypeInit, TypeNext, PTL DEF Spec

---------------------------------------------------------------------------
(* Safety.  A step leaves every payout but one as it was.                  *)
Same(q) ==
    /\ rows'[q] = rows[q] /\ debits'[q] = debits[q]
    /\ refunds'[q] = refunds[q] /\ transfers'[q] = transfers[q]

(* A worker that turns to another payout, or to none, does not disturb q.  *)
LEMMA Elsewhere ==
  ASSUME TypeOK, NEW q \in Payouts, NEW w \in Workers, NEW t,
         task' = [task EXCEPT ![w] = t], t.payout # q,
         Same(q), PayoutInv(q)
  PROVE  PayoutInv(q)'
<1>1. \A v \in Workers : task'[v].payout = q => task'[v] = task[v]
  BY DEF TypeOK
<1>2. RowInv(q)'
  BY DEF Same, PayoutInv, RowInv, Gone
<1>3. \A v \in Workers : task'[v].payout = q => WorkerInv(q, task[v])'
  BY <1>1 DEF Same, PayoutInv, WorkerInv, Gone
<1> QED BY <1>1, <1>2, <1>3 DEF PayoutInv

(* A worker that moves on without touching the row keeps the invariant if  *)
(* it knows what its next step needs and does not become an owner.         *)
LEMMA Moves ==
  ASSUME TypeOK, NEW p \in Payouts, NEW w \in Workers, NEW t,
         task' = [task EXCEPT ![w] = t], Same(p), PayoutInv(p),
         t.payout = p => WorkerInv(p, t),
         t.payout = p /\ t.step \in Owning => task[w].payout = p /\ task[w].step \in Owning
  PROVE  PayoutInv(p)'
<1>1. \A v \in Workers : task'[v] = IF v = w THEN t ELSE task[v]
  BY DEF TypeOK
<1>2. RowInv(p)'
  BY DEF Same, PayoutInv, RowInv, Gone
<1>3. \A u : WorkerInv(p, u) => WorkerInv(p, u)'
  BY DEF Same, WorkerInv, Gone
<1>4. ASSUME NEW v \in Workers, task'[v].payout = p
      PROVE  WorkerInv(p, task[v])'
  <2>1. PICK u : u = task'[v]
    OBVIOUS
  <2>2. WorkerInv(p, u)
    BY <1>1, <1>4, <2>1 DEF PayoutInv
  <2>3. WorkerInv(p, u)'
    BY <1>3, <2>2
  <2> QED BY <2>1, <2>3 DEF WorkerInv
<1>5. ASSUME NEW v \in Workers, NEW x \in Workers,
             task'[v].payout = p, task'[x].payout = p,
             task'[v].step \in Owning, task'[x].step \in Owning
      PROVE  v = x
  BY <1>1, <1>5 DEF PayoutInv
<1> QED BY <1>2, <1>4, <1>5 DEF PayoutInv

(* No worker but w owns p.                                                 *)
Alone(p, w) ==
    \A v \in Workers \ {w} : task[v].payout = p => task[v].step \notin Owning

(* A worker that is alone may change the row: what the others know of it   *)
(* is only that it exists, that a transfer was made and that it failed.    *)
LEMMA Changes ==
  ASSUME TypeOK, NEW p \in Payouts, NEW w \in Workers, NEW t,
         task' = [task EXCEPT ![w] = t], PayoutInv(p), Alone(p, w),
         rows[p].status # "none" => rows'[p].status # "none",
         transfers'[p] = transfers[p] \/ Len(transfers[p]) = 0,
         RowInv(p)', t.payout = p => WorkerInv(p, t)'
  PROVE  PayoutInv(p)'
<1>1. \A v \in Workers : task'[v] = IF v = w THEN t ELSE task[v]
  BY DEF TypeOK
<1>2. ASSUME NEW u, u.step \notin Owning, WorkerInv(p, u)
      PROVE  WorkerInv(p, u)'
  <2>1. u.step \notin Undecided \cup {"failing", "closing", "debiting", "inserting",
                                       "crediting", "restoring", "finishing"}
    BY <1>2 DEF Owning, Undecided
  <2> QED BY <1>2, <2>1 DEF WorkerInv, Gone
<1>3. ASSUME NEW v \in Workers, task'[v].payout = p
      PROVE  WorkerInv(p, task[v])'
  <2>1. PICK u : u = task'[v]
    OBVIOUS
  <2>2. CASE v = w
    BY <1>1, <1>3, <2>1, <2>2 DEF WorkerInv
  <2>3. CASE v # w
    <3>1. WorkerInv(p, u) /\ u.step \notin Owning
      BY <1>1, <1>3, <2>1, <2>3 DEF PayoutInv, Alone
    <3>2. WorkerInv(p, u)'
      BY <1>2, <3>1
    <3> QED BY <2>1, <3>2 DEF WorkerInv
  <2> QED BY <2>2, <2>3
<1>4. ASSUME NEW v \in Workers, NEW x \in Workers,
             task'[v].payout = p, task'[x].payout = p,
             task'[v].step \in Owning, task'[x].step \in Owning
      PROVE  v = x
  BY <1>1, <1>4 DEF Alone
<1> QED BY <1>3, <1>4 DEF PayoutInv

LEMMA OwnerAlone ==
  ASSUME NEW p \in Payouts, NEW w \in Workers, PayoutInv(p),
         task[w].payout = p, task[w].step \in Owning
  PROVE  Alone(p, w)
  BY DEF PayoutInv, Alone

(* Nobody owns a payout that waits, is decided, or whose transfer is made. *)
LEMMA NobodyOwns ==
  ASSUME NEW p \in Payouts, NEW w \in Workers, PayoutInv(p),
         \/ rows[p].status \in {"pending", "paid", "rejected", "failed"}
         \/ rows[p].status = "processing" /\ Len(transfers[p]) = 1
  PROVE  Alone(p, w) /\ (task[w].payout = p => task[w].step \notin Owning)
<1>1. ASSUME NEW v \in Workers, task[v].payout = p, task[v].step \in Owning
      PROVE  FALSE
  <2>1. WorkerInv(p, task[v])
    BY <1>1 DEF PayoutInv
  <2>2. task[v].step \in Undecided \cup {"failing", "closing", "debiting", "inserting",
                                          "crediting", "restoring", "finishing"}
    BY <1>1 DEF Owning, Undecided
  <2> QED BY <2>1, <2>2 DEF WorkerInv
<1> QED BY <1>1 DEF Alone

(* One worker takes one step on one payout.                                *)
LEMMA SafeStep ==
  ASSUME TypeOK, SafetyInv, NEW w \in Workers, NEW p \in Payouts, NEW t,
         task' = [task EXCEPT ![w] = t], t.payout \in {p, NoPayout},
         \A q \in Payouts \ {p} : Same(q),
         overtaken \subseteq overtaken', timedOut \subseteq timedOut',
         p \in Undisturbed' /\ PayoutInv(p) => PayoutInv(p)'
  PROVE  SafetyInv'
<1>1. Undisturbed' \subseteq Undisturbed /\ Undisturbed' \subseteq Payouts
  BY DEF Undisturbed
<1>2. ASSUME NEW q \in Undisturbed'
      PROVE  PayoutInv(q)'
  <2>1. q \in Payouts /\ PayoutInv(q)
    BY <1>1, <1>2 DEF SafetyInv
  <2>2. CASE q = p
    BY <1>2, <2>1, <2>2
  <2>3. CASE q # p
    <3>1. t.payout # q
      BY <2>1, <2>3, PayoutsAssumption
    <3> QED BY <2>1, <2>3, <3>1, Elsewhere
  <2> QED BY <2>2, <2>3
<1> QED BY <1>2 DEF SafetyInv

(* A status that is compared and set.                                      *)
LEMMA UpdateEffect ==
  ASSUME TypeOK, NEW p \in Payouts, NEW from, NEW to, UpdateFrom(p, from, to)
  PROVE  /\ rows'[p].status = IF rows[p].status = from THEN to ELSE rows[p].status
         /\ rows'[p].transfer = rows[p].transfer
         /\ \A q \in Payouts \ {p} : rows'[q] = rows[q]
  BY DEF UpdateFrom, TypeOK, Rows

LEMMA ClaimEffect ==
  ASSUME TypeOK, NEW p \in Payouts, Claim(p)
  PROVE  /\ rows[p].status = "pending"
         /\ rows'[p].status = "processing"
         /\ rows'[p].transfer = rows[p].transfer
         /\ \A q \in Payouts \ {p} : rows'[q] = rows[q]
  BY DEF Claim, TypeOK, Rows

LEMMA IdlePayout ==
  ASSUME NEW p \in Payouts
  PROVE  Idle.payout \in {p, NoPayout} /\ Idle.payout # p
  BY PayoutsAssumption DEF Idle

(* A handler's first step is safe.                                         *)
LEMMA SafeBegin ==
  ASSUME TypeOK, SafetyInv, NEW w \in Workers, NEW p \in Payouts, Begin(w, p)
  PROVE  SafetyInv'
<1> USE DEF money, world, history
<1>1. ASSUME NEW mode \in Modes, Request(w, p, mode) PROVE SafetyInv'
  <2>1. PICK t : /\ t = [[Idle EXCEPT !.step = "debiting", !.mode = mode] EXCEPT !.payout = p]
                 /\ task' = [task EXCEPT ![w] = t]
    BY <1>1 DEF Request, Start
  <2>2. t.payout = p /\ t.step = "debiting"
    BY <2>1 DEF Idle
  <2>3. ASSUME PayoutInv(p) PROVE PayoutInv(p)'
    <3>1. Alone(p, w)
      BY <1>1 DEF Request, Alone
    <3>2. RowInv(p)'
      BY <1>1, <2>3 DEF Request, PayoutInv, RowInv, Gone
    <3>3. WorkerInv(p, t)'
      BY <1>1, <2>2 DEF Request, WorkerInv, Undecided
    <3> QED BY <1>1, <2>1, <2>3, <3>1, <3>2, <3>3, Changes DEF Request
  <2> QED BY <1>1, <2>1, <2>2, <2>3, SafeStep DEF Request, Same
<1>2. ASSUME NEW s \in {"loading", "rejecting"}, Claim(p),
             Start(w, p, [Idle EXCEPT !.step = s]), UNCHANGED <<money, world, history>>
      PROVE  SafetyInv'
  <2>1. PICK t : /\ t = [[Idle EXCEPT !.step = s] EXCEPT !.payout = p]
                 /\ task' = [task EXCEPT ![w] = t]
    BY <1>2 DEF Start
  <2>2. t.payout = p /\ t.step = s
    BY <2>1 DEF Idle
  <2>3. ASSUME PayoutInv(p) PROVE PayoutInv(p)'
    <3>1. Alone(p, w)
      BY <1>2, <2>3, NobodyOwns, ClaimEffect
    <3>2. RowInv(p)'
      BY <1>2, <2>3, ClaimEffect DEF PayoutInv, RowInv, Gone
    <3>3. WorkerInv(p, t)'
      BY <1>2, <2>2, <2>3, ClaimEffect DEF PayoutInv, RowInv, WorkerInv, Undecided
    <3> QED BY <1>2, <2>1, <2>3, <3>1, <3>2, <3>3, ClaimEffect, Changes
  <2> QED BY <1>2, <2>1, <2>2, <2>3, ClaimEffect, SafeStep, ZenonT(60) DEF Same
<1>3. ASSUME NEW t, task' = [task EXCEPT ![w] = t], t.payout \in {p, NoPayout},
             t.payout = p => t.step \notin Owning,
             t.payout = p /\ PayoutInv(p) => WorkerInv(p, t),
             UNCHANGED <<rows, money, world, history>>
      PROVE  SafetyInv'
  <2>1. ASSUME PayoutInv(p) PROVE PayoutInv(p)'
    BY <1>3, <2>1, Moves DEF Same
  <2> QED BY <1>3, <2>1, SafeStep DEF Same
<1>4. CASE CronList(w, p)
  <2>1. PICK t : /\ t = [[Idle EXCEPT !.step = "claiming"] EXCEPT !.payout = p]
                 /\ task' = [task EXCEPT ![w] = t]
    BY <1>4 DEF CronList, Start
  <2>2. t.payout = p /\ t.step = "claiming"
    BY <2>1 DEF Idle
  <2>3. WorkerInv(p, t)
    BY <1>4, <2>2 DEF CronList, WorkerInv, Undecided
  <2> QED BY <1>3, <1>4, <2>1, <2>2, <2>3 DEF CronList, Owning
<1>5. CASE ReconcileList(w, p)
  <2>1. PICK t : /\ t = [[Idle EXCEPT
                         !.step = IF rows[p].transfer = 0 THEN "locating" ELSE "retrieving",
                         !.transfer = rows[p].transfer] EXCEPT !.payout = p]
                 /\ task' = [task EXCEPT ![w] = t]
    BY <1>5 DEF ReconcileList, Start
  <2>2. /\ t.payout = p /\ t.transfer = rows[p].transfer
        /\ t.step = IF rows[p].transfer = 0 THEN "locating" ELSE "retrieving"
    BY <2>1 DEF Idle
  <2>3. PayoutInv(p) => WorkerInv(p, t)
    <3>1. Len(transfers[p]) \in Nat /\ rows[p].transfer \in Nat
      BY BoundsAssumption DEF TypeOK, Rows
    <3>2. PayoutInv(p) /\ rows[p].transfer # 0 => Len(transfers[p]) = 1 /\ rows[p].transfer = 1
      <4>1. PayoutInv(p) => rows[p].transfer \in {0, Len(transfers[p])} /\ Len(transfers[p]) \in {0, 1}
        BY DEF PayoutInv, RowInv
      <4> QED BY <4>1
    <3>3. rows[p].status = "processing"
      BY <1>5 DEF ReconcileList
    <3> QED BY <2>2, <3>2, <3>3 DEF WorkerInv, Undecided
  <2>4. t.step \notin Owning
    BY <2>2 DEF Owning
  <2> QED BY <1>3, <1>5, <2>1, <2>2, <2>3, <2>4 DEF ReconcileList
<1>6. CASE PaidEvent(w, p)
  <2>1. PICK t : t = BookingTask(p) /\ task' = [task EXCEPT ![w] = t]
    BY <1>6 DEF PaidEvent
  <2>2. Len(transfers[p]) >= 1
    BY <1>6 DEF PaidEvent, TypeOK
  <2>3. \/ t = Idle
        \/ /\ t.payout = p /\ t.step = "booking" /\ t.seen = rows[p].status
           /\ rows[p].status \notin {"none", "paid", "failed", "reversing"}
    BY <2>1 DEF BookingTask, Idle
  <2>4. CASE t = Idle
    BY <1>3, <1>6, <2>1, <2>4, IdlePayout DEF PaidEvent
  <2>5. CASE t # Idle
    <3>0. rows[p].status \in Statuses /\ Len(transfers[p]) \in Nat
      BY DEF TypeOK, Rows
    <3>2. PayoutInv(p) => rows[p].status = "processing" /\ Len(transfers[p]) = 1
      <4>1. PayoutInv(p) => Len(transfers[p]) = 1
        BY <2>2, <3>0 DEF PayoutInv, RowInv
      <4>2. PayoutInv(p) => rows[p].status # "pending"
        BY <4>1 DEF PayoutInv, RowInv
      <4>3. PayoutInv(p) => rows[p].status # "rejected"
        BY <4>1, SMTT(40) DEF PayoutInv, RowInv
      <4> QED BY <2>3, <2>5, <3>0, <4>1, <4>2, <4>3 DEF Statuses
    <3>1. PayoutInv(p) => WorkerInv(p, t)
      BY <2>3, <2>5, <3>2 DEF WorkerInv, Undecided
    <3> QED BY <1>3, <1>6, <2>1, <2>3, <2>5, <3>1 DEF PaidEvent, Owning
  <2> QED BY <2>4, <2>5
<1>7. CASE FailedEvent(w, p)
  <2>1. PICK t : t = ReversalTask(p) /\ task' = [task EXCEPT ![w] = t]
    BY <1>7 DEF FailedEvent
  <2>2. \E i \in 1..Len(transfers[p]) : transfers[p][i] \in {"failed", "returned"}
    BY <1>7 DEF FailedEvent
  <2>3. \/ t = Idle
        \/ /\ t.payout = p /\ t.step = "reversing" /\ t.seen = rows[p].status
           /\ rows[p].status \notin {"none", "failed", "rejected", "reversing"}
    BY <2>1 DEF ReversalTask, Idle
  <2>4. CASE t = Idle
    BY <1>3, <1>7, <2>1, <2>4, IdlePayout DEF FailedEvent
  <2>5. CASE t # Idle
    <3>1. Len(transfers[p]) \in Nat
      BY DEF TypeOK
    <3>2. PayoutInv(p) => Len(transfers[p]) = 1 /\ Gone(p)
      <4>1. PICK i \in 1..Len(transfers[p]) : transfers[p][i] \in {"failed", "returned"}
        BY <2>2
      <4>2. Len(transfers[p]) \in {0, 1} => i = 1 /\ Len(transfers[p]) = 1
        BY <4>1
      <4>3. PayoutInv(p) => Len(transfers[p]) \in {0, 1}
        BY DEF PayoutInv, RowInv
      <4> QED BY <4>1, <4>2, <4>3 DEF Gone
    <3>4. rows[p].status \in Statuses
      BY DEF TypeOK, Rows
    <3>5. PayoutInv(p) => rows[p].status \in {"processing", "paid"}
      <4>1. PayoutInv(p) => rows[p].status # "pending"
        BY <3>2 DEF PayoutInv, RowInv
      <4> QED BY <2>3, <2>5, <3>4, <4>1 DEF Statuses
    <3>3. PayoutInv(p) => WorkerInv(p, t)
      BY <2>3, <2>5, <3>2, <3>5 DEF WorkerInv, Undecided
    <3> QED BY <1>3, <1>7, <2>1, <2>3, <2>5, <3>3 DEF FailedEvent, Owning
  <2> QED BY <2>4, <2>5
<1> QED BY <1>1, <1>2, <1>4, <1>5, <1>6, <1>7 DEF Begin, ApproveClaim, RejectClaim

(* What w knows when it takes a step.                                      *)
LEMMA Knows ==
  ASSUME NEW p \in Payouts, NEW w \in Workers, PayoutInv(p), task[w].payout = p
  PROVE  RowInv(p) /\ WorkerInv(p, task[w])
  BY DEF PayoutInv

(* A step that only moves its worker on.                                   *)
LEMMA SafeMove ==
  ASSUME TypeOK, SafetyInv, NEW w \in Workers, NEW p \in Payouts, NEW t,
         task[w].payout = p, task' = [task EXCEPT ![w] = t], t.payout \in {p, NoPayout},
         t.payout = p /\ t.step \in Owning => task[w].step \in Owning,
         t.payout = p /\ RowInv(p) /\ WorkerInv(p, task[w]) => WorkerInv(p, t),
         UNCHANGED <<rows, money, transfers>>,
         overtaken \subseteq overtaken', timedOut \subseteq timedOut'
  PROVE  SafetyInv'
<1>1. \A q \in Payouts : Same(q)
  BY DEF Same, money
<1>2. ASSUME PayoutInv(p) PROVE PayoutInv(p)'
  BY <1>1, <1>2, Knows, Moves
<1> QED BY <1>1, <1>2, SafeStep

(* A step of a worker that is alone, which changes the row or the money.   *)
LEMMA SafeChange ==
  ASSUME TypeOK, SafetyInv, NEW w \in Workers, NEW p \in Payouts, NEW t,
         task[w].payout = p, task' = [task EXCEPT ![w] = t], t.payout \in {p, NoPayout},
         \A q \in Payouts \ {p} : Same(q),
         overtaken \subseteq overtaken', timedOut \subseteq timedOut',
         p \in Undisturbed' /\ PayoutInv(p) /\ RowInv(p) /\ WorkerInv(p, task[w]) =>
             /\ Alone(p, w)
             /\ rows[p].status # "none" => rows'[p].status # "none"
             /\ transfers'[p] = transfers[p] \/ Len(transfers[p]) = 0
             /\ RowInv(p)'
             /\ t.payout = p => WorkerInv(p, t)'
  PROVE  SafetyInv'
<1>1. ASSUME p \in Undisturbed', PayoutInv(p) PROVE PayoutInv(p)'
  BY <1>1, Knows, Changes
<1> QED BY <1>1, SafeStep

LEMMA GotoTask ==
  ASSUME TypeOK, NEW w \in Workers, NEW s, Goto(w, s)
  PROVE  \E t : /\ task' = [task EXCEPT ![w] = t]
                /\ t.payout = task[w].payout /\ t.step = s
                /\ t.seen = task[w].seen /\ t.transfer = task[w].transfer
<1> DEFINE t == [task[w] EXCEPT !.step = s]
<1>1. task' = [task EXCEPT ![w] = t]
  BY DEF Goto, TypeOK
<1>2. /\ t.payout = task[w].payout /\ t.step = s
      /\ t.seen = task[w].seen /\ t.transfer = task[w].transfer
  BY DEF TypeOK, Tasks
<1>3. PICK u : u = t
  OBVIOUS
<1>4. task' = [task EXCEPT ![w] = u]
  BY <1>1, <1>3
<1>5. /\ u.payout = task[w].payout /\ u.step = s
      /\ u.seen = task[w].seen /\ u.transfer = task[w].transfer
  BY <1>2, <1>3
<1> HIDE DEF t
<1> QED BY <1>4, <1>5

(* A worker that leaves a payout for good.                                 *)
LEMMA SafeDone ==
  ASSUME TypeOK, SafetyInv, NEW w \in Workers, NEW p \in Payouts,
         task[w].payout = p, Done(w), UNCHANGED <<rows, money, transfers>>,
         overtaken \subseteq overtaken', timedOut \subseteq timedOut'
  PROVE  SafetyInv'
<1>1. Idle.payout # p /\ Idle.payout \in {p, NoPayout}
  BY IdlePayout
<1> QED BY <1>1, SafeMove DEF Done

(* requestPayout: the debit, the row and the mark.                         *)
LEMMA SafeRequest ==
  ASSUME TypeOK, SafetyInv, NEW w \in Workers, Debit(w) \/ Insert(w) \/ Mark(w)
  PROVE  SafetyInv'
<1> USE DEF money, world, history, At
<1>1. PICK p \in Payouts : p = task[w].payout
  BY BusyType DEF Debit, Insert, Mark
<1>2. CASE Debit(w)
  <2>1. CASE Done(w) /\ UNCHANGED <<rows, debits, refunds, balance, world, history>>
    BY <1>1, <2>1, SafeDone
  <2>2. CASE /\ debits' = [debits EXCEPT ![p] = @ + 1] /\ Goto(w, "inserting")
             /\ UNCHANGED <<rows, refunds, world, history>>
    <3>1. PICK t : /\ task' = [task EXCEPT ![w] = t] /\ t.payout = p /\ t.step = "inserting"
      BY <1>1, <2>2, GotoTask
    <3>2. \A q \in Payouts \ {p} : Same(q)
      BY <2>2 DEF Same, TypeOK
    <3>3. debits'[p] = debits[p] + 1
      BY <2>2 DEF TypeOK
    <3>4. ASSUME PayoutInv(p), RowInv(p), WorkerInv(p, task[w])
          PROVE  Alone(p, w) /\ RowInv(p)' /\ WorkerInv(p, t)'
      <4>1. task[w].step = "debiting"
        BY <1>2 DEF Debit
      <4>2. Alone(p, w)
        BY <1>1, <3>4, <4>1, OwnerAlone DEF Owning
      <4>3. rows[p].status = "none" /\ debits[p] = 0 /\ debits'[p] = 1
        BY <3>3, <3>4, <4>1 DEF WorkerInv
      <4>4. RowInv(p)'
        BY <2>2, <3>4, <4>3 DEF RowInv, Gone
      <4>5. WorkerInv(p, t)'
        BY <2>2, <3>1, <4>3 DEF WorkerInv, Undecided
      <4> QED BY <4>2, <4>4, <4>5
    <3> QED BY <1>1, <2>2, <3>1, <3>2, <3>4, SafeChange
  <2> QED BY <1>1, <1>2, <2>1, <2>2 DEF Debit
<1>3. CASE Insert(w)
  <2>1. PICK t : /\ task' = [task EXCEPT ![w] = t]
                 /\ t = Idle \/ (t.payout = p /\ t.step = "marking")
    BY <1>1, <1>3, GotoTask DEF Insert, Done
  <2>2. \A q \in Payouts \ {p} : Same(q)
    BY <1>1, <1>3 DEF Insert, Same, TypeOK
  <2>3. rows'[p].status = "pending" /\ rows'[p].transfer = 0
    BY <1>1, <1>3 DEF Insert, TypeOK
  <2>4. t.payout \in {p, NoPayout} /\ (t.payout = p => t.step = "marking")
    BY <2>1, IdlePayout
  <2>5. ASSUME PayoutInv(p), RowInv(p), WorkerInv(p, task[w])
        PROVE  Alone(p, w) /\ RowInv(p)' /\ (t.payout = p => WorkerInv(p, t)')
    <3>1. task[w].step = "inserting"
      BY <1>3 DEF Insert
    <3>2. Alone(p, w)
      BY <1>1, <2>5, <3>1, OwnerAlone DEF Owning
    <3>3. rows[p].status = "none" /\ debits[p] = 1
      BY <2>5, <3>1 DEF WorkerInv
    <3>4. RowInv(p)'
      BY <1>3, <2>3, <2>5, <3>3 DEF Insert, RowInv, Gone
    <3>5. t.payout = p => WorkerInv(p, t)'
      BY <2>3, <2>4 DEF WorkerInv, Undecided
    <3> QED BY <3>2, <3>4, <3>5
  <2> QED BY <1>1, <1>3, <2>1, <2>2, <2>3, <2>4, <2>5, SafeChange DEF Insert
<1>4. CASE Mark(w)
  <2>1. PICK t : /\ task' = [task EXCEPT ![w] = t] /\ t.payout = p /\ t.step = "transferring"
    BY <1>1, <1>4, GotoTask DEF Mark
  <2>2. \A q \in Payouts \ {p} : Same(q)
    BY <1>1, <1>4 DEF Mark, Same, TypeOK
  <2>3. rows'[p].status = "processing" /\ rows'[p].transfer = 0
    BY <1>1, <1>4 DEF Mark, TypeOK, Rows
  <2>4. ASSUME p \in Undisturbed', PayoutInv(p), RowInv(p)
        PROVE  Alone(p, w) /\ RowInv(p)' /\ WorkerInv(p, t)'
    <3>1. rows[p].status = "pending"
      BY <1>1, <1>4, <2>4 DEF Mark, Undisturbed
    <3>2. Alone(p, w)
      BY <2>4, <3>1, NobodyOwns
    <3>3. RowInv(p)'
      BY <1>4, <2>3, <2>4, <3>1 DEF Mark, RowInv, Gone
    <3>4. WorkerInv(p, t)'
      BY <1>4, <2>1, <2>3, <2>4, <3>1 DEF Mark, RowInv, WorkerInv, Undecided
    <3> QED BY <3>2, <3>3, <3>4
  <2>5. overtaken \subseteq overtaken'
    BY <1>4 DEF Mark
  <2> QED BY <1>1, <1>4, <2>1, <2>2, <2>3, <2>4, <2>5, SafeChange DEF Mark
<1> QED BY <1>2, <1>3, <1>4

(* The transfer and what follows it.                                       *)
LEMMA SafeTransfer ==
  ASSUME TypeOK, SafetyInv, NEW w \in Workers,
         TransferMade(w) \/ TransferRefused(w) \/ TransferTimesOut(w) \/ Settle(w)
  PROVE  SafetyInv'
<1> USE DEF money, world, history, At
<1>1. PICK p \in Payouts : p = task[w].payout
  BY BusyType DEF TransferMade, TransferRefused, TransferTimesOut, Settle
<1>2. CASE TransferMade(w)
  <2> DEFINE n == Len(transfers[p])
             t == [task[w] EXCEPT !.step = "settling", !.transfer = n + 1]
  <2>1. task' = [task EXCEPT ![w] = t]
    BY <1>1, <1>2 DEF TransferMade, TypeOK, Tasks
  <2>2. t.payout = p /\ t.step = "settling" /\ t.transfer = n + 1
    BY <1>1 DEF TypeOK, Tasks
  <2>3. transfers' = [transfers EXCEPT ![p] = Append(@, "pending")]
    BY <1>1, <1>2 DEF TransferMade
  <2>4. \A q \in Payouts \ {p} : Same(q)
    BY <1>2, <2>3 DEF TransferMade, Same, TypeOK
  <2>5. n = 0 => Len(transfers'[p]) = 1
    BY <2>3 DEF TypeOK
  <2>6. PICK u : u = t
    OBVIOUS
  <2>7. ASSUME PayoutInv(p), RowInv(p), WorkerInv(p, task[w])
        PROVE  Alone(p, w) /\ n = 0 /\ RowInv(p)' /\ WorkerInv(p, u)'
    <3>1. task[w].step = "transferring"
      BY <1>2 DEF TransferMade
    <3>2. Alone(p, w)
      BY <1>1, <2>7, <3>1, OwnerAlone DEF Owning
    <3>3. rows[p].status = "processing" /\ refunds[p] = 0 /\ n = 0
      BY <2>7, <3>1 DEF WorkerInv, Undecided
    <3>4. RowInv(p)'
      BY <1>2, <2>5, <2>7, <3>3 DEF TransferMade, RowInv
    <3>5. u.step = "settling" /\ u.transfer = 1
      BY <2>2, <2>6, <3>3
    <3>6. WorkerInv(p, u)'
      BY <2>5, <3>3, <3>5 DEF WorkerInv, Undecided
    <3> QED BY <3>2, <3>3, <3>4, <3>6
  <2>8. task' = [task EXCEPT ![w] = u] /\ u.payout = p
    BY <2>1, <2>2, <2>6
  <2> HIDE DEF t
  <2> QED BY <1>1, <1>2, <2>4, <2>7, <2>8, SafeChange DEF TransferMade
<1>3. CASE TransferRefused(w)
  <2>1. PICK t : /\ task' = [task EXCEPT ![w] = t] /\ t.payout = p /\ t.step = "refunding"
    BY <1>1, <1>3, GotoTask DEF TransferRefused
  <2>2. task[w].step = "transferring" /\ task[w].step \in Owning
    BY <1>3 DEF TransferRefused, Owning
  <2>3. WorkerInv(p, task[w]) => WorkerInv(p, t)
    BY <2>1, <2>2 DEF WorkerInv, Undecided
  <2> QED BY <1>1, <1>3, <2>1, <2>2, <2>3, SafeMove DEF TransferRefused
<1>4. CASE TransferTimesOut(w)
  <2>1. PICK t : /\ task' = [task EXCEPT ![w] = t] /\ t.payout = p
    BY <1>1, <1>4, GotoTask DEF TransferTimesOut
  <2>2. \A q \in Payouts \ {p} : Same(q)
    BY <1>1, <1>4 DEF TransferTimesOut, Same, TypeOK
  <2>3. p \notin Undisturbed'
    BY <1>1, <1>4 DEF TransferTimesOut, Undisturbed
  <2> QED BY <1>1, <1>4, <2>1, <2>2, <2>3, SafeChange DEF TransferTimesOut
<1>5. CASE Settle(w)
  <2>1. Idle.payout # p /\ Idle.payout \in {p, NoPayout} /\ task' = [task EXCEPT ![w] = Idle]
    BY <1>5, IdlePayout DEF Settle, Done
  <2>2. CASE rows[p].status # "processing"
    BY <1>1, <1>5, <2>2, SafeDone DEF Settle
  <2>3. CASE rows[p].status = "processing"
    <3>1. rows'[p].status = "paid" /\ rows'[p].transfer = task[w].transfer
      BY <1>1, <1>5, <2>3 DEF Settle, TypeOK, Rows
    <3>2. \A q \in Payouts \ {p} : Same(q)
      BY <1>1, <1>5 DEF Settle, Same, TypeOK
    <3>3. ASSUME PayoutInv(p), RowInv(p), WorkerInv(p, task[w])
          PROVE  Alone(p, w) /\ RowInv(p)'
      <4>1. Len(transfers[p]) = 1 /\ task[w].transfer = 1
        BY <1>5, <3>3 DEF Settle, WorkerInv
      <4>2. Alone(p, w)
        BY <2>3, <3>3, <4>1, NobodyOwns
      <4>3. RowInv(p)'
        BY <1>5, <2>3, <3>1, <3>3, <4>1 DEF Settle, RowInv
      <4> QED BY <4>2, <4>3
    <3> QED BY <1>1, <1>5, <2>1, <3>1, <3>2, <3>3, SafeChange DEF Settle
  <2> QED BY <2>2, <2>3
<1> QED BY <1>2, <1>3, <1>4, <1>5

(* The wallet gives the amount back.                                       *)
LEMMA CreditEffect ==
  ASSUME TypeOK, NEW p \in Payouts, Credit(p)
  PROVE  /\ refunds'[p] = refunds[p] + 1 /\ debits' = debits
         /\ \A q \in Payouts \ {p} : refunds'[q] = refunds[q]
  BY DEF Credit, TypeOK

LEMMA SafeCredit ==
  ASSUME TypeOK, SafetyInv, NEW w \in Workers, Refund(w) \/ RejectCredit(w) \/ ReverseCredit(w)
  PROVE  SafetyInv'
<1> USE DEF world, history, At
<1>1. PICK p \in Payouts : p = task[w].payout
  BY BusyType DEF Refund, RejectCredit, ReverseCredit
<1>2. PICK s \in {"failing", "closing", "finishing"} :
        /\ Goto(w, s) /\ Credit(p) /\ UNCHANGED <<rows, world, history>>
        /\ \/ task[w].step = "crediting" /\ s = "finishing"
           \/ task[w].step \in {"refunding", "rejecting"} /\ s # "finishing"
  <2>1. CASE Refund(w)
    BY <1>1, <2>1 DEF Refund
  <2>2. CASE RejectCredit(w)
    BY <1>1, <2>2 DEF RejectCredit
  <2>3. CASE ReverseCredit(w)
    BY <1>1, <2>3 DEF ReverseCredit
  <2> QED BY <2>1, <2>2, <2>3
<1>3. PICK t : /\ task' = [task EXCEPT ![w] = t] /\ t.payout = p /\ t.step = s
  BY <1>1, <1>2, GotoTask
<1>4. \A q \in Payouts \ {p} : Same(q)
  BY <1>2, CreditEffect DEF Same
<1>5. ASSUME PayoutInv(p), RowInv(p), WorkerInv(p, task[w])
      PROVE  Alone(p, w) /\ RowInv(p)' /\ WorkerInv(p, t)'
  <2>1. Alone(p, w)
    BY <1>1, <1>2, <1>5, OwnerAlone DEF Owning
  <2>2. /\ refunds[p] = 0
        /\ \/ rows[p].status = "processing" /\ Len(transfers[p]) = 0
           \/ rows[p].status = "reversing"
    BY <1>2, <1>5 DEF WorkerInv, Undecided
  <2>3. refunds'[p] = 1 /\ debits' = debits
    BY <1>2, <2>2, CreditEffect
  <2>4. debits[p] = 1
    BY <1>5, <2>2 DEF RowInv
  <2>5. RowInv(p)'
    BY <1>2, <1>5, <2>2, <2>3, <2>4 DEF RowInv, Gone
  <2>6. WorkerInv(p, t)'
    BY <1>2, <1>3, <1>5, <2>2, <2>3 DEF WorkerInv, Undecided
  <2> QED BY <2>1, <2>5, <2>6
<1> QED BY <1>1, <1>2, <1>3, <1>4, <1>5, SafeChange

(* A status that its owner replaces: the last step of a decision.          *)
LEMMA SafeOwnerUpdate ==
  ASSUME TypeOK, SafetyInv, NEW w \in Workers,
         \/ MarkFailed(w) \/ PayManually(w) \/ Close(w) \/ Unclaim(w)
         \/ FinishReversal(w) \/ Restore(w)
  PROVE  SafetyInv'
<1> USE DEF money, world, history, At
<1>1. PICK p \in Payouts : p = task[w].payout
  BY BusyType DEF MarkFailed, PayManually, Close, Unclaim, FinishReversal, Restore
<1>2. PICK from, to :
        /\ UpdateFrom(p, from, to) /\ Done(w) /\ UNCHANGED <<money, world, history>>
        /\ \/ task[w].step = "failing" /\ from = "processing" /\ to = "failed"
           \/ task[w].step = "paying" /\ from = "processing" /\ to = "paid"
           \/ task[w].step = "closing" /\ from = "processing" /\ to = "rejected"
           \/ task[w].step = "unclaiming" /\ from = "processing" /\ to = "pending"
           \/ task[w].step = "finishing" /\ from = "reversing" /\ to = "failed"
           \/ task[w].step = "restoring" /\ from = "reversing" /\ to = task[w].seen
  <2>1. CASE MarkFailed(w)
    BY <1>1, <2>1 DEF MarkFailed
  <2>2. CASE PayManually(w)
    BY <1>1, <2>2 DEF PayManually
  <2>3. CASE Close(w)
    BY <1>1, <2>3 DEF Close
  <2>4. CASE Unclaim(w)
    BY <1>1, <2>4 DEF Unclaim
  <2>5. CASE FinishReversal(w)
    BY <1>1, <2>5 DEF FinishReversal
  <2>6. CASE Restore(w)
    BY <1>1, <2>6 DEF Restore
  <2> QED BY <2>1, <2>2, <2>3, <2>4, <2>5, <2>6
<1>3. Idle.payout # p /\ Idle.payout \in {p, NoPayout} /\ task' = [task EXCEPT ![w] = Idle]
  BY <1>2, IdlePayout DEF Done
<1>4. \A q \in Payouts \ {p} : Same(q)
  BY <1>2, UpdateEffect DEF Same
<1>5. ASSUME PayoutInv(p), RowInv(p), WorkerInv(p, task[w])
      PROVE  /\ Alone(p, w) /\ RowInv(p)'
             /\ rows[p].status # "none" => rows'[p].status # "none"
  <2>1. Alone(p, w)
    BY <1>1, <1>2, <1>5, OwnerAlone DEF Owning
  <2>2. rows[p].status = from
    BY <1>2, <1>5 DEF WorkerInv, Undecided
  <2>3. rows'[p].status = to /\ rows'[p].transfer = rows[p].transfer
    BY <1>2, <2>2, UpdateEffect
  <2>4. CASE from = "processing"
    <3>1. Len(transfers[p]) = 0 /\ rows[p].status = "processing" /\ debits[p] = 1
      BY <1>2, <1>5, <2>2, <2>4 DEF WorkerInv, RowInv, Undecided
    <3>2. \/ refunds[p] = 1 /\ to \in {"failed", "rejected"}
          \/ refunds[p] = 0 /\ to \in {"paid", "pending"}
      BY <1>2, <1>5, <2>4 DEF WorkerInv, Undecided
    <3> QED BY <1>2, <1>5, <2>1, <2>3, <3>1, <3>2 DEF RowInv
  <2>5. CASE from = "reversing"
    <3>1. Len(transfers[p]) = 1 /\ rows[p].status = "reversing" /\ debits[p] = 1
      BY <1>5, <2>2, <2>5 DEF RowInv
    <3>2. \/ refunds[p] = 1 /\ to = "failed"
          \/ refunds[p] = 0 /\ to \in {"processing", "paid"}
      BY <1>2, <1>5, <2>5 DEF WorkerInv, Undecided
    <3> QED BY <1>2, <1>5, <2>1, <2>3, <3>1, <3>2 DEF RowInv, Gone
  <2> QED BY <1>2, <2>4, <2>5
<1> QED BY <1>1, <1>2, <1>3, <1>4, <1>5, SafeChange

(* markPayoutPaid, the claim of a reversal and the record of a transfer,   *)
(* by workers that own nothing: a made transfer keeps the owners away.     *)
LEMMA SafeStripeUpdate ==
  ASSUME TypeOK, SafetyInv, NEW w \in Workers, Book(w) \/ ReverseClaim(w) \/ Record(w)
  PROVE  SafetyInv'
<1> USE DEF money, world, history, At
<1>1. PICK p \in Payouts : p = task[w].payout
  BY BusyType DEF Book, ReverseClaim, Record
<1>2. CASE Book(w)
  <2>1. Idle.payout # p /\ Idle.payout \in {p, NoPayout} /\ task' = [task EXCEPT ![w] = Idle]
    BY <1>2, IdlePayout DEF Book, Done
  <2>2. UpdateFrom(p, task[w].seen, "paid")
    BY <1>1, <1>2 DEF Book
  <2>3. CASE rows[p].status # task[w].seen
    BY <1>1, <1>2, <2>2, <2>3, SafeDone DEF Book, UpdateFrom
  <2>4. CASE rows[p].status = task[w].seen
    <3>1. rows'[p].status = "paid" /\ rows'[p].transfer = rows[p].transfer
      BY <2>2, <2>4, UpdateEffect
    <3>2. \A q \in Payouts \ {p} : Same(q)
      BY <1>2, <2>2, UpdateEffect DEF Book, Same
    <3>3. ASSUME PayoutInv(p), RowInv(p), WorkerInv(p, task[w])
          PROVE  Alone(p, w) /\ RowInv(p)'
      <4>1. Len(transfers[p]) = 1 /\ rows[p].status = "processing"
        BY <1>2, <2>4, <3>3 DEF Book, WorkerInv
      <4>2. Alone(p, w)
        BY <3>3, <4>1, NobodyOwns
      <4>3. RowInv(p)'
        BY <1>2, <3>1, <3>3, <4>1 DEF Book, RowInv
      <4> QED BY <4>2, <4>3
    <3> QED BY <1>1, <1>2, <2>1, <3>1, <3>2, <3>3, SafeChange DEF Book
  <2> QED BY <2>3, <2>4
<1>3. CASE ReverseClaim(w)
  <2>1. UpdateFrom(p, task[w].seen, "reversing")
    BY <1>1, <1>3 DEF ReverseClaim
  <2>2. CASE rows[p].status # task[w].seen
    BY <1>1, <1>3, <2>1, <2>2, SafeDone DEF ReverseClaim, UpdateFrom
  <2>3. CASE rows[p].status = task[w].seen
    <3>1. PICK t : /\ task' = [task EXCEPT ![w] = t] /\ t.payout = p /\ t.step = "crediting"
                   /\ t.seen = task[w].seen
      BY <1>1, <1>3, <2>3, GotoTask DEF ReverseClaim
    <3>2. rows'[p].status = "reversing" /\ rows'[p].transfer = rows[p].transfer
      BY <2>1, <2>3, UpdateEffect
    <3>3. \A q \in Payouts \ {p} : Same(q)
      BY <1>3, <2>1, UpdateEffect DEF ReverseClaim, Same
    <3>4. ASSUME PayoutInv(p), RowInv(p), WorkerInv(p, task[w])
          PROVE  Alone(p, w) /\ RowInv(p)' /\ WorkerInv(p, t)'
      <4>1. /\ Len(transfers[p]) = 1 /\ Gone(p)
            /\ task[w].seen \in {"processing", "paid"} /\ rows[p].status = task[w].seen
        BY <1>3, <2>3, <3>4 DEF ReverseClaim, WorkerInv
      <4>2. Alone(p, w)
        BY <3>4, <4>1, NobodyOwns
      <4>3. refunds[p] = 0 /\ debits[p] = 1
        BY <3>4, <4>1 DEF RowInv
      <4>4. RowInv(p)'
        BY <1>3, <3>2, <3>4, <4>1, <4>3 DEF ReverseClaim, RowInv, Gone
      <4>5. WorkerInv(p, t)'
        BY <1>3, <3>1, <3>2, <4>1, <4>3 DEF ReverseClaim, WorkerInv, Undecided
      <4> QED BY <4>2, <4>4, <4>5
    <3> QED BY <1>1, <1>3, <3>1, <3>2, <3>3, <3>4, SafeChange DEF ReverseClaim
  <2> QED BY <2>2, <2>3
<1>4. CASE Record(w)
  <2>1. PICK t : /\ task' = [task EXCEPT ![w] = t] /\ t.payout = p /\ t.step = "retrieving"
                 /\ t.transfer = task[w].transfer
    BY <1>1, <1>4, GotoTask DEF Record
  <2>2. WorkerInv(p, task[w]) => WorkerInv(p, t) /\ t.step \notin Owning
    BY <1>4, <2>1 DEF Record, WorkerInv, Undecided, Owning
  <2>3. CASE rows[p].status # "processing"
    <3>1. t.step \notin Owning
      BY <2>1 DEF Owning
    <3> QED BY <1>1, <1>4, <2>1, <2>2, <2>3, <3>1, SafeMove DEF Record
  <2>4. CASE rows[p].status = "processing"
    <3>1. rows'[p].status = "processing" /\ rows'[p].transfer = task[w].transfer
      BY <1>1, <1>4, <2>4 DEF Record, TypeOK, Rows
    <3>2. \A q \in Payouts \ {p} : Same(q)
      BY <1>1, <1>4 DEF Record, Same, TypeOK
    <3>3. ASSUME PayoutInv(p), RowInv(p), WorkerInv(p, task[w])
          PROVE  Alone(p, w) /\ RowInv(p)' /\ WorkerInv(p, t)'
      <4>1. Len(transfers[p]) = 1 /\ task[w].transfer = 1
        BY <1>4, <3>3 DEF Record, WorkerInv
      <4>2. Alone(p, w)
        BY <2>4, <3>3, <4>1, NobodyOwns
      <4>3. RowInv(p)'
        BY <1>4, <2>4, <3>1, <3>3, <4>1 DEF Record, RowInv
      <4>4. WorkerInv(p, t)'
        BY <1>4, <2>1, <4>1 DEF Record, WorkerInv, Undecided
      <4> QED BY <4>2, <4>3, <4>4
    <3> QED BY <1>1, <1>4, <2>1, <3>1, <3>2, <3>3, SafeChange DEF Record
  <2> QED BY <2>3, <2>4
<1> QED BY <1>2, <1>3, <1>4

(* The cron's claim, by a worker that owns nothing yet.                    *)
LEMMA SafeCronClaim ==
  ASSUME TypeOK, SafetyInv, NEW w \in Workers, CronClaim(w)
  PROVE  SafetyInv'
<1> USE DEF money, world, history, At
<1>1. PICK p \in Payouts : p = task[w].payout
  BY BusyType DEF CronClaim
<1>2. CASE rows[p].status # "pending"
  BY <1>1, <1>2, SafeDone DEF CronClaim
<1>3. CASE rows[p].status = "pending"
  <2>1. PICK t : task' = [task EXCEPT ![w] = t] /\ t.payout = p /\ t.step = "loading"
    BY <1>1, <1>3, GotoTask DEF CronClaim
  <2>2. Claim(p) /\ UNCHANGED <<money, world, history>>
    BY <1>1, <1>3 DEF CronClaim
  <2>3. \A q \in Payouts \ {p} : Same(q)
    BY <2>2, ClaimEffect DEF Same
  <2>4. ASSUME PayoutInv(p), RowInv(p)
        PROVE  Alone(p, w) /\ RowInv(p)' /\ WorkerInv(p, t)'
    <3>1. Alone(p, w)
      BY <1>3, <2>4, NobodyOwns
    <3>2. RowInv(p)'
      BY <1>3, <2>2, <2>4, ClaimEffect DEF RowInv, Gone
    <3>3. WorkerInv(p, t)'
      BY <1>3, <2>1, <2>2, <2>4, ClaimEffect DEF RowInv, WorkerInv, Undecided
    <3> QED BY <3>1, <3>2, <3>3
  <2>5. rows'[p].status # "none"
    BY <2>2, ClaimEffect
  <2> QED BY <1>1, <2>1, <2>2, <2>3, <2>4, <2>5, SafeChange
<1> QED BY <1>2, <1>3

(* Steps that only move their worker on.                                   *)
LEMMA SafeMoves ==
  ASSUME TypeOK, SafetyInv, NEW w \in Workers,
         \/ ApproveLoad(w) \/ LocateFound(w) \/ LocateMissing(w)
         \/ RetrieveSettled(w) \/ RetrieveUnsettled(w) \/ FindPaid(w) \/ FindFailed(w)
         \/ DecisionFails(w) \/ ReverseCreditFails(w) \/ Crash(w)
  PROVE  SafetyInv'
<1> USE DEF money, world, history, At
<1>1. PICK p \in Payouts : p = task[w].payout
  BY BusyType DEF ApproveLoad, LocateFound, LocateMissing, RetrieveSettled, RetrieveUnsettled,
     FindPaid, FindFailed, DecisionFails, ReverseCreditFails, Crash
<1>2. CASE LocateMissing(w) \/ RetrieveUnsettled(w) \/ Crash(w)
  BY <1>1, <1>2, SafeDone DEF LocateMissing, RetrieveUnsettled, Crash
<1>3. CASE ApproveLoad(w) \/ DecisionFails(w) \/ ReverseCreditFails(w)
  <2>1. PICK s \in {"transferring", "paying", "unclaiming", "restoring"} :
          /\ Goto(w, s) /\ UNCHANGED <<rows, money, transfers, overtaken, timedOut>>
          /\ \/ task[w].step \in {"loading", "paying", "rejecting"} /\ s # "restoring"
             \/ task[w].step = "crediting" /\ s = "restoring"
    <3>1. CASE ApproveLoad(w)
      BY <3>1 DEF ApproveLoad
    <3>2. CASE DecisionFails(w)
      BY <3>2 DEF DecisionFails
    <3>3. CASE ReverseCreditFails(w)
      BY <3>3 DEF ReverseCreditFails
    <3> QED BY <1>3, <3>1, <3>2, <3>3
  <2>2. PICK t : /\ task' = [task EXCEPT ![w] = t] /\ t.payout = p /\ t.step = s
                 /\ t.seen = task[w].seen
    BY <1>1, <2>1, GotoTask
  <2>3. task[w].step \in Owning
    BY <2>1 DEF Owning
  <2>4. WorkerInv(p, task[w]) => WorkerInv(p, t)
    BY <2>1, <2>2 DEF WorkerInv, Undecided
  <2> QED BY <1>1, <2>1, <2>2, <2>3, <2>4, SafeMove
<1>4. CASE LocateFound(w)
  <2>1. PICK i \in 1..Len(transfers[p]) :
          task' = [task EXCEPT ![w].step = "recording", ![w].transfer = i]
    BY <1>1, <1>4 DEF LocateFound
  <2>2. PICK t : t = [task[w] EXCEPT !.step = "recording", !.transfer = i]
    OBVIOUS
  <2>3. task' = [task EXCEPT ![w] = t]
    BY <2>1, <2>2 DEF TypeOK, Tasks
  <2>4. t.payout = p /\ t.step = "recording" /\ t.transfer = i
    BY <1>1, <2>2 DEF TypeOK, Tasks
  <2>5. RowInv(p) => WorkerInv(p, t)
    <3>1. RowInv(p) => Len(transfers[p]) \in {0, 1}
      BY DEF RowInv
    <3>2. RowInv(p) => Len(transfers[p]) = 1 /\ i = 1
      BY <3>1
    <3> QED BY <2>4, <3>2 DEF WorkerInv, Undecided
  <2>6. t.step \notin Owning
    BY <2>4 DEF Owning
  <2> QED BY <1>1, <1>4, <2>3, <2>4, <2>5, <2>6, SafeMove DEF LocateFound
<1>5. CASE RetrieveSettled(w)
  <2>1. PICK s \in {"findingPaid", "findingFailed"} :
          /\ Goto(w, s)
          /\ s = "findingFailed" =>
               transfers[p][task[w].transfer] \notin {"pending", "paid"}
    BY <1>1, <1>5 DEF RetrieveSettled
  <2>2. PICK t : task' = [task EXCEPT ![w] = t] /\ t.payout = p /\ t.step = s
    BY <1>1, <2>1, GotoTask
  <2>3. ASSUME WorkerInv(p, task[w])
        PROVE  WorkerInv(p, t)
    <3>1. Len(transfers[p]) = 1 /\ task[w].transfer = 1
      BY <1>5, <2>3 DEF RetrieveSettled, WorkerInv
    <3>2. transfers[p] \in Seq(TransferStates)
      BY DEF TypeOK
    <3>3. transfers[p][1] \in TransferStates
      BY <3>1, <3>2
    <3>4. s = "findingFailed" => Gone(p)
      BY <2>1, <3>1, <3>3 DEF TransferStates, Gone
    <3> QED BY <2>1, <2>2, <3>1, <3>4 DEF WorkerInv, Undecided
  <2>4. t.step \notin Owning
    BY <2>2 DEF Owning
  <2> QED BY <1>1, <1>5, <2>2, <2>3, <2>4, SafeMove DEF RetrieveSettled
<1>6. CASE FindPaid(w)
  <2>1. PICK t : t = BookingTask(p) /\ task' = [task EXCEPT ![w] = t]
    BY <1>1, <1>6 DEF FindPaid
  <2>2. \/ t = Idle
        \/ /\ t.payout = p /\ t.step = "booking" /\ t.seen = rows[p].status
           /\ rows[p].status \notin {"none", "paid", "failed", "reversing"}
    BY <2>1 DEF BookingTask, Idle
  <2>3. CASE t = Idle
    BY <1>1, <1>6, <2>1, <2>3, SafeDone DEF FindPaid, Done
  <2>4. CASE t # Idle
    <3>1. rows[p].status \in Statuses
      BY DEF TypeOK, Rows
    <3>2. WorkerInv(p, task[w]) => Len(transfers[p]) = 1
      BY <1>6 DEF FindPaid, WorkerInv
    <3>3. RowInv(p) /\ Len(transfers[p]) = 1 => rows[p].status # "pending"
      BY DEF RowInv
    <3>4. RowInv(p) /\ Len(transfers[p]) = 1 => rows[p].status # "rejected"
      BY DEF RowInv
    <3>5. RowInv(p) /\ WorkerInv(p, task[w]) => rows[p].status = "processing"
      BY <2>2, <2>4, <3>1, <3>2, <3>3, <3>4 DEF Statuses
    <3>6. RowInv(p) /\ WorkerInv(p, task[w]) => WorkerInv(p, t)
      BY <2>2, <2>4, <3>2, <3>5 DEF WorkerInv, Undecided
    <3>7. t.step \notin Owning
      BY <2>2, <2>4 DEF Owning
    <3> QED BY <1>1, <1>6, <2>1, <2>2, <2>4, <3>6, <3>7, SafeMove, ZenonT(60) DEF FindPaid
  <2> QED BY <2>3, <2>4
<1>7. CASE FindFailed(w)
  <2>1. PICK t : t = ReversalTask(p) /\ task' = [task EXCEPT ![w] = t]
    BY <1>1, <1>7 DEF FindFailed
  <2>2. \/ t = Idle
        \/ /\ t.payout = p /\ t.step = "reversing" /\ t.seen = rows[p].status
           /\ rows[p].status \notin {"none", "failed", "rejected", "reversing"}
    BY <2>1 DEF ReversalTask, Idle
  <2>3. CASE t = Idle
    BY <1>1, <1>7, <2>1, <2>3, SafeDone DEF FindFailed, Done
  <2>4. CASE t # Idle
    <3>1. rows[p].status \in Statuses
      BY DEF TypeOK, Rows
    <3>2. WorkerInv(p, task[w]) => Len(transfers[p]) = 1 /\ Gone(p)
      BY <1>7 DEF FindFailed, WorkerInv
    <3>3. RowInv(p) /\ Len(transfers[p]) = 1 => rows[p].status # "pending"
      BY DEF RowInv
    <3>4. RowInv(p) /\ WorkerInv(p, task[w]) => rows[p].status \in {"processing", "paid"}
      BY <2>2, <2>4, <3>1, <3>2, <3>3 DEF Statuses
    <3>5. RowInv(p) /\ WorkerInv(p, task[w]) => WorkerInv(p, t)
      BY <2>2, <2>4, <3>2, <3>4 DEF WorkerInv, Undecided
    <3>6. t.step \notin Owning
      BY <2>2, <2>4 DEF Owning
    <3> QED BY <1>1, <1>7, <2>1, <2>2, <2>4, <3>5, <3>6, SafeMove, ZenonT(60) DEF FindFailed
  <2> QED BY <2>3, <2>4
<1> QED BY <1>2, <1>3, <1>4, <1>5, <1>6, <1>7

(* Stripe, the bank and the calendar: no worker moves, and a transfer that *)
(* failed or was returned stays so.                                        *)
LEMMA Outside ==
  ASSUME NEW q \in Payouts, PayoutInv(q), UNCHANGED <<task, debits, refunds>>,
         rows'[q].status = rows[q].status, rows'[q].transfer = rows[q].transfer,
         Len(transfers'[q]) = Len(transfers[q]), Gone(q) => Gone(q)'
  PROVE  PayoutInv(q)'
<1>1. RowInv(q)'
  BY DEF PayoutInv, RowInv
<1>2. \A u : WorkerInv(q, u) => WorkerInv(q, u)'
  BY DEF WorkerInv
<1>3. ASSUME NEW v \in Workers, task'[v].payout = q
      PROVE  WorkerInv(q, task[v])'
  <2>1. PICK u : u = task[v]
    OBVIOUS
  <2>2. WorkerInv(q, u)
    BY <1>3, <2>1 DEF PayoutInv
  <2>3. WorkerInv(q, u)'
    BY <1>2, <2>2
  <2> QED BY <2>1, <2>3 DEF WorkerInv
<1> QED BY <1>1, <1>3 DEF PayoutInv

LEMMA SafeEnvironment ==
  ASSUME TypeOK, SafetyInv, Environment
  PROVE  SafetyInv'
<1> USE DEF money, world, history
<1>1. UNCHANGED <<task, debits, refunds, overtaken, timedOut>>
  BY DEF Environment, StripeSettles, BankReturns, DueDatePasses, AccountUpdated
<1>2. ASSUME NEW q \in Payouts
      PROVE  /\ rows'[q].status = rows[q].status /\ rows'[q].transfer = rows[q].transfer
             /\ Len(transfers'[q]) = Len(transfers[q]) /\ (Gone(q) => Gone(q)')
  <2>1. transfers[q] \in Seq(TransferStates) /\ rows[q] \in Rows
    BY DEF TypeOK
  <2>2. CASE UNCHANGED <<rows, transfers>>
    BY <2>2 DEF Gone
  <2>3. ASSUME NEW p \in Payouts, DueDatePasses(p)
        PROVE  /\ rows'[q].status = rows[q].status /\ rows'[q].transfer = rows[q].transfer
               /\ transfers' = transfers
    BY <2>1, <2>3 DEF DueDatePasses, TypeOK, Rows
  <2>4. ASSUME NEW p \in Payouts, NEW i \in 1..Len(transfers[p]), NEW state \in TransferStates,
               transfers[p][i] \notin {"failed", "returned"},
               transfers' = [transfers EXCEPT ![p][i] = state]
        PROVE  Len(transfers'[q]) = Len(transfers[q]) /\ (Gone(q) => Gone(q)')
    <3>1. CASE q # p
      BY <2>4, <3>1 DEF TypeOK, Gone
    <3>2. CASE q = p
      <4>1. transfers'[q] = [transfers[q] EXCEPT ![i] = state]
        BY <2>4, <3>2 DEF TypeOK
      <4>2. Len(transfers'[q]) = Len(transfers[q])
        BY <2>1, <4>1
      <4>3. Gone(q) => i # 1
        BY <2>4, <3>2 DEF Gone
      <4>4. i # 1 => transfers'[q][1] = transfers[q][1]
        BY <2>1, <2>4, <3>2, <4>1
      <4> QED BY <4>2, <4>3, <4>4 DEF Gone
    <3> QED BY <3>1, <3>2
  <2>5. ASSUME NEW p \in Payouts, StripeSettles(p)
        PROVE  /\ Len(transfers'[q]) = Len(transfers[q]) /\ (Gone(q) => Gone(q)')
               /\ rows' = rows
    <3>1. PICK i \in 1..Len(transfers[p]), state \in {"paid", "failed"} :
            transfers[p][i] = "pending" /\ transfers' = [transfers EXCEPT ![p][i] = state]
      BY <2>5 DEF StripeSettles
    <3>2. state \in TransferStates
      BY DEF TransferStates
    <3> QED BY <2>4, <2>5, <3>1, <3>2 DEF StripeSettles
  <2>6. ASSUME NEW p \in Payouts, BankReturns(p)
        PROVE  /\ Len(transfers'[q]) = Len(transfers[q]) /\ (Gone(q) => Gone(q)')
               /\ rows' = rows
    <3>1. PICK i \in 1..Len(transfers[p]) :
            transfers[p][i] = "paid" /\ transfers' = [transfers EXCEPT ![p][i] = "returned"]
      BY <2>6 DEF BankReturns
    <3> QED BY <2>4, <2>6, <3>1 DEF BankReturns, TransferStates
  <2>7. CASE AccountUpdated
    BY <2>2, <2>7 DEF AccountUpdated
  <2>8. CASE \E p \in Payouts : StripeSettles(p)
    BY <2>5, <2>8
  <2>9. CASE \E p \in Payouts : BankReturns(p)
    BY <2>6, <2>9
  <2>10. CASE \E p \in Payouts : DueDatePasses(p)
    BY <2>3, <2>10 DEF Gone
  <2> QED BY <2>7, <2>8, <2>9, <2>10 DEF Environment
<1>3. ASSUME NEW q \in Undisturbed' PROVE PayoutInv(q)'
  <2>1. q \in Payouts /\ PayoutInv(q)
    BY <1>1, <1>3 DEF Undisturbed, SafetyInv
  <2> QED BY <1>1, <1>2, <2>1, Outside
<1> QED BY <1>3 DEF SafetyInv

(* The invariant holds at first, and every step keeps it.                  *)
LEMMA SafeInit == Init => SafetyInv
<1> SUFFICES ASSUME Init, NEW p \in Undisturbed PROVE PayoutInv(p)
  BY DEF SafetyInv
<1>1. p \in Payouts
  BY DEF Undisturbed
<1>2. RowInv(p)
  BY <1>1 DEF Init, RowInv
<1>3. \A w \in Workers : task[w].payout # p
  BY <1>1, PayoutsAssumption DEF Init, Idle
<1> QED BY <1>2, <1>3 DEF PayoutInv

LEMMA SafeNext == TypeOK /\ SafetyInv /\ [Next]_vars => SafetyInv'
<1> SUFFICES ASSUME TypeOK, SafetyInv, [Next]_vars PROVE SafetyInv'
  OBVIOUS
<1>1. ASSUME NEW w \in Workers, Continue(w) PROVE SafetyInv'
  BY <1>1, SafeRequest, SafeTransfer, SafeCredit, SafeOwnerUpdate, SafeStripeUpdate,
     SafeCronClaim, SafeMoves DEF Continue
<1>2. ASSUME NEW w \in Workers, Faulty(w) PROVE SafetyInv'
  BY <1>2, SafeTransfer, SafeMoves DEF Faulty
<1>3. CASE UNCHANGED vars
  <2>1. \A q \in Payouts : PayoutInv(q) => PayoutInv(q)'
    BY <1>3, Outside DEF vars, Gone
  <2> QED BY <1>3, <2>1 DEF vars, SafetyInv, Undisturbed
<1> QED BY <1>1, <1>2, <1>3, SafeBegin, SafeEnvironment DEF Next

(* The inductive invariant holds for every payout outside the two windows. *)
THEOREM PayoutSafety == Spec => []SafetyInv
<1>1. TypeOK /\ SafetyInv /\ [Next]_vars => TypeOK' /\ SafetyInv'
  BY TypeNext, SafeNext
<1> QED BY <1>1, TypeInit, SafeInit, PTL DEF Spec

(* However webhooks, crons, admins, requests and crashes of any number of  *)
(* replicas interleave, reversePayout, rejectPayout and the failed         *)
(* transfer give a payout's amount back at most once between them, and     *)
(* never an amount that was not taken.                                     *)
THEOREM RefundsAtMostOnce == Spec => []RefundedAtMostOnce
<1>1. SafetyInv => RefundedAtMostOnce
  BY DEF SafetyInv, PayoutInv, RowInv, RefundedAtMostOnce
<1> QED BY <1>1, PayoutSafety, PTL

(* The claim on the row (claimPendingPayout) lets one worker at a time     *)
(* call transfers.create, and none once a transfer is made.                *)
THEOREM TransfersAtMostOnce == Spec => []OneTransfer
<1>1. ASSUME NEW p \in Payouts, RowInv(p) PROVE Len(transfers[p]) <= 1
  <2>1. Len(transfers[p]) \in {0, 1}
    BY <1>1 DEF RowInv
  <2>2. \A n \in {0, 1} : n <= 1
    OBVIOUS
  <2> QED BY <2>1, <2>2
<1>2. SafetyInv => OneTransfer
  BY <1>1 DEF SafetyInv, PayoutInv, OneTransfer, Undisturbed
<1> QED BY <1>2, PayoutSafety, PTL

(* A payout that the wallet got back is neither called paid nor has a      *)
(* transfer that pays the creator.                                         *)
THEOREM PaidOrRefunded == Spec => []NeverPaidAndRefunded
<1>1. TypeOK /\ SafetyInv => NeverPaidAndRefunded
  <2> SUFFICES ASSUME TypeOK, NEW p \in Undisturbed, RowInv(p), refunds[p] > 0
               PROVE  ~Live(p) /\ rows[p].status # "paid"
    BY DEF SafetyInv, PayoutInv, NeverPaidAndRefunded
  <2>1. rows[p].status # "paid"
    BY DEF RowInv
  <2>2. ASSUME NEW i \in 1..Len(transfers[p]), transfers[p][i] \in {"pending", "paid"}
        PROVE  FALSE
    <3>1. Len(transfers[p]) \in {0, 1}
      BY DEF RowInv
    <3>2. Len(transfers[p]) = 1 /\ i = 1 /\ ~Gone(p)
      BY <2>2, <3>1 DEF Gone
    <3>3. rows[p].status \in Statuses
      BY DEF TypeOK, Rows, Undisturbed
    <3>4. rows[p].status \notin {"none", "pending", "processing", "rejected", "paid"}
      BY <3>2 DEF RowInv
    <3>5. rows[p].status \notin {"reversing", "failed"}
      BY <3>2 DEF RowInv
    <3> QED BY <3>3, <3>4, <3>5 DEF Statuses
  <2> QED BY <2>1, <2>2 DEF Live
<1> QED BY <1>1, PayoutTypes, PayoutSafety, PTL

(* The statuses that promise the creator a refund keep the promise.        *)
THEOREM RefusalsRefund == Spec => []RefusalIsRefunded
<1>1. SafetyInv => RefusalIsRefunded
  BY DEF SafetyInv, PayoutInv, RowInv, RefusalIsRefunded
<1> QED BY <1>1, PayoutSafety, PTL

(* The amount of an undisturbed payout is taken, sent and given back at     *)
(* most once by requestPayout, approvePayout, rejectPayout, reversePayout   *)
(* and the reconciliation together, and never both sent and given back.     *)
THEOREM PayoutsMoveOnce == Spec => []MoneyMovesOnce
<1>1. /\ RefundedAtMostOnce /\ NeverPaidAndRefunded
      /\ OneTransfer /\ RefusalIsRefunded
      => MoneyMovesOnce
  BY DEF MoneyMovesOnce
<1> QED
  BY <1>1, RefundsAtMostOnce, PaidOrRefunded, TransfersAtMostOnce, RefusalsRefund, PTL

(* What may become of a payout's status in one step of the service.        *)
Stays(p) ==
    /\ rows[p].status \in {"rejected", "failed"} => rows'[p].status = rows[p].status
    /\ rows[p].status = "paid" => rows'[p].status \in {"paid", "reversing"}

LEMMA UpdateStays ==
  ASSUME TypeOK, NEW p \in Payouts, NEW q \in Payouts, NEW from, NEW to,
         UpdateFrom(q, from, to),
         q = p /\ rows[p].status = from =>
           \/ from \in {"none", "pending", "processing", "reversing"}
           \/ from = "paid" /\ to \in {"paid", "reversing"}
  PROVE  Stays(p)
<1>1. CASE q = p
  BY <1>1, UpdateEffect DEF Stays
<1>2. CASE q # p
  BY <1>2, UpdateEffect DEF Stays
<1> QED BY <1>1, <1>2

LEMMA ContinueStays ==
  ASSUME TypeOK, SafetyInv, NEW w \in Workers, Continue(w), NEW p \in Payouts,
         p \notin overtaken' \cup timedOut'
  PROVE  Stays(p)
<1> USE DEF money, world, history, At
<1>1. CASE UNCHANGED rows
  BY <1>1 DEF Stays
<1>2. CASE Debit(w) \/ TransferMade(w) \/ TransferRefused(w) \/ Refund(w) \/ ApproveLoad(w)
           \/ RejectCredit(w) \/ ReverseCredit(w) \/ LocateFound(w) \/ LocateMissing(w)
           \/ RetrieveSettled(w) \/ RetrieveUnsettled(w) \/ FindPaid(w) \/ FindFailed(w)
  BY <1>1, <1>2 DEF Debit, TransferMade, TransferRefused, Refund, ApproveLoad, RejectCredit,
     ReverseCredit, LocateFound, LocateMissing, RetrieveSettled, RetrieveUnsettled, FindPaid,
     FindFailed
<1>3. ASSUME overtaken \subseteq overtaken', timedOut \subseteq timedOut',
             task[w].payout = p
      PROVE  RowInv(p) /\ WorkerInv(p, task[w])
  BY <1>3 DEF Undisturbed, SafetyInv, PayoutInv
<1>4. CASE MarkFailed(w) \/ PayManually(w) \/ Close(w) \/ Unclaim(w) \/ FinishReversal(w)
           \/ Restore(w) \/ Book(w) \/ ReverseClaim(w)
  <2>1. PICK q \in Payouts : q = task[w].payout
    BY <1>4, BusyType DEF MarkFailed, PayManually, Close, Unclaim, FinishReversal, Restore,
       Book, ReverseClaim
  <2>2. CASE MarkFailed(w) \/ PayManually(w) \/ Close(w) \/ Unclaim(w)
    BY <2>1, <2>2, UpdateStays DEF MarkFailed, PayManually, Close, Unclaim
  <2>3. CASE FinishReversal(w) \/ Restore(w)
    BY <2>1, <2>3, UpdateStays DEF FinishReversal, Restore
  <2>4. CASE Book(w)
    <3>1. q = p => task[w].seen = "processing"
      BY <1>3, <2>1, <2>4 DEF Book, WorkerInv
    <3>2. UpdateFrom(q, task[w].seen, "paid")
      BY <2>1, <2>4 DEF Book
    <3> QED BY <3>1, <3>2, UpdateStays
  <2>5. CASE ReverseClaim(w)
    <3>1. q = p => task[w].seen \in {"processing", "paid"}
      BY <1>3, <2>1, <2>5 DEF ReverseClaim, WorkerInv
    <3>2. UpdateFrom(q, task[w].seen, "reversing")
      BY <2>1, <2>5 DEF ReverseClaim
    <3> QED BY <3>1, <3>2, UpdateStays
  <2> QED BY <1>4, <2>2, <2>3, <2>4, <2>5
<1>5. CASE CronClaim(w)
  BY <1>1, <1>5, BusyType, ClaimEffect DEF CronClaim, Stays
<1>6. CASE Insert(w)
  <2>1. task[w].payout = p => rows[p].status = "none"
    BY <1>3, <1>6 DEF Insert, WorkerInv
  <2>2. task[w].payout # p => rows'[p] = rows[p]
    BY <1>6 DEF Insert, TypeOK
  <2> QED BY <2>1, <2>2 DEF Stays
<1>7. CASE Mark(w)
  <2>1. task[w].payout = p => rows[p].status = "pending"
    BY <1>7 DEF Mark
  <2>2. task[w].payout # p => rows'[p] = rows[p]
    BY <1>7 DEF Mark, TypeOK
  <2> QED BY <2>1, <2>2 DEF Stays
<1>8. CASE Settle(w)
  <2>1. rows[p].status # "processing" => rows'[p] = rows[p]
    BY <1>8 DEF Settle, TypeOK
  <2> QED BY <2>1 DEF Stays
<1>9. CASE Record(w)
  <2>1. rows'[p].status = rows[p].status
    BY <1>9 DEF Record, TypeOK, Rows
  <2> QED BY <2>1 DEF Stays
<1> QED BY <1>2, <1>4, <1>5, <1>6, <1>7, <1>8, <1>9 DEF Continue

LEMMA NextStays ==
  ASSUME TypeOK, SafetyInv, Next, NEW p \in Payouts, p \notin overtaken' \cup timedOut'
  PROVE  Stays(p)
<1> USE DEF money, world, history, Stays
<1>1. ASSUME NEW w \in Workers, NEW q \in Payouts, Begin(w, q) PROVE Stays(p)
  <2>1. UNCHANGED rows \/ Claim(q)
    BY <1>1 DEF Begin, Request, ApproveClaim, RejectClaim, CronList, PaidEvent, FailedEvent,
       ReconcileList
  <2> QED BY <2>1, ClaimEffect
<1>2. ASSUME NEW w \in Workers, Faulty(w) PROVE Stays(p)
  BY <1>2 DEF Faulty, TransferTimesOut, DecisionFails, ReverseCreditFails, Crash
<1>3. ASSUME Environment PROVE Stays(p)
  <2>1. UNCHANGED rows \/ \E q \in Payouts : DueDatePasses(q)
    BY <1>3 DEF Environment, StripeSettles, BankReturns, AccountUpdated
  <2>2. rows'[p].status = rows[p].status
    <3>1. CASE UNCHANGED rows
      BY <3>1
    <3>2. ASSUME NEW q \in Payouts, DueDatePasses(q) PROVE rows'[p].status = rows[p].status
      BY <3>2 DEF DueDatePasses, TypeOK, Rows
    <3> QED BY <2>1, <3>1, <3>2
  <2> QED BY <2>2
<1> QED BY <1>1, <1>2, <1>3, ContinueStays DEF Next

(* Nothing any actor does reopens a payout that an admin rejected or whose *)
(* transfer failed, and a paid one is reopened only to reverse it.         *)
THEOREM DecisionsAreFinal == Spec => DecisionsStay
<1>1. /\ TypeOK /\ SafetyInv /\ [Next]_vars
      => [\A p \in Payouts \ (overtaken' \cup timedOut') :
           /\ rows[p].status \in {"rejected", "failed"} => rows'[p].status = rows[p].status
           /\ rows[p].status = "paid" => rows'[p].status \in {"paid", "reversing"}]_vars
  BY NextStays DEF Stays
<1> QED BY <1>1, PayoutTypes, PayoutSafety, PTL DEF Spec, DecisionsStay
---------------------------------------------------------------------------
(* Payouts implements Escrow: every step of a handler, of Stripe or of the  *)
(* bank moves the amount of one payout as Escrow allows, or of none.       *)

(* What the place of payout q depends on stays as it was.                  *)
Settled(q) ==
    /\ (q \in Undisturbed)' <=> q \in Undisturbed
    /\ debits'[q] = debits[q] /\ refunds'[q] = refunds[q]
    /\ transfers'[q] = transfers[q]
    /\ q \in Undisturbed /\ Len(transfers[q]) = 0 =>
         (rows'[q].status = "paid" <=> rows[q].status = "paid")

LEMMA SettledPlace ==
  ASSUME NEW q \in Payouts, Settled(q)
  PROVE  Place(q)' = Place(q)
  BY DEF Settled, Place, Live, Undisturbed

(* A step that leaves every payout where it is.                            *)
LEMMA Stutter ==
  ASSUME \A q \in Payouts : Settled(q)
  PROVE  [Custody!Next]_[p \in Payouts |-> Place(p)]
<1>1. \A q \in Payouts : Place(q)' = Place(q)
  BY SettledPlace
<1> QED BY <1>1

(* A step that moves the amount of one payout.                             *)
LEMMA OneMove ==
  ASSUME NEW p \in Payouts, \A q \in Payouts \ {p} : Settled(q),
         \/ Place(p)' = Place(p)
         \/ Place(p) = "none" /\ Place(p)' = "held"
         \/ Place(p) = "held" /\ Place(p)' \in {"sent", "handed", "returned"}
         \/ Place(p) = "sent" /\ Place(p)' = "held"
         \/ Place(p)' = "void"
  PROVE  [Custody!Next]_[q \in Payouts |-> Place(q)]
<1>1. \A q \in Payouts \ {p} : Place(q)' = Place(q)
  BY SettledPlace
<1>2. [q \in Payouts |-> Place(q)]' = [[q \in Payouts |-> Place(q)] EXCEPT ![p] = Place(p)']
  BY <1>1
<1> QED BY <1>1, <1>2 DEF Custody!Next, Custody!Take, Custody!Send, Custody!Bounce,
         Custody!HandOver, Custody!GiveBack, Custody!Void, Custody!Move
---------------------------------------------------------------------------
(* A status that is compared and set by a step that is not a manual        *)
(* payment: "paid" appears or goes only where there is a transfer.         *)
LEMMA UpdateSettled ==
  ASSUME TypeOK, NEW p \in Payouts, NEW from, NEW to, UpdateFrom(p, from, to),
         UNCHANGED <<debits, refunds, transfers, overtaken, timedOut>>,
         p \in Undisturbed /\ Len(transfers[p]) = 0 => (from = "paid" <=> to = "paid")
  PROVE  \A q \in Payouts : Settled(q)
  BY UpdateEffect DEF Settled, Undisturbed

(* The first steps of the handlers claim or remember: no amount moves.     *)
LEMMA BeginSettled ==
  ASSUME TypeOK, NEW w \in Workers, NEW p \in Payouts, Begin(w, p)
  PROVE  \A q \in Payouts : Settled(q)
<1> USE DEF money, world, history
<1>1. CASE UNCHANGED rows
  BY <1>1 DEF Settled, Undisturbed, Begin, Request, ApproveClaim, RejectClaim, CronList,
     PaidEvent, FailedEvent, ReconcileList
<1>2. CASE Claim(p)
  BY <1>2, ClaimEffect DEF Settled, Undisturbed, Begin, Request, ApproveClaim, RejectClaim,
     CronList, PaidEvent, FailedEvent, ReconcileList
<1> QED BY <1>1, <1>2 DEF Begin, Request, ApproveClaim, RejectClaim, CronList, PaidEvent,
     FailedEvent, ReconcileList

(* What a handler knows of an undisturbed payout, spelled out.             *)
LEMMA Known ==
  ASSUME SafetyInv, NEW w \in Workers, NEW p \in Undisturbed, task[w].payout = p
  PROVE  RowInv(p) /\ WorkerInv(p, task[w])
  BY Knows DEF SafetyInv, Undisturbed

(* The debit takes the amount out of the wallet.                           *)
LEMMA TakeStep ==
  ASSUME TypeOK, SafetyInv, NEW w \in Workers, Debit(w)
  PROVE  [Custody!Next]_[p \in Payouts |-> Place(p)]
<1> USE DEF money, world, history, At
<1>1. PICK p \in Payouts : p = task[w].payout
  BY BusyType DEF Debit
<1>2. CASE UNCHANGED debits
  BY <1>2, Stutter DEF Debit, Settled, Undisturbed
<1>3. CASE balance >= 1
  <2>1. \A q \in Payouts \ {p} : Settled(q)
    BY <1>1, <1>3 DEF Debit, Settled, Undisturbed, TypeOK
  <2>2. CASE p \in Undisturbed
    <3>1. /\ debits[p] = 0 /\ refunds[p] = 0 /\ Len(transfers[p]) = 0
          /\ rows[p].status = "none"
      <4>1. RowInv(p) /\ WorkerInv(p, task[w])
        BY <1>1, <2>2, Known
      <4> QED BY <1>1, <4>1 DEF Debit, RowInv, WorkerInv, TypeOK
    <3>2. Place(p) = "none" /\ Place(p)' = "held"
      BY <1>1, <1>3, <2>2, <3>1 DEF Debit, Place, Live, Undisturbed, TypeOK
    <3> QED BY <2>1, <3>2, OneMove
  <2>3. CASE p \notin Undisturbed
    <3>1. Place(p)' = "void"
      BY <2>3 DEF Debit, Place, Undisturbed
    <3> QED BY <2>1, <3>1, OneMove
  <2> QED BY <2>2, <2>3
<1> QED BY <1>2, <1>3 DEF Debit

(* The transfer hands it to Stripe, or voids the payout when its answer is *)
(* lost.                                                                   *)
LEMMA SendStep ==
  ASSUME TypeOK, SafetyInv, NEW w \in Workers, TransferMade(w) \/ TransferTimesOut(w)
  PROVE  [Custody!Next]_[p \in Payouts |-> Place(p)]
<1> USE DEF money, world, history, At, Fault
<1>1. PICK p \in Payouts : p = task[w].payout
  BY BusyType DEF TransferMade, TransferTimesOut
<1>2. \A q \in Payouts \ {p} : Settled(q)
  BY <1>1 DEF TransferMade, TransferTimesOut, Settled, Undisturbed, TypeOK
<1>3. CASE p \in Undisturbed /\ TransferMade(w)
  <2>1. RowInv(p) /\ WorkerInv(p, task[w])
    BY <1>1, <1>3, Known
  <2>2. /\ debits[p] = 1 /\ refunds[p] = 0 /\ Len(transfers[p]) = 0
        /\ rows[p].status = "processing"
    BY <1>1, <1>3, <2>1 DEF TransferMade, RowInv, WorkerInv, Undecided
  <2>3. Place(p) = "held"
    BY <1>3, <2>2 DEF Place, Live
  <2>4. Len(transfers'[p]) = 1 /\ transfers'[p][1] = "pending"
    <3>1. transfers'[p] = Append(transfers[p], "pending") /\ transfers[p] \in Seq(TransferStates)
      BY <1>1, <1>3 DEF TransferMade, TypeOK
    <3>2. "pending" \in TransferStates
      BY DEF TransferStates
    <3> QED BY <2>2, <3>1, <3>2
  <2>5. Live(p)'
    BY <2>4 DEF Live
  <2>6. Place(p)' = "sent"
    BY <1>3, <2>2, <2>5 DEF TransferMade, Place, Undisturbed
  <2> QED BY <1>2, <2>3, <2>6, OneMove
<1>4. CASE p \notin Undisturbed \/ TransferTimesOut(w)
  <2>1. Place(p)' = "void"
    BY <1>1, <1>4 DEF TransferMade, TransferTimesOut, Place, Undisturbed
  <2> QED BY <1>2, <2>1, OneMove
<1> QED BY <1>3, <1>4

(* A credit returns it.                                                    *)
LEMMA ReturnStep ==
  ASSUME TypeOK, SafetyInv, NEW w \in Workers,
         Refund(w) \/ RejectCredit(w) \/ ReverseCredit(w)
  PROVE  [Custody!Next]_[p \in Payouts |-> Place(p)]
<1> USE DEF money, world, history, At
<1>1. PICK p \in Payouts : p = task[w].payout
  BY BusyType DEF Refund, RejectCredit, ReverseCredit
<1>2. Credit(p) /\ UNCHANGED <<rows, transfers, overtaken, timedOut>>
  BY <1>1 DEF Refund, RejectCredit, ReverseCredit
<1>3. \A q \in Payouts \ {p} : Settled(q)
  BY <1>2, CreditEffect DEF Settled, Undisturbed
<1>4. CASE p \in Undisturbed
  <2>1. RowInv(p) /\ WorkerInv(p, task[w])
    BY <1>1, <1>4, Known
  <2>2. task[w].step \in {"refunding", "rejecting", "crediting"}
    BY DEF Refund, RejectCredit, ReverseCredit
  <2>3. debits[p] = 1 /\ refunds[p] = 0 /\ rows[p].status \in {"processing", "reversing"}
    BY <2>1, <2>2 DEF RowInv, WorkerInv, Undecided
  <2>4. ~Live(p)
    <3>1. CASE Len(transfers[p]) = 0
      BY <3>1 DEF Live
    <3>2. CASE Len(transfers[p]) = 1 /\ Gone(p)
      BY <3>2 DEF Live, Gone
    <3> QED BY <2>1, <2>2, <3>1, <3>2 DEF RowInv, WorkerInv, Undecided
  <2>5. Place(p) = "held"
    BY <1>4, <2>3, <2>4 DEF Place
  <2>6. Place(p)' = "returned"
    BY <1>2, <1>4, <2>3, CreditEffect DEF Place, Undisturbed
  <2> QED BY <1>3, <2>5, <2>6, OneMove
<1>5. CASE p \notin Undisturbed
  <2>1. Place(p)' = "void"
    BY <1>2, <1>5 DEF Place, Undisturbed
  <2> QED BY <1>3, <2>1, OneMove
<1> QED BY <1>4, <1>5

(* A manual payment hands it over.                                         *)
LEMMA HandOverStep ==
  ASSUME TypeOK, SafetyInv, NEW w \in Workers, PayManually(w)
  PROVE  [Custody!Next]_[p \in Payouts |-> Place(p)]
<1> USE DEF money, world, history, At
<1>1. PICK p \in Payouts : p = task[w].payout
  BY BusyType DEF PayManually
<1>2. \A q \in Payouts \ {p} : Settled(q)
  BY <1>1, UpdateEffect DEF PayManually, Settled, Undisturbed
<1>3. CASE p \in Undisturbed
  <2>1. RowInv(p) /\ WorkerInv(p, task[w])
    BY <1>1, <1>3, Known
  <2>2. /\ debits[p] = 1 /\ refunds[p] = 0 /\ Len(transfers[p]) = 0
        /\ rows[p].status = "processing"
    BY <1>1, <2>1 DEF PayManually, RowInv, WorkerInv, Undecided, TypeOK
  <2>3. Place(p) = "held"
    BY <1>3, <2>2 DEF Place, Live
  <2>4. rows'[p].status = "paid"
    BY <1>1, <2>2, UpdateEffect DEF PayManually
  <2>5. Place(p)' = "handed"
    BY <1>3, <2>2, <2>4 DEF PayManually, Place, Live, Undisturbed
  <2> QED BY <1>2, <2>3, <2>5, OneMove
<1>4. CASE p \notin Undisturbed
  <2>1. Place(p)' = "void"
    BY <1>4 DEF PayManually, Place, Undisturbed
  <2> QED BY <1>2, <2>1, OneMove
<1> QED BY <1>3, <1>4

(* The steps of a handler that is under way.                               *)
LEMMA ContinueEscrow ==
  ASSUME TypeOK, SafetyInv, NEW w \in Workers, Continue(w)
  PROVE  [Custody!Next]_[p \in Payouts |-> Place(p)]
<1> USE DEF money, world, history, At
<1>1. CASE UNCHANGED <<rows, debits, refunds, transfers, overtaken, timedOut>>
  BY <1>1, Stutter DEF Settled, Undisturbed
<1>2. CASE Debit(w)
  BY <1>2, TakeStep
<1>3. CASE TransferMade(w)
  BY <1>3, SendStep
<1>4. CASE Refund(w) \/ RejectCredit(w) \/ ReverseCredit(w)
  BY <1>4, ReturnStep
<1>5. CASE PayManually(w)
  BY <1>5, HandOverStep
<1>6. CASE MarkFailed(w) \/ Close(w) \/ Unclaim(w) \/ FinishReversal(w)
  <2>1. PICK p \in Payouts : p = task[w].payout
    BY <1>6, BusyType DEF MarkFailed, Close, Unclaim, FinishReversal
  <2> QED BY <1>6, <2>1, UpdateSettled, Stutter DEF MarkFailed, Close, Unclaim, FinishReversal
<1>7. CASE Book(w) \/ ReverseClaim(w) \/ Restore(w)
  <2>1. PICK p \in Payouts : p = task[w].payout
    BY <1>7, BusyType DEF Book, ReverseClaim, Restore
  <2>2. p \in Undisturbed => Len(transfers[p]) = 1
    BY <1>7, <2>1, Known DEF Book, ReverseClaim, Restore, RowInv, WorkerInv
  <2>3. /\ UNCHANGED <<debits, refunds, transfers, overtaken, timedOut>>
        /\ \E from, to : UpdateFrom(p, from, to)
    BY <1>7, <2>1 DEF Book, ReverseClaim, Restore
  <2> QED BY <2>2, <2>3, UpdateSettled, Stutter
<1>8. CASE CronClaim(w)
  BY <1>1, <1>8, BusyType, ClaimEffect, Stutter DEF CronClaim, Settled, Undisturbed
<1>9. CASE Insert(w)
  <2>1. PICK p \in Payouts : p = task[w].payout
    BY <1>9, BusyType DEF Insert
  <2>2. p \in Undisturbed => rows[p].status = "none"
    BY <1>9, <2>1, Known DEF Insert, WorkerInv
  <2>3. rows'[p].status = "pending" /\ \A q \in Payouts \ {p} : rows'[q] = rows[q]
    BY <1>9, <2>1 DEF Insert, TypeOK
  <2> QED BY <1>9, <2>2, <2>3, Stutter DEF Insert, Settled, Undisturbed
<1>10. CASE Settle(w)
  <2>1. PICK p \in Payouts : p = task[w].payout
    BY <1>10, BusyType DEF Settle
  <2>2. p \in Undisturbed => Len(transfers[p]) = 1
    BY <1>10, <2>1, Known DEF Settle, WorkerInv
  <2>3. \A q \in Payouts \ {p} : rows'[q] = rows[q]
    BY <1>10, <2>1 DEF Settle, TypeOK
  <2>4. UNCHANGED <<debits, refunds, transfers, overtaken, timedOut>>
    BY <1>10 DEF Settle
  <2>5. \A q \in Payouts : Settled(q)
    BY <2>2, <2>3, <2>4 DEF Settled, Undisturbed
  <2> QED BY <2>5, Stutter
<1>11. CASE Record(w)
  <2>1. \A q \in Payouts : rows'[q].status = rows[q].status
    BY <1>11 DEF Record, TypeOK, Rows
  <2> QED BY <1>11, <2>1, Stutter DEF Record, Settled, Undisturbed
<1>12. CASE Mark(w)
  <2>1. PICK p \in Payouts : p = task[w].payout
    BY <1>12, BusyType DEF Mark
  <2>2. \A q \in Payouts \ {p} : Settled(q)
    BY <1>12, <2>1 DEF Mark, Settled, Undisturbed, TypeOK
  <2>3. CASE p \in overtaken' \cup timedOut'
    <3>1. Place(p)' = "void"
      BY <2>3 DEF Place, Undisturbed
    <3> QED BY <2>2, <3>1, OneMove
  <2>4. CASE p \notin overtaken' \cup timedOut'
    <3>1. rows[p].status = "pending" /\ rows'[p].status = "processing"
      BY <1>12, <2>1, <2>4 DEF Mark, TypeOK
    <3>2. Settled(p)
      BY <1>12, <2>1, <2>4, <3>1 DEF Mark, Settled, Undisturbed
    <3> QED BY <2>2, <3>2, Stutter
  <2> QED BY <2>3, <2>4
<1>13. CASE TransferRefused(w) \/ ApproveLoad(w) \/ LocateFound(w) \/ LocateMissing(w)
            \/ RetrieveSettled(w) \/ RetrieveUnsettled(w) \/ FindPaid(w) \/ FindFailed(w)
  BY <1>1, <1>13 DEF TransferRefused, ApproveLoad, LocateFound, LocateMissing,
     RetrieveSettled, RetrieveUnsettled, FindPaid, FindFailed
<1> QED BY <1>2, <1>3, <1>4, <1>5, <1>6, <1>7, <1>8, <1>9, <1>10, <1>11, <1>12, <1>13
        DEF Continue

(* Stripe and the bank: a transfer is paid, or comes back into custody.    *)
LEMMA StripeEscrow ==
  ASSUME TypeOK, SafetyInv, NEW p \in Payouts, StripeSettles(p) \/ BankReturns(p)
  PROVE  [Custody!Next]_[q \in Payouts |-> Place(q)]
<1> USE DEF money, world, history
<1>1. /\ UNCHANGED <<rows, debits, refunds, overtaken, timedOut>>
      /\ \A q \in Payouts \ {p} : transfers'[q] = transfers[q]
  BY DEF StripeSettles, BankReturns, TypeOK
<1>2. \A q \in Payouts \ {p} : Settled(q)
  BY <1>1 DEF Settled, Undisturbed
<1>3. CASE p \notin Undisturbed
  <2>1. Place(p)' = "void"
    BY <1>1, <1>3 DEF Place, Undisturbed
  <2> QED BY <1>2, <2>1, OneMove
<1>4. CASE p \in Undisturbed
  <2>1. RowInv(p)
    BY <1>4 DEF SafetyInv, Undisturbed, PayoutInv
  <2>2. PICK t \in 1..Len(transfers[p]), state \in TransferStates :
          /\ transfers[p][t] \in {"pending", "paid"}
          /\ transfers' = [transfers EXCEPT ![p][t] = state]
    BY DEF StripeSettles, BankReturns, TransferStates
  <2>3. Len(transfers[p]) = 1 /\ t = 1
    BY <2>1, <2>2 DEF RowInv, TypeOK
  <2>4. Live(p)
    BY <2>2, <2>3 DEF Live
  <2>5. Len(transfers'[p]) = 1
    <3>1. transfers'[p] = [transfers[p] EXCEPT ![t] = state]
      BY <2>2 DEF TypeOK
    <3>2. transfers[p] \in Seq(TransferStates)
      BY DEF TypeOK
    <3> QED BY <2>3, <3>1, <3>2
  <2>6. p \in Undisturbed' /\ Place(p) \in {"none", "returned", "sent"}
    BY <1>1, <1>4, <2>4 DEF Place, Undisturbed
  <2>7. Place(p)' \in (IF Place(p) = "sent" THEN {"sent", "held"} ELSE {Place(p)})
    BY <1>1, <1>4, <2>4, <2>5 DEF Place, Undisturbed
  <2> QED BY <1>2, <2>6, <2>7, OneMove
<1> QED BY <1>3, <1>4

(* Every step of the service moves the amounts as the escrow may.          *)
LEMMA NextEscrow ==
  ASSUME TypeOK, SafetyInv, [Next]_vars
  PROVE  [Custody!Next]_[p \in Payouts |-> Place(p)]
<1> USE DEF money, world, history
<1>1. ASSUME NEW w \in Workers, NEW p \in Payouts, Begin(w, p)
      PROVE [Custody!Next]_[q \in Payouts |-> Place(q)]
  BY <1>1, BeginSettled, Stutter
<1>2. ASSUME NEW w \in Workers, Faulty(w)
      PROVE [Custody!Next]_[q \in Payouts |-> Place(q)]
  <2>1. CASE TransferTimesOut(w)
    BY <2>1, SendStep
  <2>2. CASE DecisionFails(w) \/ ReverseCreditFails(w) \/ Crash(w)
    BY <2>2, Stutter DEF DecisionFails, ReverseCreditFails, Crash, Settled, Undisturbed
  <2> QED BY <1>2, <2>1, <2>2 DEF Faulty
<1>3. CASE Environment
  <2>1. ASSUME NEW p \in Payouts, DueDatePasses(p)
        PROVE [Custody!Next]_[q \in Payouts |-> Place(q)]
    <3>1. \A q \in Payouts : rows'[q].status = rows[q].status
      BY <2>1 DEF DueDatePasses, TypeOK, Rows
    <3> QED BY <2>1, <3>1, Stutter DEF DueDatePasses, Settled, Undisturbed
  <2>2. CASE AccountUpdated
    BY <2>2, Stutter DEF AccountUpdated, Settled, Undisturbed
  <2> QED BY <1>3, <2>1, <2>2, StripeEscrow DEF Environment
<1>4. CASE UNCHANGED vars
  BY <1>4, Stutter DEF vars, Settled, Undisturbed
<1> QED BY <1>1, <1>2, <1>3, <1>4, ContinueEscrow DEF Next

(* The payout service is an escrow: whatever requests, admins, crons,      *)
(* webhooks, reconciliation, crashes and timeouts do, the amount of a      *)
(* payout is in one place and moves only the way Escrow describes, until   *)
(* one of the two named windows voids the payout.                          *)
THEOREM PayoutsAreEscrow == Spec => ImplementsEscrow
<1>1. Init => Custody!Init
  BY DEF Init, Custody!Init, Place, Undisturbed
<1>2. TypeOK /\ SafetyInv /\ [Next]_vars => [Custody!Next]_[p \in Payouts |-> Place(p)]
  BY NextEscrow
<1> QED BY <1>1, <1>2, PayoutTypes, PayoutSafety, PTL DEF Spec, ImplementsEscrow, Custody!Spec
---------------------------------------------------------------------------
(* Without Stripe Connect nobody marks or transfers, so that neither of    *)
(* the two windows opens.                                                  *)
Calm(t) == t.mode # "stripe" /\ t.step \notin {"marking", "transferring"}

ManualInv ==
    /\ overtaken = {} /\ timedOut = {}
    /\ \A w \in Workers : Calm(task[w])

LEMMA CalmTask ==
  ASSUME TypeOK, ManualInv, NEW w \in Workers, NEW t, Calm(t),
         task' = [task EXCEPT ![w] = t], UNCHANGED <<overtaken, timedOut>>
  PROVE  ManualInv'
  BY DEF ManualInv, TypeOK

LEMMA CalmStep ==
  ASSUME TypeOK, ManualInv, NEW w \in Workers, NEW s, s \notin {"marking", "transferring"},
         task' = [task EXCEPT ![w].step = s], UNCHANGED <<overtaken, timedOut>>
  PROVE  ManualInv'
<1>1. Calm([task[w] EXCEPT !.step = s])
  BY DEF ManualInv, Calm, TypeOK, Tasks
<1> QED BY <1>1, CalmTask

LEMMA ManualBegin ==
  ASSUME ~ConnectEnabled, TypeOK, ManualInv, NEW w \in Workers, NEW p \in Payouts, Begin(w, p)
  PROVE  ManualInv'
<1> USE DEF history
<1>1. ASSUME NEW mode \in Modes, Request(w, p, mode) PROVE ManualInv'
  <2>1. mode # "stripe"
    BY <1>1 DEF Request
  <2>2. Calm([[Idle EXCEPT !.step = "debiting", !.mode = mode] EXCEPT !.payout = p])
    BY <2>1 DEF Idle, Calm
  <2> QED BY <1>1, <2>2, CalmTask DEF Request, Start
<1>2. CASE ApproveClaim(w, p) \/ RejectClaim(w, p)
  <2>1. /\ Calm([[Idle EXCEPT !.step = "loading"] EXCEPT !.payout = p])
        /\ Calm([[Idle EXCEPT !.step = "rejecting"] EXCEPT !.payout = p])
    BY DEF Idle, Calm
  <2> QED BY <1>2, <2>1, CalmTask DEF ApproveClaim, RejectClaim, Start
<1>3. Calm(BookingTask(p)) /\ Calm(ReversalTask(p))
  BY DEF BookingTask, ReversalTask, Idle, Calm
<1>4. CASE PaidEvent(w, p) \/ FailedEvent(w, p)
  BY <1>3, <1>4, CalmTask DEF PaidEvent, FailedEvent
<1> QED BY <1>1, <1>2, <1>4 DEF Begin, CronList, ReconcileList

LEMMA ManualContinue ==
  ASSUME ~ConnectEnabled, TypeOK, ManualInv, NEW w \in Workers, Continue(w)
  PROVE  ManualInv'
<1> USE DEF history, At, Goto
<1>1. Calm(Idle) /\ (Done(w) => task' = [task EXCEPT ![w] = Idle])
  BY DEF Idle, Calm, Done
<1>2. ~(Mark(w) \/ TransferMade(w) \/ TransferRefused(w))
  BY DEF Mark, TransferMade, TransferRefused, ManualInv, Calm
<1>3. CASE Debit(w) \/ Insert(w)
  <2>1. task[w].mode # "stripe"
    BY DEF ManualInv, Calm
  <2> QED BY <1>1, <1>3, <2>1, CalmTask, CalmStep DEF Debit, Insert
<1>4. CASE Settle(w) \/ MarkFailed(w) \/ PayManually(w) \/ Close(w) \/ Unclaim(w) \/ Book(w)
           \/ FinishReversal(w) \/ Restore(w) \/ LocateMissing(w) \/ RetrieveUnsettled(w)
  BY <1>1, <1>4, CalmTask DEF Settle, MarkFailed, PayManually, Close, Unclaim, Book,
     FinishReversal, Restore, LocateMissing, RetrieveUnsettled
<1>5. CASE Refund(w) \/ CronClaim(w) \/ ApproveLoad(w) \/ RejectCredit(w) \/ ReverseClaim(w)
           \/ ReverseCredit(w) \/ Record(w) \/ RetrieveSettled(w)
  BY <1>1, <1>5, CalmTask, CalmStep DEF Refund, CronClaim, ApproveLoad, RejectCredit,
     ReverseClaim, ReverseCredit, Record, RetrieveSettled
<1>6. CASE LocateFound(w)
  <2>1. PICK t \in 1..Len(transfers[task[w].payout]) :
          task' = [task EXCEPT ![w].step = "recording", ![w].transfer = t]
    BY <1>6 DEF LocateFound
  <2>2. Calm([task[w] EXCEPT !.step = "recording", !.transfer = t])
    BY DEF Calm, ManualInv, TypeOK, Tasks
  <2>3. task' = [task EXCEPT ![w] = [task[w] EXCEPT !.step = "recording", !.transfer = t]]
    BY <2>1 DEF TypeOK
  <2> QED BY <1>6, <2>2, <2>3, CalmTask DEF LocateFound
<1>7. CASE FindPaid(w) \/ FindFailed(w)
  <2>1. Calm(BookingTask(task[w].payout)) /\ Calm(ReversalTask(task[w].payout))
    BY DEF BookingTask, ReversalTask, Idle, Calm
  <2> QED BY <1>7, <2>1, CalmTask DEF FindPaid, FindFailed
<1> QED BY <1>2, <1>3, <1>4, <1>5, <1>6, <1>7 DEF Continue

LEMMA ManualNext ==
  ASSUME ~ConnectEnabled, TypeOK, ManualInv, [Next]_vars
  PROVE  ManualInv'
<1> USE DEF history
<1>1. ASSUME NEW w \in Workers, Faulty(w) PROVE ManualInv'
  <2>1. ~TransferTimesOut(w)
    BY DEF TransferTimesOut, At, ManualInv, Calm
  <2>2. Calm(Idle) /\ (Done(w) => task' = [task EXCEPT ![w] = Idle])
    BY DEF Idle, Calm, Done
  <2> QED BY <1>1, <2>1, <2>2, CalmTask, CalmStep DEF Faulty, DecisionFails,
         ReverseCreditFails, Crash, Goto
<1>2. CASE Environment \/ UNCHANGED vars
  BY <1>2 DEF Environment, StripeSettles, BankReturns, DueDatePasses, AccountUpdated, vars,
     ManualInv
<1> QED BY <1>1, <1>2, ManualBegin, ManualContinue DEF Next

(* On an instance without Stripe Connect neither window exists: of every   *)
(* payout the amount is taken and given back at most once, however many    *)
(* requests, approvals, rejections, crashes and failed statements meet.    *)
THEOREM ManualMovesOnce ==
  ASSUME ~ConnectEnabled
  PROVE  Spec => [](Undisturbed = Payouts /\ MoneyMovesOnce)
<1>1. Init => ManualInv
  BY DEF Init, ManualInv, Idle, Calm
<1>2. TypeOK /\ ManualInv /\ [Next]_vars => ManualInv'
  BY ManualNext
<1>3. ManualInv => Undisturbed = Payouts
  BY DEF ManualInv, Undisturbed
<1> QED BY <1>1, <1>2, <1>3, PayoutTypes, PayoutsMoveOnce, PTL DEF Spec
=============================================================================
