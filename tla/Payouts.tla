------------------------------- MODULE Payouts -------------------------------
(***************************************************************************)
(* Creator payouts: server/src/payments/payments.service.ts (requestPayout *)
(* to syncPayoutWithStripe) and reconciliation.service.ts.                 *)
(*                                                                         *)
(* A payout debits the creator's wallet, waits for an admin, a due date or *)
(* neither, becomes a Stripe transfer or a manual settlement, and is       *)
(* finished or reversed by the request itself, by Stripe's webhooks or by  *)
(* the reconciliation job.  The service runs on two replicas: a request, a *)
(* webhook delivery and a run of a cron job are each a worker that takes   *)
(* one step per await, so any two interleave.  A wallet movement is one    *)
(* atomic step, as module Wallet shows.                                    *)
(*                                                                         *)
(* One creator, and every payout is of one unit of money.                  *)
(***************************************************************************)
EXTENDS Integers, Sequences, FiniteSets

CONSTANTS
    Payouts,         \* payout references (randomUUID: each is requested once)
    Workers,         \* concurrent handlers, over all replicas
    NoPayout,        \* an idle worker's payout
    ConnectEnabled,  \* STRIPE_CONNECT_ENABLED
    Funds,           \* the creator's balance at the start
    MaxTransfers,    \* bound of the model: transfers per payout
    MaxFaults        \* bound of the model: crashes, timeouts, failed statements

ASSUME PayoutsAssumption == NoPayout \notin Payouts
ASSUME ConnectAssumption == ConnectEnabled \in BOOLEAN
ASSUME BoundsAssumption == Funds \in Nat /\ MaxTransfers \in Nat /\ MaxFaults \in Nat

VARIABLES
    rows,       \* rows[p]: the payouts table
    debits,     \* debits[p]: ledger rows that took p's amount from the wallet
    refunds,    \* refunds[p]: ledger rows that gave it back (payout_reversal)
    balance,    \* the creator's wallet
    ready,      \* the creator has a Connect account that accepts payouts
    transfers,  \* transfers[p]: the Stripe transfers made for p, and their state
    task,       \* task[w]: what a worker is doing
    faults,     \* faults injected so far
    overtaken,  \* history: payouts decided before their request marked them
    timedOut    \* history: payouts whose transfer was made but reported as failed

vars == <<rows, debits, refunds, balance, ready, transfers, task, faults,
          overtaken, timedOut>>
money == <<debits, refunds, balance>>
world == <<ready, transfers>>
history == <<faults, overtaken, timedOut>>

(* PayoutStatus, and "none" for a reference with no row.                   *)
Statuses == {"none", "pending", "processing", "reversing", "paid", "rejected", "failed"}

(* dueAt: NULL, in the future, or passed.                                  *)
DueDates == {"null", "later", "passed"}

(* A transfer at Stripe.  A returned one was paid first and failed later.  *)
TransferStates == {"pending", "paid", "failed", "returned"}

Steps == {"idle",
          "debiting", "inserting", "marking",              \* requestPayout, schedulePayout
          "claiming", "loading", "paying", "unclaiming",   \* autoProcess, approvePayout
          "transferring", "settling", "refunding", "failing",
          "rejecting", "closing",                          \* rejectPayout
          "booking",                                       \* markPayoutPaid
          "reversing", "crediting", "finishing", "restoring",  \* reversePayout
          "locating", "recording", "retrieving", "findingPaid", "findingFailed"}

Modes == {"none", "manual", "stripe", "scheduled"}

Rows == [status: Statuses, transfer: 0..MaxTransfers, due: DueDates]

Tasks == [step: Steps, payout: Payouts \cup {NoPayout}, mode: Modes,
          seen: Statuses, transfer: 0..MaxTransfers]

Idle == [step |-> "idle", payout |-> NoPayout, mode |-> "none",
         seen |-> "none", transfer |-> 0]

Init ==
    /\ rows = [p \in Payouts |-> [status |-> "none", transfer |-> 0, due |-> "null"]]
    /\ debits = [p \in Payouts |-> 0]
    /\ refunds = [p \in Payouts |-> 0]
    /\ balance = Funds
    /\ ready \in BOOLEAN
    /\ transfers = [p \in Payouts |-> << >>]
    /\ task = [w \in Workers |-> Idle]
    /\ faults = 0
    /\ overtaken = {}
    /\ timedOut = {}

Start(w, p, t) ==
    /\ task[w].step = "idle"
    /\ task' = [task EXCEPT ![w] = [t EXCEPT !.payout = p]]

At(w, s) == task[w].step = s

Goto(w, s) == task' = [task EXCEPT ![w].step = s]

Done(w) == task' = [task EXCEPT ![w] = Idle]

(* A statement, a call or a process fails.                                 *)
Fault == /\ faults < MaxFaults
         /\ faults' = faults + 1

(* updatePayoutFromStatus: UPDATE ... WHERE status = from.  It affects no  *)
(* row when the status has changed.                                        *)
UpdateFrom(p, from, to) ==
    rows' = IF rows[p].status = from
            THEN [rows EXCEPT ![p].status = to]
            ELSE rows

(* WalletService.credit of the payout's amount back to the creator.        *)
Credit(p) ==
    /\ refunds' = [refunds EXCEPT ![p] = @ + 1]
    /\ balance' = balance + 1
    /\ UNCHANGED debits

---------------------------------------------------------------------------
(* requestPayout and schedulePayout.                                       *)

(* The creator is loaded; whether Stripe can pay them is remembered.       *)
Request(w, p, mode) ==
    /\ rows[p].status = "none" /\ debits[p] = 0
    /\ \A v \in Workers : task[v].payout # p
    /\ mode = "scheduled"
       \/ mode = (IF ConnectEnabled /\ ready THEN "stripe" ELSE "manual")
    /\ Start(w, p, [Idle EXCEPT !.step = "debiting", !.mode = mode])
    /\ UNCHANGED <<rows, money, world, history>>

(* "Debit first": without the funds it throws and there is no row.         *)
Debit(w) ==
    LET p == task[w].payout
    IN  /\ At(w, "debiting")
        /\ IF balance >= 1
           THEN /\ balance' = balance - 1
                /\ debits' = [debits EXCEPT ![p] = @ + 1]
                /\ Goto(w, "inserting")
           ELSE Done(w) /\ UNCHANGED <<balance, debits>>
        /\ UNCHANGED <<rows, refunds, world, history>>

Insert(w) ==
    LET p == task[w].payout
        mode == task[w].mode
    IN  /\ At(w, "inserting")
        /\ rows' = [rows EXCEPT ![p] =
             [status |-> "pending", transfer |-> 0,
              due |-> IF mode = "scheduled" THEN "later" ELSE "null"]]
        /\ IF mode = "stripe" THEN Goto(w, "marking") ELSE Done(w)
        /\ UNCHANGED <<money, world, history>>

(* The request saves its own entity as processing: no claim, whatever an   *)
(* admin has made of the pending row since.                                *)
Mark(w) ==
    LET p == task[w].payout
    IN  /\ At(w, "marking")
        /\ rows' = [rows EXCEPT ![p].status = "processing", ![p].transfer = 0]
        /\ overtaken' = IF rows[p].status = "pending" THEN overtaken ELSE overtaken \cup {p}
        /\ Goto(w, "transferring")
        /\ UNCHANGED <<money, world, faults, timedOut>>

---------------------------------------------------------------------------
(* stripe.transfers.create and what follows it, the same in requestPayout  *)
(* and in approvePayout.                                                   *)

TransferMade(w) ==
    LET p == task[w].payout
    IN  /\ At(w, "transferring")
        /\ Len(transfers[p]) < MaxTransfers
        /\ transfers' = [transfers EXCEPT ![p] = Append(@, "pending")]
        /\ task' = [task EXCEPT ![w].step = "settling",
                                ![w].transfer = Len(transfers[p]) + 1]
        /\ UNCHANGED <<rows, money, ready, history>>

TransferRefused(w) ==
    /\ At(w, "transferring")
    /\ Goto(w, "refunding")
    /\ UNCHANGED <<rows, money, world, history>>

(* The answer is lost: the call throws although the transfer exists.       *)
TransferTimesOut(w) ==
    LET p == task[w].payout
    IN  /\ At(w, "transferring")
        /\ Len(transfers[p]) < MaxTransfers
        /\ transfers' = [transfers EXCEPT ![p] = Append(@, "pending")]
        /\ timedOut' = timedOut \cup {p}
        /\ Goto(w, "refunding")
        /\ Fault
        /\ UNCHANGED <<rows, money, ready, overtaken>>

Settle(w) ==
    LET p == task[w].payout
    IN  /\ At(w, "settling")
        /\ rows' = IF rows[p].status = "processing"
                   THEN [rows EXCEPT ![p].status = "paid",
                                     ![p].transfer = task[w].transfer]
                   ELSE rows
        /\ Done(w)
        /\ UNCHANGED <<money, world, history>>

(* The catch branch credits first and closes the row second.               *)
Refund(w) ==
    /\ At(w, "refunding")
    /\ Credit(task[w].payout)
    /\ Goto(w, "failing")
    /\ UNCHANGED <<rows, world, history>>

MarkFailed(w) ==
    /\ At(w, "failing")
    /\ UpdateFrom(task[w].payout, "processing", "failed")
    /\ Done(w)
    /\ UNCHANGED <<money, world, history>>

---------------------------------------------------------------------------
(* Admin decisions and the cron of due payouts.                            *)

(* Variant: a row that is being processed can be claimed again.            *)
ClaimAgain(p) ==
    /\ rows[p].status \in {"pending", "processing"}
    /\ rows' = [rows EXCEPT ![p].status = "processing"]

(* claimPendingPayout: of all who try, one moves the row to processing;    *)
(* for the others it throws.                                               *)
Claim(p) ==
    /\ rows[p].status = "pending"
    /\ rows' = [rows EXCEPT ![p].status = "processing"]

ApproveClaim(w, p) ==
    /\ Claim(p)
    /\ Start(w, p, [Idle EXCEPT !.step = "loading"])
    /\ UNCHANGED <<money, world, history>>

RejectClaim(w, p) ==
    /\ Claim(p)
    /\ Start(w, p, [Idle EXCEPT !.step = "rejecting"])
    /\ UNCHANGED <<money, world, history>>

(* autoProcessDuePayouts lists the due rows whose creator is ready ...     *)
CronList(w, p) ==
    /\ ConnectEnabled /\ ready
    /\ rows[p].status = "pending" /\ rows[p].due = "passed"
    /\ Start(w, p, [Idle EXCEPT !.step = "claiming"])
    /\ UNCHANGED <<rows, money, world, history>>

(* ... and approves each in turn, later.                                   *)
CronClaim(w) ==
    LET p == task[w].payout
    IN  /\ At(w, "claiming")
        /\ IF rows[p].status = "pending"
           THEN Claim(p) /\ Goto(w, "loading")
           ELSE Done(w) /\ UNCHANGED rows
        /\ UNCHANGED <<money, world, history>>

(* The claimed row is read with its creator.                               *)
ApproveLoad(w) ==
    /\ At(w, "loading")
    /\ Goto(w, IF ConnectEnabled /\ ready THEN "transferring" ELSE "paying")
    /\ UNCHANGED <<rows, money, world, history>>

PayManually(w) ==
    /\ At(w, "paying")
    /\ UpdateFrom(task[w].payout, "processing", "paid")
    /\ Done(w)
    /\ UNCHANGED <<money, world, history>>

RejectCredit(w) ==
    /\ At(w, "rejecting")
    /\ Credit(task[w].payout)
    /\ Goto(w, "closing")
    /\ UNCHANGED <<rows, world, history>>

Close(w) ==
    /\ At(w, "closing")
    /\ UpdateFrom(task[w].payout, "processing", "rejected")
    /\ Done(w)
    /\ UNCHANGED <<money, world, history>>

(* The statement of a manual payment or of a rejection's credit fails ...  *)
DecisionFails(w) ==
    /\ At(w, "paying") \/ At(w, "rejecting")
    /\ Goto(w, "unclaiming")
    /\ Fault
    /\ UNCHANGED <<rows, money, world, overtaken, timedOut>>

(* Variant: it also takes the credit back, which the transaction has undone.*)
UnclaimTakingBack(w) ==
    /\ At(w, "unclaiming")
    /\ UpdateFrom(task[w].payout, "processing", "pending")
    /\ balance' = balance - 1
    /\ Done(w)
    /\ UNCHANGED <<debits, refunds, world, history>>

(* ... and the row goes back to the queue.                                 *)
Unclaim(w) ==
    /\ At(w, "unclaiming")
    /\ UpdateFrom(task[w].payout, "processing", "pending")
    /\ Done(w)
    /\ UNCHANGED <<money, world, history>>

---------------------------------------------------------------------------
(* transfer.paid and transfer.failed, and the handlers they share with     *)
(* reconciliation.  findPayoutByTransfer reads the row, by the transfer's  *)
(* id or by the payout reference in its metadata: both name the same row.  *)

(* Variant: markPayoutPaid forgets that a failed payout is final.          *)
BookingTaskOfFailed(p) ==
    IF rows[p].status \in {"none", "paid", "reversing"}
    THEN Idle
    ELSE [Idle EXCEPT !.step = "booking", !.payout = p, !.seen = rows[p].status]

(* markPayoutPaid after its read: rows already decided are left alone.     *)
BookingTask(p) ==
    IF rows[p].status \in {"none", "paid", "failed", "reversing"}
    THEN Idle
    ELSE [Idle EXCEPT !.step = "booking", !.payout = p, !.seen = rows[p].status]

(* reversePayout after its read.                                           *)
ReversalTask(p) ==
    IF rows[p].status \in {"none", "failed", "rejected", "reversing"}
    THEN Idle
    ELSE [Idle EXCEPT !.step = "reversing", !.payout = p, !.seen = rows[p].status]

(* Stripe delivers an event at least once, late, and in any order.         *)
PaidEvent(w, p) ==
    /\ At(w, "idle")
    /\ \E t \in 1..Len(transfers[p]) : transfers[p][t] \in {"paid", "returned"}
    /\ task' = [task EXCEPT ![w] = BookingTask(p)]
    /\ UNCHANGED <<rows, money, world, history>>

FailedEvent(w, p) ==
    /\ At(w, "idle")
    /\ \E t \in 1..Len(transfers[p]) : transfers[p][t] \in {"failed", "returned"}
    /\ task' = [task EXCEPT ![w] = ReversalTask(p)]
    /\ UNCHANGED <<rows, money, world, history>>

Book(w) ==
    /\ At(w, "booking")
    /\ UpdateFrom(task[w].payout, task[w].seen, "paid")
    /\ Done(w)
    /\ UNCHANGED <<money, world, history>>

(* Variant: every delivery of the event goes on to credit.                 *)
ReverseClaimIgnored(w) ==
    LET p == task[w].payout
    IN  /\ At(w, "reversing")
        /\ UpdateFrom(p, task[w].seen, "reversing")
        /\ Goto(w, "crediting")
        /\ UNCHANGED <<money, world, history>>

(* The claim of a reversal: the status must still be the one that was read.*)
ReverseClaim(w) ==
    LET p == task[w].payout
    IN  /\ At(w, "reversing")
        /\ UpdateFrom(p, task[w].seen, "reversing")
        /\ IF rows[p].status = task[w].seen THEN Goto(w, "crediting") ELSE Done(w)
        /\ UNCHANGED <<money, world, history>>

ReverseCredit(w) ==
    /\ At(w, "crediting")
    /\ Credit(task[w].payout)
    /\ Goto(w, "finishing")
    /\ UNCHANGED <<rows, world, history>>

FinishReversal(w) ==
    /\ At(w, "finishing")
    /\ UpdateFrom(task[w].payout, "reversing", "failed")
    /\ Done(w)
    /\ UNCHANGED <<money, world, history>>

ReverseCreditFails(w) ==
    /\ At(w, "crediting")
    /\ Goto(w, "restoring")
    /\ Fault
    /\ UNCHANGED <<rows, money, world, overtaken, timedOut>>

Restore(w) ==
    /\ At(w, "restoring")
    /\ UpdateFrom(task[w].payout, "reversing", task[w].seen)
    /\ Done(w)
    /\ UNCHANGED <<money, world, history>>

---------------------------------------------------------------------------
(* reconcilePayouts: the list of processing rows, then one row at a time.  *)

(* Variant: no search for a transfer whose id was not saved.               *)
ReconcileListKnown(w, p) ==
    /\ ConnectEnabled
    /\ rows[p].status = "processing" /\ rows[p].transfer # 0
    /\ Start(w, p, [Idle EXCEPT !.step = "retrieving", !.transfer = rows[p].transfer])
    /\ UNCHANGED <<rows, money, world, history>>

ReconcileList(w, p) ==
    /\ ConnectEnabled
    /\ rows[p].status = "processing"
    /\ Start(w, p, [Idle EXCEPT
         !.step = IF rows[p].transfer = 0 THEN "locating" ELSE "retrieving",
         !.transfer = rows[p].transfer])
    /\ UNCHANGED <<rows, money, world, history>>

(* locateTransferByPayoutId searches the last day's transfers.             *)
LocateFound(w) ==
    /\ At(w, "locating")
    /\ \E t \in 1..Len(transfers[task[w].payout]) :
         task' = [task EXCEPT ![w].step = "recording", ![w].transfer = t]
    /\ UNCHANGED <<rows, money, world, history>>

(* There is none, it is too old, or the search fails.                      *)
LocateMissing(w) ==
    /\ At(w, "locating")
    /\ Done(w)
    /\ UNCHANGED <<rows, money, world, history>>

Record(w) ==
    LET p == task[w].payout
    IN  /\ At(w, "recording")
        /\ rows' = IF rows[p].status = "processing"
                   THEN [rows EXCEPT ![p].transfer = task[w].transfer]
                   ELSE rows
        /\ Goto(w, "retrieving")
        /\ UNCHANGED <<money, world, history>>

(* syncPayoutWithStripe asks Stripe, and passes what it hears to the       *)
(* handlers of the webhooks.                                               *)
RetrieveSettled(w) ==
    LET state == transfers[task[w].payout][task[w].transfer]
    IN  /\ At(w, "retrieving")
        /\ state # "pending"
        /\ Goto(w, IF state = "paid" THEN "findingPaid" ELSE "findingFailed")
        /\ UNCHANGED <<rows, money, world, history>>

RetrieveUnsettled(w) ==
    /\ At(w, "retrieving")
    /\ transfers[task[w].payout][task[w].transfer] = "pending"
    /\ Done(w)
    /\ UNCHANGED <<rows, money, world, history>>

FindPaid(w) ==
    /\ At(w, "findingPaid")
    /\ task' = [task EXCEPT ![w] = BookingTask(task[w].payout)]
    /\ UNCHANGED <<rows, money, world, history>>

FindFailed(w) ==
    /\ At(w, "findingFailed")
    /\ task' = [task EXCEPT ![w] = ReversalTask(task[w].payout)]
    /\ UNCHANGED <<rows, money, world, history>>

---------------------------------------------------------------------------
(* The world outside.                                                      *)

StripeSettles(p) ==
    /\ \E t \in 1..Len(transfers[p]), state \in {"paid", "failed"} :
         /\ transfers[p][t] = "pending"
         /\ transfers' = [transfers EXCEPT ![p][t] = state]
    /\ UNCHANGED <<rows, money, ready, task, history>>

(* The bank returns a transfer that Stripe had paid.                       *)
BankReturns(p) ==
    /\ \E t \in 1..Len(transfers[p]) :
         /\ transfers[p][t] = "paid"
         /\ transfers' = [transfers EXCEPT ![p][t] = "returned"]
    /\ UNCHANGED <<rows, money, ready, task, history>>

(* account.updated: the creator's account starts or stops taking payouts.  *)
AccountUpdated ==
    /\ ready' = ~ready
    /\ UNCHANGED <<rows, money, transfers, task, history>>

DueDatePasses(p) ==
    /\ rows[p].due = "later"
    /\ rows' = [rows EXCEPT ![p].due = "passed"]
    /\ UNCHANGED <<money, world, task, history>>

(* A replica stops, or a statement throws with nothing to catch it: the    *)
(* handler is gone and what it has committed stays.                        *)
Crash(w) ==
    /\ ~At(w, "idle")
    /\ Done(w)
    /\ Fault
    /\ UNCHANGED <<rows, money, world, overtaken, timedOut>>

---------------------------------------------------------------------------
(* Steps that begin the work of an idle worker on p.                       *)
Begin(w, p) ==
    \/ \E mode \in Modes : Request(w, p, mode)
    \/ ApproveClaim(w, p)
    \/ RejectClaim(w, p)
    \/ CronList(w, p)
    \/ PaidEvent(w, p)
    \/ FailedEvent(w, p)
    \/ ReconcileList(w, p)

(* Steps of a worker that is under way.                                    *)
Continue(w) ==
    \/ Debit(w) \/ Insert(w) \/ Mark(w)
    \/ TransferMade(w) \/ TransferRefused(w)
    \/ Settle(w) \/ Refund(w) \/ MarkFailed(w)
    \/ CronClaim(w) \/ ApproveLoad(w) \/ PayManually(w)
    \/ RejectCredit(w) \/ Close(w) \/ Unclaim(w)
    \/ Book(w)
    \/ ReverseClaim(w) \/ ReverseCredit(w) \/ FinishReversal(w) \/ Restore(w)
    \/ LocateFound(w) \/ LocateMissing(w) \/ Record(w)
    \/ RetrieveSettled(w) \/ RetrieveUnsettled(w) \/ FindPaid(w) \/ FindFailed(w)

Faulty(w) ==
    \/ TransferTimesOut(w)
    \/ DecisionFails(w)
    \/ ReverseCreditFails(w)
    \/ Crash(w)

Environment ==
    \/ \E p \in Payouts : StripeSettles(p) \/ BankReturns(p) \/ DueDatePasses(p)
    \/ AccountUpdated

Next ==
    \/ \E w \in Workers, p \in Payouts : Begin(w, p)
    \/ \E w \in Workers : Continue(w) \/ Faulty(w)
    \/ Environment

Spec == Init /\ [][Next]_vars

(* What the scheduling guarantees: a handler that runs goes on, Stripe     *)
(* settles its transfers and redelivers a failure until it is handled, and *)
(* the cron comes back to every processing row and finds its transfer.     *)
Fairness ==
    /\ \A w \in Workers : WF_vars(Continue(w)) /\ SF_vars(LocateFound(w))
    /\ \A p \in Payouts :
         /\ WF_vars(StripeSettles(p))
         /\ SF_vars(\E w \in Workers : FailedEvent(w, p))
         /\ SF_vars(\E w \in Workers : ReconcileList(w, p))

FairSpec == Spec /\ Fairness

---------------------------------------------------------------------------
(* Every variable has the shape the code gives it, and the wallet is never *)
(* overdrawn: requestPayout debits first, and a failed credit is undone.   *)
TypeOK ==
    /\ rows \in [Payouts -> Rows]
    /\ debits \in [Payouts -> Nat]
    /\ refunds \in [Payouts -> Nat]
    /\ balance \in Nat
    /\ ready \in BOOLEAN
    /\ transfers \in [Payouts -> Seq(TransferStates)]
    /\ \A p \in Payouts : Len(transfers[p]) <= MaxTransfers
    /\ task \in [Workers -> Tasks]
    /\ \A w \in Workers : task[w].step # "idle" => task[w].payout \in Payouts
    /\ faults \in 0..MaxFaults
    /\ overtaken \subseteq Payouts
    /\ timedOut \subseteq Payouts

(* A transfer that pays the creator, now or as soon as Stripe settles it.  *)
Live(p) == \E t \in 1..Len(transfers[p]) : transfers[p][t] \in {"pending", "paid"}

(* Two windows let a payout be decided twice: an admin acts on the pending *)
(* row before its own request marks it, and a transfer that was made is    *)
(* reported as failed.  Outside them every payout is sound.                *)
Undisturbed == Payouts \ (overtaken \cup timedOut)

(* payout.entity.ts: a failed transfer "is being refunded exactly once"    *)
(* and a rejected payout is refunded: never twice, whatever webhooks,      *)
(* crons, admins and crashes meet.                                         *)
RefundedAtMostOnce == \A p \in Undisturbed : refunds[p] <= debits[p] /\ debits[p] <= 1

(* The creator never has both the money and the refund: a refunded payout  *)
(* has no live transfer and is not paid.                                   *)
NeverPaidAndRefunded ==
    \A p \in Undisturbed : refunds[p] > 0 => ~Live(p) /\ rows[p].status # "paid"

(* One payout is sent to Stripe at most once.                              *)
OneTransfer == \A p \in Undisturbed : Len(transfers[p]) <= 1

(* "rejected" and "failed" say that the wallet was refunded: it was.       *)
RefusalIsRefunded ==
    \A p \in Undisturbed : rows[p].status \in {"rejected", "failed"} => refunds[p] = 1

(* Over all of these, the amount of an undisturbed payout is taken, sent   *)
(* and given back at most once, and never both sent and given back.        *)
MoneyMovesOnce ==
    RefundedAtMostOnce /\ NeverPaidAndRefunded /\ OneTransfer /\ RefusalIsRefunded

(* A decision stays: a rejected or failed payout never changes again, and  *)
(* a paid one changes only because its transfer failed at Stripe.          *)
DecisionsStay ==
    [][\A p \in Payouts \ (overtaken' \cup timedOut') :
         /\ rows[p].status \in {"rejected", "failed"} => rows'[p].status = rows[p].status
         /\ rows[p].status = "paid" => rows'[p].status \in {"paid", "reversing"}]_vars

(* reconciliation: "drives stray 'processing' payouts to a final state     *)
(* based on the actual Stripe transfer", also after a crash lost the       *)
(* transfer's id.                                                          *)
SettledIsReconciled ==
    \A p \in Payouts :
        p \in Undisturbed /\ rows[p].status = "processing" /\ Len(transfers[p]) = 1
            ~> rows[p].status \in {"paid", "failed", "reversing"} \/ p \notin Undisturbed

(* Where the amount of a payout is, as module Escrow sees it: with Stripe  *)
(* while a transfer is live, handed over when the row is paid without one. *)
Place(p) ==
    IF p \notin Undisturbed THEN "void"
    ELSE IF refunds[p] > 0 THEN "returned"
    ELSE IF debits[p] = 0 THEN "none"
    ELSE IF Live(p) THEN "sent"
    ELSE IF rows[p].status = "paid" /\ Len(transfers[p]) = 0 THEN "handed"
    ELSE "held"

Custody == INSTANCE Escrow WITH place <- [p \in Payouts |-> Place(p)]

(* The service is an escrow: under every interleaving of requests, admins, *)
(* crons, webhooks, reconciliation and faults, the amount of an undisturbed*)
(* payout moves only as module Escrow allows, so that it is never in two   *)
(* places and never leaves the one where it was handed over or returned.   *)
ImplementsEscrow == Custody!Spec
=============================================================================
