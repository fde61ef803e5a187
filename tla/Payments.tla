------------------------------ MODULE Payments ------------------------------
(***************************************************************************)
(* Card payments: server/src/payments/payments.service.ts (processPayment, *)
(* confirmPayment, handleChargeRefunded and the handlers they share) and   *)
(* what a payment is fulfilled with: a tip, server/src/tipping/tipping.    *)
(* service.ts, or the subscription of one subscriber to one tier of one    *)
(* creator, server/src/subscriptions/subscriptions.service.ts.             *)
(*                                                                         *)
(* A payment is a row beside a Stripe payment intent.  The request that    *)
(* created it, the client's confirmation and Stripe's webhooks all drive   *)
(* it, on two replicas and without a lock: each handler reads the row,     *)
(* works on its copy with an await between any two steps, and saves the    *)
(* copy.  TypeORM writes every column that differs, and status and         *)
(* metadata always travel together: a save replaces the whole row.         *)
(*                                                                         *)
(* Money is counted in portions of a payment: the recipient's share and    *)
(* the platform's fee have Gross portions each; how a share is rounded to  *)
(* cents is left out.                                                      *)
(***************************************************************************)
EXTENDS Integers

CONSTANTS
    Payments,    \* payment intents
    Workers,     \* concurrent handlers, over all replicas
    NoPayment,   \* an idle worker's payment
    Gross,       \* portions of a payment: what can be refunded separately
    MaxRaces,    \* bound of the model: overlapping handlers per payment
    MaxFaults    \* bound of the model: stopped handlers and failed statements

ASSUME PaymentsAssumption == NoPayment \notin Payments
ASSUME GrossAssumption == Gross \in Nat \ {0} /\ MaxRaces \in Nat /\ MaxFaults \in Nat

VARIABLES
    intent,    \* intent[p]: the payment intent at Stripe
    declined,  \* payments of which an attempt was declined
    returned,  \* returned[p]: charge.amount_refunded at Stripe
    rows,      \* rows[p]: the payment_transactions table
    credits,   \* credits[p]: times the recipient was credited
    fees,      \* fees[p]: times the platform was credited
    back,      \* back[p]: portions taken back from the recipient
    feeBack,   \* feeBack[p]: portions taken back from the platform
    purpose,   \* purpose[p]: metadata.fulfillmentType
    granted,   \* granted[p]: tips, or subscriptions, inserted for p
    active,    \* active[p]: those subscriptions whose status is active
    task,      \* task[w]: what a worker is doing
    faults,    \* faults injected so far
    races,     \* races[p]: history, handlers that began while another worked on p
    torn,      \* history: payments a handler left between the money and its note
    lapsed     \* history: payments whose subscription was canceled before the
               \*   row noted its fulfilment

vars == <<intent, declined, returned, rows, credits, fees, back, feeBack,
          purpose, granted, active, task, faults, races, torn, lapsed>>
stripe == <<intent, declined, returned>>
wallets == <<credits, fees, back, feeBack>>
goods == <<purpose, granted, active>>
history == <<faults, races, torn, lapsed>>

Statuses == {"none", "open", "succeeded", "failed", "canceled",
             "partially_refunded", "refunded"}

(* status, and of the metadata: recipientCredited, refundedGross and       *)
(* fulfillmentStatus.                                                      *)
Rows == [status: Statuses, credited: BOOLEAN, refunded: 0..Gross, fulfilled: BOOLEAN]

NoRow == [status |-> "none", credited |-> FALSE, refunded |-> 0, fulfilled |-> FALSE]

Steps == {"idle", "saving",
          "marking", "crediting", "creditingPlatform", "noting",
          "looking", "creating", "completing",
          "failing", "canceling",
          "debiting", "debitingPlatform", "closing"}

Origins == {"event", "request", "fallback"}

(* copy: the entity the handler read; amount: the event's amount_refunded. *)
Tasks == [step: Steps, payment: Payments \cup {NoPayment}, origin: Origins,
          copy: Rows, amount: 0..Gross]

Idle == [step |-> "idle", payment |-> NoPayment, origin |-> "event",
         copy |-> NoRow, amount |-> 0]

Init ==
    /\ intent = [p \in Payments |-> "none"]
    /\ declined = {}
    /\ returned = [p \in Payments |-> 0]
    /\ rows = [p \in Payments |-> NoRow]
    /\ credits = [p \in Payments |-> 0]
    /\ fees = [p \in Payments |-> 0]
    /\ back = [p \in Payments |-> 0]
    /\ feeBack = [p \in Payments |-> 0]
    /\ purpose = [p \in Payments |-> "tip"]
    /\ granted = [p \in Payments |-> 0]
    /\ active = [p \in Payments |-> 0]
    /\ task = [w \in Workers |-> Idle]
    /\ faults = 0
    /\ races = [p \in Payments |-> 0]
    /\ torn = {}
    /\ lapsed = {}

At(w, s) == task[w].step = s

Done(w) == task' = [task EXCEPT ![w] = Idle]

Goto(w, s) == IF s = "idle" THEN Done(w) ELSE task' = [task EXCEPT ![w].step = s]

(* The tier has an active subscription of the subscriber; whether it       *)
(* expired is not looked at.                                               *)
Subscribed == \E q \in Payments : active[q] > 0

(* Nobody is working on p.                                                 *)
Quiet(p) == \A w \in Workers : task[w].payment # p

(* A handler of p has read the row; it goes on unless its guards end it.   *)
Start(w, p, s, amount) ==
    /\ At(w, "idle")
    /\ IF s = "idle"
       THEN UNCHANGED <<task, races>>
       ELSE /\ task' = [task EXCEPT ![w] = [Idle EXCEPT !.step = s, !.payment = p,
                                                        !.copy = rows[p], !.amount = amount]]
            /\ IF Quiet(p) THEN UNCHANGED races
               ELSE races[p] < MaxRaces /\ races' = [races EXCEPT ![p] = @ + 1]
    /\ UNCHANGED <<stripe, rows, wallets, goods, faults, torn, lapsed>>

(* The handler changes its copy, saves it and goes on.                     *)
SaveCopy(w, copy, s) ==
    /\ rows' = [rows EXCEPT ![task[w].payment] = copy]
    /\ task' = IF s = "idle" THEN [task EXCEPT ![w] = Idle]
               ELSE [task EXCEPT ![w].copy = copy, ![w].step = s]
    /\ UNCHANGED <<stripe, wallets, goods, history>>

---------------------------------------------------------------------------
(* createFiatTip and createSubscription (which pays only if no active      *)
(* subscription is there), and processPayment: the intent, then the row.   *)

CreateIntent(w, p) ==
    /\ At(w, "idle")
    /\ intent[p] = "none"
    /\ \/ purpose' = [purpose EXCEPT ![p] = "tip"]
       \/ purpose' = [purpose EXCEPT ![p] = "subscription"] /\ ~Subscribed
    /\ \E outcome \in {"open", "succeeded"} :
         /\ intent' = [intent EXCEPT ![p] = outcome]
         /\ task' = [task EXCEPT ![w] = [Idle EXCEPT !.step = "saving", !.payment = p,
                       !.origin = "request", !.copy = [NoRow EXCEPT !.status = outcome]]]
    /\ UNCHANGED <<declined, returned, rows, wallets, granted, active, history>>

(* With a row of an intent that succeeded at once, the request confirms.   *)
SaveNew(w) ==
    /\ At(w, "saving")
    /\ SaveCopy(w, task[w].copy,
                IF task[w].copy.status = "succeeded" THEN "crediting" ELSE "idle")

---------------------------------------------------------------------------
(* confirmPaymentSucceeded.                                                *)

(* Variant: the note of the credit is not looked at.                       *)
ConfirmStepUnnoted(row) ==
    CASE row.status \in {"none", "refunded", "partially_refunded"} -> "idle"
      [] row.status \in {"open", "failed", "canceled"} -> "marking"
      [] OTHER -> "crediting"

(* Variant: a payment that is marked as succeeded is taken to be done.     *)
ConfirmStepOfNew(row) ==
    IF row.status \in {"open", "failed", "canceled"} THEN "marking" ELSE "idle"

(* Where a handler that holds this copy goes: mark, credit, fulfil.        *)
ConfirmStep(row) ==
    CASE row.status \in {"none", "refunded", "partially_refunded"} -> "idle"
      [] row.status \in {"open", "failed", "canceled"} -> "marking"
      [] row.status = "succeeded" /\ ~row.credited -> "crediting"
      [] row.status = "succeeded" /\ row.credited /\ ~row.fulfilled -> "looking"
      [] OTHER -> "idle"

(* payment_intent.succeeded, delivered at least once and at any later      *)
(* time, or confirmPayment after it retrieved the intent.                  *)
SucceededEvent(w, p) ==
    /\ intent[p] = "succeeded"
    /\ Start(w, p, ConfirmStep(rows[p]), 0)

(* Variant: the copy is noted as credited before the credit.               *)
MarkAndNote(w) ==
    LET copy == [task[w].copy EXCEPT !.status = "succeeded", !.credited = TRUE]
    IN  /\ At(w, "marking")
        /\ SaveCopy(w, copy, "crediting")

Mark(w) ==
    LET copy == [task[w].copy EXCEPT !.status = "succeeded"]
    IN  /\ At(w, "marking")
        /\ SaveCopy(w, copy, ConfirmStep(copy))

(* creditRecipientWithSplit: two wallet transactions and a note of them.   *)
CreditRecipient(w) ==
    /\ At(w, "crediting")
    /\ credits' = [credits EXCEPT ![task[w].payment] = @ + 1]
    /\ Goto(w, "creditingPlatform")
    /\ UNCHANGED <<stripe, rows, fees, back, feeBack, goods, history>>

CreditPlatform(w) ==
    /\ At(w, "creditingPlatform")
    /\ fees' = [fees EXCEPT ![task[w].payment] = @ + 1]
    /\ Goto(w, "noting")
    /\ UNCHANGED <<stripe, rows, credits, back, feeBack, goods, history>>

NoteCredit(w) ==
    /\ At(w, "noting")
    /\ SaveCopy(w, [task[w].copy EXCEPT !.credited = TRUE],
                IF task[w].copy.fulfilled THEN "idle" ELSE "looking")

(* Variant: nobody looks whether the tip or subscription is there.         *)
LookAway(w) ==
    /\ At(w, "looking")
    /\ Goto(w, "creating")
    /\ UNCHANGED <<stripe, rows, wallets, goods, history>>

(* fulfillFiatTip looks for the payment's tip, fulfillSubscription for an   *)
(* active subscription; then they insert one ...                           *)
Look(w) ==
    /\ At(w, "looking")
    /\ LET p == task[w].payment
           there == IF purpose[p] = "tip" THEN granted[p] > 0 ELSE Subscribed
       IN  Goto(w, IF ~there THEN "creating"
                   ELSE IF task[w].origin = "fallback" THEN "idle" ELSE "completing")
    /\ UNCHANGED <<stripe, rows, wallets, goods, history>>

Create(w) ==
    LET p == task[w].payment
    IN  /\ At(w, "creating")
        /\ granted' = [granted EXCEPT ![p] = @ + 1]
        /\ active' = IF purpose[p] = "tip" THEN active ELSE [active EXCEPT ![p] = @ + 1]
        /\ Goto(w, IF task[w].origin = "fallback" THEN "idle" ELSE "completing")
        /\ UNCHANGED <<stripe, rows, wallets, purpose, history>>

(* ... and fulfillPayment notes it.                                        *)
Complete(w) ==
    /\ At(w, "completing")
    /\ SaveCopy(w, [task[w].copy EXCEPT !.fulfilled = TRUE], "idle")

---------------------------------------------------------------------------
(* markPaymentFailed.                                                      *)

(* Variant: a success is regressed by an older failure.                    *)
FailStepOfAny(row, s) == IF row.status \in {"none", "refunded"} THEN "idle" ELSE s

(* "Never regress a succeeded transaction".                                *)
FailStep(row, s) ==
    IF row.status \in {"none", "succeeded", "refunded", "partially_refunded"} THEN "idle" ELSE s

FailedEvent(w, p) ==
    \/ p \in declined /\ Start(w, p, FailStep(rows[p], "failing"), 0)
    \/ intent[p] = "canceled" /\ Start(w, p, FailStep(rows[p], "canceling"), 0)

Fail(w) ==
    \/ At(w, "failing") /\ SaveCopy(w, [task[w].copy EXCEPT !.status = "failed"], "idle")
    \/ At(w, "canceling") /\ SaveCopy(w, [task[w].copy EXCEPT !.status = "canceled"], "idle")

---------------------------------------------------------------------------
(* handleChargeRefunded.                                                   *)

RefundStep(row, amount) ==
    IF row.status \in {"none", "refunded", "canceled"} \/ amount <= row.refunded THEN "idle"
    ELSE IF row.credited THEN "debiting" ELSE "closing"

(* Every partial refund sends an event with the total so far.              *)
RefundEvent(w, p) ==
    \E amount \in 1..returned[p] : Start(w, p, RefundStep(rows[p], amount), amount)

(* Variant: the whole total is taken back, whatever was before.            *)
DeltaOfTotal(w) == task[w].amount

(* Variant: the difference is taken the other way round.                   *)
DeltaSwapped(w) == task[w].copy.refunded - task[w].amount

(* The portions that earlier events have not taken back.                   *)
Delta(w) == task[w].amount - task[w].copy.refunded

DebitRecipient(w) ==
    /\ At(w, "debiting")
    /\ back' = [back EXCEPT ![task[w].payment] = @ + Delta(w)]
    /\ Goto(w, "debitingPlatform")
    /\ UNCHANGED <<stripe, rows, credits, fees, feeBack, goods, history>>

DebitPlatform(w) ==
    /\ At(w, "debitingPlatform")
    /\ feeBack' = [feeBack EXCEPT ![task[w].payment] = @ + Delta(w)]
    /\ Goto(w, "closing")
    /\ UNCHANGED <<stripe, rows, credits, fees, back, goods, history>>

Close(w) ==
    /\ At(w, "closing")
    /\ SaveCopy(w, [task[w].copy EXCEPT
                      !.status = IF task[w].amount = Gross THEN "refunded"
                                 ELSE "partially_refunded",
                      !.refunded = task[w].amount], "idle")

(* The recipient has spent the money: the debit throws, Stripe retries.    *)
DebitRefused(w) ==
    /\ At(w, "debiting")
    /\ Done(w)
    /\ UNCHANGED <<stripe, rows, wallets, goods, history>>

---------------------------------------------------------------------------
(* A statement throws or the process stops.  processPayment catches what   *)
(* the confirmation throws, and createFiatTip then fulfils by itself.      *)
Fault(w) ==
    /\ ~At(w, "idle")
    /\ faults < MaxFaults
    /\ faults' = faults + 1
    /\ torn' = IF At(w, "creditingPlatform") \/ At(w, "noting") \/ At(w, "debitingPlatform")
                  \/ (At(w, "closing") /\ task[w].copy.credited)
               THEN torn \cup {task[w].payment}
               ELSE torn
    /\ \/ Done(w)
       \/ /\ task[w].origin = "request" /\ ~At(w, "saving")
          /\ task' = [task EXCEPT ![w].step = "looking", ![w].origin = "fallback"]
    /\ UNCHANGED <<stripe, rows, wallets, goods, races, lapsed>>

---------------------------------------------------------------------------
(* Stripe and its customers.                                               *)

(* The client has the secret only once the request answered.               *)
IntentEnds(p) ==
    /\ intent[p] = "open" /\ rows[p].status # "none"
    /\ \E outcome \in {"succeeded", "canceled"} : intent' = [intent EXCEPT ![p] = outcome]
    /\ UNCHANGED <<declined, returned, rows, wallets, goods, task, history>>

Decline(p) ==
    /\ intent[p] = "open" /\ rows[p].status # "none"
    /\ declined' = declined \cup {p}
    /\ UNCHANGED <<intent, returned, rows, wallets, goods, task, history>>

Refund(p) ==
    /\ intent[p] = "succeeded" /\ returned[p] < Gross
    /\ \E amount \in returned[p] + 1 .. Gross :
         returned' = [returned EXCEPT ![p] = amount]
    /\ UNCHANGED <<intent, declined, rows, wallets, goods, task, history>>

(* cancelSubscription, by the subscriber.                                  *)
CancelSubscription(p) ==
    /\ active[p] > 0
    /\ active' = [active EXCEPT ![p] = @ - 1]
    /\ lapsed' = IF rows[p].fulfilled THEN lapsed ELSE lapsed \cup {p}
    /\ UNCHANGED <<stripe, rows, wallets, purpose, granted, task, faults, races, torn>>

---------------------------------------------------------------------------
Begin(w, p) ==
    CreateIntent(w, p) \/ SucceededEvent(w, p) \/ FailedEvent(w, p) \/ RefundEvent(w, p)

Continue(w) ==
    \/ SaveNew(w)
    \/ Mark(w) \/ CreditRecipient(w) \/ CreditPlatform(w) \/ NoteCredit(w)
    \/ Look(w) \/ Create(w) \/ Complete(w)
    \/ Fail(w)
    \/ DebitRecipient(w) \/ DebitPlatform(w) \/ Close(w)

Next ==
    \/ \E w \in Workers : \E p \in Payments : Begin(w, p)
    \/ \E w \in Workers : Continue(w) \/ DebitRefused(w) \/ Fault(w)
    \/ \E p \in Payments : IntentEnds(p) \/ Decline(p) \/ Refund(p) \/ CancelSubscription(p)

Spec == Init /\ [][Next]_vars

(* A handler that runs goes on, and Stripe redelivers a success until a    *)
(* handler has answered.                                                   *)
FairSpec ==
    /\ Spec
    /\ \A w \in Workers : WF_vars(Continue(w))
    /\ \A p \in Payments : SF_vars(\E w \in Workers : SucceededEvent(w, p))

---------------------------------------------------------------------------
(* Every variable has the shape the code gives it.                         *)
TypeOK ==
    /\ intent \in [Payments -> {"none", "open", "succeeded", "canceled"}]
    /\ declined \subseteq Payments
    /\ returned \in [Payments -> 0..Gross]
    /\ rows \in [Payments -> Rows]
    /\ credits \in [Payments -> Nat]
    /\ fees \in [Payments -> Nat]
    /\ back \in [Payments -> Nat]
    /\ feeBack \in [Payments -> Nat]
    /\ purpose \in [Payments -> {"tip", "subscription"}]
    /\ granted \in [Payments -> Nat]
    /\ active \in [Payments -> Nat]
    /\ task \in [Workers -> Tasks]
    /\ faults \in 0..MaxFaults
    /\ races \in [Payments -> 0..MaxRaces]
    /\ torn \subseteq Payments
    /\ lapsed \subseteq Payments

(* The handlers have no lock and no transaction: two at once on a payment, *)
(* and one that stops between the money and the note, are the windows in   *)
(* which a payment may go wrong.  Outside them it must not.                *)
Unraced == {p \in Payments : races[p] = 0}
Undisturbed == Unraced \ torn

(* confirmPaymentSucceeded: "credit the recipient's wallet exactly once",  *)
(* whatever is delivered twice, late or out of order.                      *)
CreditedOnce == \A p \in Undisturbed : credits[p] <= 1 /\ fees[p] <= credits[p]

(* One payment is one tip or one subscription, however often a handler      *)
(* stopped on the way; but a subscription that is canceled before the row   *)
(* notes it is not found by the next handler, which inserts another.        *)
GrantedOnce == \A p \in Unraced \ lapsed : granted[p] <= 1

(* A payment pays its recipient once and buys one thing.                   *)
FulfilledOnce == CreditedOnce /\ GrantedOnce

(* handleChargeRefunded: "Reverse the wallet credits exactly once         *)
(* (recipient net + platform fee)": between handlers, what was taken back  *)
(* is what the row says was refunded, from both, if it was credited.       *)
RefundedExactly ==
    \A p \in Undisturbed : Quiet(p) =>
        /\ back[p] = IF rows[p].credited THEN rows[p].refunded ELSE 0
        /\ feeBack[p] = back[p]

(* A note is never ahead of the money, nor a completed fulfilment of what  *)
(* was paid for, not even when handlers race and stop.                     *)
NotesAreTrue ==
    \A p \in Payments : /\ rows[p].credited => credits[p] > 0 /\ fees[p] > 0
                        /\ rows[p].fulfilled =>
                             \E q \in Payments : /\ granted[q] > 0
                                                 /\ purpose[q] = purpose[p]
                                                 /\ purpose[p] = "tip" => p = q

(* The row and the wallets tell the same story.                            *)
BooksAgree == RefundedExactly /\ NotesAreTrue

(* markPaymentFailed: "Never regress a succeeded transaction"; and a       *)
(* refund is never forgotten.                                              *)
NeverRegresses ==
    [][\A p \in Unraced' :
         /\ rows[p].status \in {"succeeded", "partially_refunded", "refunded"} =>
              rows'[p].status \in {"succeeded", "partially_refunded", "refunded"}
         /\ rows'[p].refunded >= rows[p].refunded
         /\ rows[p].credited => rows'[p].credited]_vars

(* A payment that succeeded is credited, unless a refund came first.       *)
SucceededIsCredited ==
    \A p \in Payments :
        intent[p] = "succeeded" /\ rows[p].status # "none"
            ~> credits[p] > 0 \/ returned[p] > 0 \/ p \notin Undisturbed
=============================================================================
