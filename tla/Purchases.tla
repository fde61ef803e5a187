----------------------------- MODULE Purchases ------------------------------
(***************************************************************************)
(* Purchases that are a sequence of wallet movements without a row of      *)
(* their own, or with rows that are counted on the side:                   *)
(*   tip       processTip, processSubscription and processPayPerView of    *)
(*             server/src/monetization/creator-monetization.service.ts     *)
(*   payout    sendCryptoPayout of server/src/wallet/                      *)
(*             crypto-payouts.service.ts, to a chain that is external      *)
(*   sticker   purchaseSticker of server/src/stickers/stickers.service.ts  *)
(*   donation  createDonation of server/src/fundraisers/                   *)
(*             fundraisers.service.ts                                      *)
(* for one fan, one creator, one sticker and one fundraiser.  A movement   *)
(* of WalletService is one transaction (module Wallet).                    *)
(***************************************************************************)
EXTENDS Integers, FiniteSets, FiniteSetsExt

CONSTANTS
    Deals,          \* requests, each made once
    Wallets,        \* Wallets[p]: what fan and creator hold at the beginning, in tenths
                    \* of the one price
    MaxRare         \* bound of the model: stops and lost answers, together

VARIABLES
    wallet,         \* wallet[p]: the balance of p, in tenths of the price
    deal,           \* deal[d]: how far request d is
    held,           \* held[d]: tenths that d has taken and not passed on
    intents,        \* payment intents at Stripe for the sticker
    payouts,        \* payouts requested for the creator of the sticker
    sticker,        \* totalSales, and the rows of the fan's collection
    fundraiser,     \* currentAmount in donations, and the donations that point to it
    donations,      \* donations there are
    rare,           \* stops and lost answers so far
    stopped,        \* history: deals that stopped half way
    timedOut,       \* history: payouts whose answer was lost
    crowded         \* history: kinds of which two were under way at once

vars == <<wallet, deal, held, intents, payouts, sticker, fundraiser, donations,
          rare, stopped, timedOut, crowded>>
counted == <<intents, payouts, sticker, fundraiser, donations>>

Price == 10
Share == 9                      \* splitRevenue: the creator's 90%
Kinds == {"tip", "payout", "sticker", "donation"}
Steps == {"none", "debit", "credit", "fee", "transfer", "refund", "load", "intend",
          "request", "count", "grant", "sum", "insert", "done"}
NotMade == [kind |-> "tip", step |-> "none", seen |-> 0, list |-> {}]

Init ==
    /\ wallet = [p \in {"fan", "creator", "platform"} |->
         IF p = "platform" THEN 0 ELSE Wallets[p]]
    /\ deal = [d \in Deals |-> NotMade]
    /\ held = [d \in Deals |-> 0]
    /\ intents = 0 /\ payouts = 0
    /\ sticker = [sales |-> 0, owned |-> 0]
    /\ fundraiser = [amount |-> 0, attached |-> {}]
    /\ donations = {}
    /\ rare = 0
    /\ stopped = {} /\ timedOut = {} /\ crowded = {}

At(d, kind, step) == deal[d].kind = kind /\ deal[d].step = step
Go(d, step) == deal' = [deal EXCEPT ![d].step = step]
UnderWay(kind) == {d \in Deals : deal[d].kind = kind /\ deal[d].step \notin {"none", "done"}}
Rare == rare < MaxRare /\ rare' = rare + 1

(* WalletService.debit for deal d, which throws if it would overdraw, and  *)
(* credit.                                                                 *)
Take(d, p, amount, next) ==
    /\ IF wallet[p] >= amount
       THEN /\ wallet' = [wallet EXCEPT ![p] = @ - amount]
            /\ held' = [held EXCEPT ![d] = @ + amount]
            /\ Go(d, next)
       ELSE Go(d, "done") /\ UNCHANGED <<wallet, held>>
    /\ UNCHANGED <<counted, rare, stopped, timedOut, crowded>>

Give(d, p, amount, next) ==
    /\ wallet' = [wallet EXCEPT ![p] = @ + amount]
    /\ held' = [held EXCEPT ![d] = @ - amount]
    /\ Go(d, next)
    /\ UNCHANGED <<counted, rare, stopped, timedOut, crowded>>

Start(d, kind) ==
    /\ deal[d] = NotMade
    /\ kind = "sticker" => sticker.owned = 0
    /\ deal' = [deal EXCEPT ![d] =
         [NotMade EXCEPT !.kind = kind,
                         !.step = IF kind \in {"tip", "payout"} THEN "debit" ELSE "load"]]
    /\ crowded' = IF UnderWay(kind) # {} THEN crowded \cup {kind} ELSE crowded
    /\ UNCHANGED <<wallet, held, counted, rare, stopped, timedOut>>

---------------------------------------------------------------------------
(* Tips, tiers and pay-per-view.                                           *)
TipDebit(d) == At(d, "tip", "debit") /\ Take(d, "fan", Price, "credit")
TipCredit(d) == At(d, "tip", "credit") /\ Give(d, "creator", Share, "fee")
(* Variant: the platform's tenth vanishes.                                 *)
TipNoFee(d) ==
    /\ At(d, "tip", "fee")
    /\ Go(d, "done")
    /\ UNCHANGED <<wallet, held, counted, rare, stopped, timedOut, crowded>>
TipFee(d) == At(d, "tip", "fee") /\ Give(d, "platform", Price - Share, "done")

---------------------------------------------------------------------------
(* Payouts in USDC.  The call of the contract: sent; refused; or sent with *)
(* the answer lost.                                                        *)
PayoutDebit(d) == At(d, "payout", "debit") /\ Take(d, "creator", Share, "transfer")

Transfer(d, outcome) ==
    /\ At(d, "payout", "transfer")
    /\ held' = IF outcome = "refused" THEN held ELSE [held EXCEPT ![d] = @ - Share]
    /\ Go(d, IF outcome = "sent" THEN "done" ELSE "refund")
    /\ IF outcome = "lost" THEN Rare /\ timedOut' = timedOut \cup {d}
       ELSE UNCHANGED <<rare, timedOut>>
    /\ UNCHANGED <<wallet, counted, stopped, crowded>>

Refund(d) == At(d, "payout", "refund") /\ Give(d, "creator", Share, "done")

---------------------------------------------------------------------------
(* Stickers.                                                               *)
StickerLoad(d) ==
    /\ At(d, "sticker", "load")
    /\ deal' = [deal EXCEPT ![d].seen = sticker.sales, ![d].step = "intend"]
    /\ UNCHANGED <<wallet, held, counted, rare, stopped, timedOut, crowded>>

(* processPayment, whose result nobody reads, and which throws if Stripe   *)
(* does not answer.                                                        *)
StickerIntend(d, answered) ==
    /\ At(d, "sticker", "intend")
    /\ intents' = IF answered THEN intents + 1 ELSE intents
    /\ Go(d, IF answered THEN "request" ELSE "done")
    /\ UNCHANGED <<wallet, held, payouts, sticker, fundraiser, donations,
                   rare, stopped, timedOut, crowded>>

(* Variant: a creator who cannot pay is passed over.                       *)
StickerRequestAny(d) ==
    /\ At(d, "sticker", "request")
    /\ Go(d, "count")
    /\ IF wallet["creator"] < Share THEN UNCHANGED <<wallet, payouts>>
       ELSE /\ wallet' = [wallet EXCEPT !["creator"] = @ - Share]
            /\ payouts' = payouts + 1
    /\ UNCHANGED <<held, intents, sticker, fundraiser, donations,
                   rare, stopped, timedOut, crowded>>

(* sendPayout: a payout of what the creator's wallet holds (module         *)
(* Payouts), which throws if it holds less.                                *)
StickerRequest(d) ==
    /\ At(d, "sticker", "request")
    /\ IF wallet["creator"] < Share
       THEN Go(d, "done") /\ UNCHANGED <<wallet, payouts>>
       ELSE /\ wallet' = [wallet EXCEPT !["creator"] = @ - Share]
            /\ payouts' = payouts + 1
            /\ Go(d, "count")
    /\ UNCHANGED <<held, intents, sticker, fundraiser, donations,
                   rare, stopped, timedOut, crowded>>

(* Variant: the sale is counted on a row that is not saved.                *)
StickerUncounted(d) ==
    /\ At(d, "sticker", "count")
    /\ Go(d, "grant")
    /\ UNCHANGED <<wallet, held, counted, rare, stopped, timedOut, crowded>>

StickerCount(d) ==
    /\ At(d, "sticker", "count")
    /\ sticker' = [sticker EXCEPT !.sales = deal[d].seen + 1]
    /\ Go(d, "grant")
    /\ UNCHANGED <<wallet, held, intents, payouts, fundraiser, donations,
                   rare, stopped, timedOut, crowded>>

StickerGrant(d) ==
    /\ At(d, "sticker", "grant")
    /\ sticker' = [sticker EXCEPT !.owned = @ + 1]
    /\ Go(d, "done")
    /\ UNCHANGED <<wallet, held, intents, payouts, fundraiser, donations,
                   rare, stopped, timedOut, crowded>>

---------------------------------------------------------------------------
(* Donations.                                                              *)
DonationLoad(d) ==
    /\ At(d, "donation", "load")
    /\ deal' = [deal EXCEPT ![d].seen = fundraiser.amount, ![d].list = fundraiser.attached,
                            ![d].step = "intend"]
    /\ UNCHANGED <<wallet, held, counted, rare, stopped, timedOut, crowded>>

(* createPaymentIntent: paid or not, the donation counts.                  *)
DonationIntend(d, answered) ==
    /\ At(d, "donation", "intend")
    /\ Go(d, IF answered THEN "sum" ELSE "done")
    /\ UNCHANGED <<wallet, held, counted, rare, stopped, timedOut, crowded>>

(* The fundraiser as it was loaded, plus the amount.  It was loaded with   *)
(* its donations, so the save also writes that list: a donation that came  *)
(* since loses its fundraiser, and one that lost it has it again.          *)
DonationSum(d) ==
    /\ At(d, "donation", "sum")
    /\ fundraiser' = [amount |-> deal[d].seen + 1, attached |-> deal[d].list]
    /\ Go(d, "insert")
    /\ UNCHANGED <<wallet, held, intents, payouts, sticker, donations,
                   rare, stopped, timedOut, crowded>>

(* Variant: the donation is inserted without its fundraiser.               *)
DonationInsertLoose(d) ==
    /\ At(d, "donation", "insert")
    /\ donations' = donations \cup {d}
    /\ Go(d, "done")
    /\ UNCHANGED <<wallet, held, intents, payouts, sticker, fundraiser,
                   rare, stopped, timedOut, crowded>>

DonationInsert(d) ==
    /\ At(d, "donation", "insert")
    /\ donations' = donations \cup {d}
    /\ fundraiser' = [fundraiser EXCEPT !.attached = @ \cup {d}]
    /\ Go(d, "done")
    /\ UNCHANGED <<wallet, held, intents, payouts, sticker,
                   rare, stopped, timedOut, crowded>>

---------------------------------------------------------------------------
(* The process stops, or the next statement fails, at any await.           *)
DealStops(d) ==
    /\ deal[d].step \notin {"none", "done"}
    /\ Rare
    /\ stopped' = stopped \cup {d}
    /\ Go(d, "done")
    /\ UNCHANGED <<wallet, held, counted, timedOut, crowded>>

Next ==
    \E d \in Deals :
        \/ \E kind \in Kinds : Start(d, kind)
        \/ TipDebit(d) \/ TipCredit(d) \/ TipFee(d)
        \/ PayoutDebit(d) \/ Refund(d)
        \/ \E outcome \in {"sent", "refused", "lost"} : Transfer(d, outcome)
        \/ StickerLoad(d) \/ StickerRequest(d) \/ StickerCount(d) \/ StickerGrant(d)
        \/ DonationLoad(d) \/ DonationSum(d) \/ DonationInsert(d)
        \/ \E answered \in BOOLEAN : StickerIntend(d, answered) \/ DonationIntend(d, answered)
        \/ DealStops(d)

Spec == Init /\ [][Next]_vars
---------------------------------------------------------------------------
TypeOK ==
    /\ wallet \in [{"fan", "creator", "platform"} -> Nat]
    /\ deal \in [Deals -> [kind : Kinds, step : Steps, seen : Nat, list : SUBSET Deals]]
    /\ held \in [Deals -> Int]
    /\ intents \in Nat /\ payouts \in Nat
    /\ sticker \in [sales : Nat, owned : Nat]
    /\ fundraiser \in [amount : Nat, attached : SUBSET Deals]
    /\ donations \subseteq Deals
    /\ rare \in 0..MaxRare
    /\ stopped \subseteq Deals /\ timedOut \subseteq Deals
    /\ crowded \subseteq Kinds

Calm(kind) ==
    /\ kind \notin crowded /\ UnderWay(kind) = {}
    /\ \A d \in stopped : deal[d].kind # kind

(* What a purchase or a payout takes from a wallet it passes on or gives   *)
(* back, to the last tenth, unless it stopped half way; and it never gives *)
(* what it did not take, unless the chain's answer was lost.               *)
MoneyArrives ==
    \A d \in Deals :
        /\ d \notin timedOut => held[d] >= 0
        /\ deal[d].step = "done" /\ d \notin stopped \cup timedOut => held[d] = 0

(* A sticker is granted only after its creator's payout was asked for, and *)
(* that after its intent; and bought once, with its sale counted, unless   *)
(* two purchases of it overlapped or one stopped.                          *)
StickerSoldOnce ==
    /\ sticker.owned <= payouts /\ payouts <= intents
    /\ Calm("sticker") => sticker.owned <= 1 /\ sticker.sales = sticker.owned

(* A fundraiser's amount is that of its donations, all of which point to   *)
(* it, unless two donations overlapped or one stopped.                     *)
DonationsAddUp ==
    /\ fundraiser.attached \subseteq donations
    /\ Calm("donation") =>
         fundraiser.amount = Cardinality(donations) /\ fundraiser.attached = donations
==============================================================================
