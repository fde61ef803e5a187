------------------------------ MODULE Checkout ------------------------------
(***************************************************************************)
(* Checkout sessions of one product, the wallet movements that complete    *)
(* them, and the escrow of a physical product:                             *)
(* server/src/marketplace/commerce.service.ts.  A movement of              *)
(* WalletService is one transaction (module Wallet); completeCheckout is a *)
(* sequence of statements without one, each worker being a request.        *)
(***************************************************************************)
EXTENDS Integers, Sequences, FiniteSets, FiniteSetsExt

CONSTANTS
    Sessions,       \* ids that createCheckoutSession may give out
    Workers,        \* requests that may be under way at once
    Funds,          \* what the buyers' wallet holds, in prices of the product
    FirstStock,     \* product.stock at the beginning
    MaxRare         \* bound of the model: requests that stop half way, and requests
                    \* about an escrow, together

VARIABLES
    physical,       \* product.productType = 'physical'
    left,           \* product.stock
    session,        \* session[s]
    debits,         \* debits[s]: prices taken from the buyer for s
    credits,        \* credits[s]: shares of 90% given to the seller for s
    escrow,         \* escrow[s]: the escrow rows created for s
    worker,         \* worker[w]: how far request w is
    rare,           \* stops and requests about an escrow so far
    repeated,       \* history: sessions completed twice at once, or again after a stop
    crowded,        \* history: a session was checked for while another was on its
                    \*   way or open
    overlapped,     \* history: a completion began before another took its unit
    crossed         \* history: sessions whose escrow two requests had in hand

vars == <<physical, left, session, debits, credits, escrow, worker, rare,
          repeated, crowded, overlapped, crossed>>

Methods == {"wallet", "card"}     \* "crypto" is treated as "card"
NoSession == [status |-> "none", method |-> "card", due |-> FALSE]
Idle == [step |-> "idle"]
history == <<repeated, crowded, overlapped, crossed>>

Init ==
    /\ physical \in BOOLEAN
    /\ left = FirstStock
    /\ session = [s \in Sessions |-> NoSession]
    /\ debits = [s \in Sessions |-> 0]
    /\ credits = [s \in Sessions |-> 0]
    /\ escrow = [s \in Sessions |-> << >>]
    /\ worker = [w \in Workers |-> Idle]
    /\ rare = 0
    /\ repeated = {} /\ crowded = FALSE /\ overlapped = FALSE /\ crossed = {}

To(w, state) == worker' = [worker EXCEPT ![w] = state]
At(w, step) == worker[w].step = step
On(s, steps) == \E w \in Workers : worker[w].step \in steps /\ worker[w].session = s

Rare == rare < MaxRare /\ rare' = rare + 1

Completing == {"debit", "credit", "take", "hold", "complete", "expire"}
Spent == MapThenSumSet(LAMBDA s : debits[s], Sessions)

---------------------------------------------------------------------------
(* createCheckoutSession: the stock of the product, then the row.  A session *)
(* is on its way from the one to the other.                                *)
CreateCheckoutSession(w, s, method) ==
    /\ worker[w] = Idle
    /\ session[s] = NoSession /\ ~On(s, {"open"})
    /\ left > 0
    /\ To(w, [step |-> "open", session |-> s, method |-> method])
    /\ crowded' = (crowded \/ \E t \in Sessions : session[t].status = "pending"
                                                  \/ On(t, {"open"}))
    /\ UNCHANGED <<physical, left, session, debits, credits, escrow, rare,
                   repeated, overlapped, crossed>>

OpenSession(w) ==
    /\ At(w, "open")
    /\ session' = [session EXCEPT ![worker[w].session] =
         [status |-> "pending", method |-> worker[w].method, due |-> FALSE]]
    /\ To(w, Idle)
    /\ UNCHANGED <<physical, left, debits, credits, escrow, rare, history>>

(* The time expiresAt passes.                                              *)
ComesDue(s) ==
    /\ session[s].status = "pending" /\ ~session[s].due
    /\ session' = [session EXCEPT ![s].due = TRUE]
    /\ UNCHANGED <<physical, left, debits, credits, escrow, worker, rare, history>>

(* completeCheckout: the session with its product as they are now.         *)
Begin(w, s) ==
    /\ worker[w] = Idle
    /\ To(w, IF session[s].due THEN [step |-> "expire", session |-> s]
             ELSE [step |-> IF session[s].method = "wallet" THEN "debit" ELSE "credit",
                   session |-> s, left |-> left])
    /\ repeated' = IF On(s, Completing) THEN repeated \cup {s} ELSE repeated
    /\ overlapped' = (overlapped \/ \E t \in Sessions : On(t, {"debit", "credit", "take"}))
    /\ UNCHANGED <<physical, left, session, debits, credits, escrow, rare, crowded, crossed>>

(* Variant: a session that was completed may be completed again.           *)
LoadAny(w, s) == session[s].status \in {"pending", "completed"} /\ Begin(w, s)
LoadSession(w, s) == session[s].status = "pending" /\ Begin(w, s)

Expire(w) ==
    /\ At(w, "expire")
    /\ session' = [session EXCEPT ![worker[w].session].status = "expired"]
    /\ To(w, Idle)
    /\ UNCHANGED <<physical, left, debits, credits, escrow, rare, history>>

(* Variant: a debit that the wallet refuses is passed over.                *)
DebitIfFunds(w) ==
    /\ At(w, "debit")
    /\ debits' = IF Spent < Funds THEN [debits EXCEPT ![worker[w].session] = @ + 1] ELSE debits
    /\ To(w, [worker[w] EXCEPT !.step = "credit"])
    /\ UNCHANGED <<physical, left, session, credits, escrow, rare, history>>

(* The debit; one that would overdraw the wallet throws.                   *)
Debit(w) ==
    /\ At(w, "debit")
    /\ IF Spent < Funds
       THEN /\ debits' = [debits EXCEPT ![worker[w].session] = @ + 1]
            /\ To(w, [worker[w] EXCEPT !.step = "credit"])
       ELSE /\ To(w, Idle)
            /\ UNCHANGED debits
    /\ UNCHANGED <<physical, left, session, credits, escrow, rare, history>>

Credit(w) ==
    /\ At(w, "credit")
    /\ credits' = [credits EXCEPT ![worker[w].session] = @ + 1]
    /\ To(w, [worker[w] EXCEPT !.step = "take"])
    /\ UNCHANGED <<physical, left, session, debits, escrow, rare, history>>

(* Variant: the unit is taken off a product that is not saved.             *)
TakeUnsaved(w) ==
    /\ At(w, "take")
    /\ To(w, [step |-> IF physical THEN "hold" ELSE "complete", session |-> worker[w].session])
    /\ UNCHANGED <<physical, left, session, debits, credits, escrow, rare, history>>

(* The product as it was loaded with the session, less one.                *)
TakeUnit(w) ==
    /\ At(w, "take")
    /\ left' = worker[w].left - 1
    /\ To(w, [step |-> IF physical THEN "hold" ELSE "complete", session |-> worker[w].session])
    /\ UNCHANGED <<physical, session, debits, credits, escrow, rare, history>>

HoldEscrow(w) ==
    /\ At(w, "hold")
    /\ escrow' = [escrow EXCEPT ![worker[w].session] =
         Append(@, [status |-> "held", shipped |-> FALSE])]
    /\ To(w, [worker[w] EXCEPT !.step = "complete"])
    /\ UNCHANGED <<physical, left, session, debits, credits, rare, history>>

Complete(w) ==
    /\ At(w, "complete")
    /\ session' = [session EXCEPT ![worker[w].session].status = "completed"]
    /\ To(w, Idle)
    /\ UNCHANGED <<physical, left, debits, credits, escrow, rare, history>>

---------------------------------------------------------------------------
(* confirmDelivery, disputeEscrow and shipProduct: a load and a save of    *)
(* the whole row.                                                          *)

Take(w, s, n, row) ==
    /\ worker[w] = Idle /\ Rare
    /\ To(w, [step |-> "decide", session |-> s, n |-> n, row |-> row])
    /\ crossed' = IF On(s, {"decide"}) THEN crossed \cup {s} ELSE crossed
    /\ UNCHANGED <<physical, left, session, debits, credits, escrow,
                   repeated, crowded, overlapped>>

(* Variant: a dispute does not ask whether the escrow is still held.       *)
DecideAny(w, s, n, status) == Take(w, s, n, [escrow[s][n] EXCEPT !.status = status])

Decide(w, s, n, status) ==
    /\ escrow[s][n].status = "held"
    /\ Take(w, s, n, [escrow[s][n] EXCEPT !.status = status])

ShipProduct(w, s, n) == Take(w, s, n, [escrow[s][n] EXCEPT !.shipped = TRUE])

DecisionSave(w) ==
    /\ At(w, "decide")
    /\ escrow' = [escrow EXCEPT ![worker[w].session][worker[w].n] = worker[w].row]
    /\ To(w, Idle)
    /\ UNCHANGED <<physical, left, session, debits, credits, rare, history>>

(* The process stops, or the next statement fails.                         *)
RequestStops(w) ==
    /\ worker[w] # Idle
    /\ Rare
    /\ repeated' = IF worker[w].step \in Completing THEN repeated \cup {worker[w].session}
                   ELSE repeated
    /\ To(w, Idle)
    /\ UNCHANGED <<physical, left, session, debits, credits, escrow,
                   crowded, overlapped, crossed>>

---------------------------------------------------------------------------
Next ==
    \/ \E s \in Sessions : ComesDue(s)
    \/ \E w \in Workers :
          \/ \E s \in Sessions, method \in Methods : CreateCheckoutSession(w, s, method)
          \/ OpenSession(w)
          \/ \E s \in Sessions : LoadSession(w, s)
          \/ Expire(w) \/ Debit(w) \/ Credit(w) \/ TakeUnit(w) \/ HoldEscrow(w) \/ Complete(w)
          \/ \E s \in Sessions : \E n \in DOMAIN escrow[s] :
                \/ \E status \in {"released", "disputed"} : Decide(w, s, n, status)
                \/ ShipProduct(w, s, n)
          \/ DecisionSave(w)
          \/ RequestStops(w)

Spec == Init /\ [][Next]_vars
---------------------------------------------------------------------------
EscrowRow == [status : {"held", "released", "disputed"}, shipped : BOOLEAN]

TypeOK ==
    /\ physical \in BOOLEAN
    /\ left \in Int
    /\ session \in [Sessions -> [status : {"none", "pending", "completed", "expired"},
                                 method : Methods, due : BOOLEAN]]
    /\ debits \in [Sessions -> Nat] /\ credits \in [Sessions -> Nat]
    /\ escrow \in [Sessions -> Seq(EscrowRow)]
    /\ worker \in [Workers -> {Idle}
                      \cup [step : {"debit", "credit", "take"}, session : Sessions, left : Int]
                      \cup [step : {"hold", "complete", "expire"}, session : Sessions]
                      \cup [step : {"open"}, session : Sessions, method : Methods]
                      \cup [step : {"decide"}, session : Sessions, n : Nat, row : EscrowRow]]
    /\ rare \in 0..MaxRare
    /\ repeated \subseteq Sessions /\ crossed \subseteq Sessions
    /\ crowded \in BOOLEAN /\ overlapped \in BOOLEAN

(* Whatever overlaps or stops: the seller is credited for a wallet session *)
(* only what the buyer was debited for it, an escrow stands for a credit,  *)
(* and a completed session has been paid for and has its escrow.           *)
CreditIsPaidFor ==
    \A s \in Sessions :
        /\ session[s].method = "wallet" => credits[s] <= debits[s]
        /\ Len(escrow[s]) <= credits[s]
        /\ session[s].status = "completed" =>
             credits[s] > 0 /\ (physical => escrow[s] # << >>)

(* A session is debited, credited and put in escrow once, unless two       *)
(* requests complete it at once or one stopped half way; and one that has  *)
(* expired has moved no money.                                             *)
SettledOnce ==
    \A s \in Sessions \ repeated :
        /\ debits[s] <= 1 /\ credits[s] <= 1 /\ Len(escrow[s]) <= 1
        /\ session[s].status = "expired" => debits[s] = 0 /\ credits[s] = 0

(* The stock of the product falls by one for each sale, and never by more  *)
(* than the seller was credited for; and it falls below zero only if one   *)
(* session was checked for while another was on its way or open.           *)
StockCountsSales ==
    LET sold == {s \in Sessions : session[s].status = "completed"}
    IN  /\ FirstStock - left <= MapThenSumSet(LAMBDA s : credits[s], Sessions)
        /\ repeated = {} /\ ~overlapped /\ (\A s \in Sessions : ~On(s, Completing))
             => left = FirstStock - Cardinality(sold)
        /\ repeated = {} /\ ~crowded => left >= 0

(* A decision on an escrow is final, and what was shipped stays shipped,   *)
(* unless two requests had it in hand at once.                             *)
FinalStep ==
    \A s \in Sessions \ crossed' : \A n \in DOMAIN escrow[s] :
        /\ escrow[s][n].status # "held" => escrow'[s][n].status = escrow[s][n].status
        /\ escrow[s][n].shipped => escrow'[s][n].shipped
==============================================================================
