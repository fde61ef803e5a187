---------------------------- MODULE Marketplace -----------------------------
(***************************************************************************)
(* The ways in which Zynkra sells: orders of product variants that a       *)
(* warehouse fulfils (Inventory), their returns (Returns), checkout        *)
(* sessions of a product that are paid at once (Checkout), and what is     *)
(* bought from a creator (Purchases).  They share no state: a product sold *)
(* both ways has two stocks that never meet, product_variants.stock and    *)
(* products.stock, a return reads of its order only that it exists, and a  *)
(* wallet movement is a transaction.  So a behaviour is of one of them.    *)
(***************************************************************************)
EXTENDS Integers, FiniteSets

CONSTANTS
    Requests,       \* requests that may be under way at once
    Reservations, Orders, Sizes, MaxStock, MaxMinted, MaxInventoryRare,
    Sessions, Funds, FirstStock, MaxCheckoutRare,
    Deals, Wallets, MaxPurchaseRare,
    MaxReturns

ASSUME RequestsAssumption == IsFiniteSet(Requests)
ASSUME IdsAssumption ==             \* ids are UUIDs, of which there are finitely many
    \A S \in {Reservations, Orders, Sessions, Deals} : IsFiniteSet(S)
ASSUME SizesAssumption == Sizes \subseteq Int
ASSUME StockAssumption == MaxStock \in Nat /\ FirstStock \in Nat
ASSUME WalletsAssumption == Wallets \in [{"fan", "creator"} -> Nat]
ASSUME BoundsAssumption ==
    /\ Funds \in Nat /\ MaxReturns \in Nat /\ MaxMinted \in Nat
    /\ {MaxInventoryRare, MaxCheckoutRare, MaxPurchaseRare} \subseteq Nat

VARIABLES
    channel,        \* "orders", "returns", "checkout" or "purchases"
    rare,           \* rare events so far, of that channel
    stock, variant, reservation, order, shipments, call,
    restocked, eaten, minted, conjured, resold, raced,
    physical, left, session, debits, credits, escrow, worker,
    repeated, crowded, overlapped, crossed,
    wallet, deal, held, intents, payouts, sticker, fundraiser, donations,
    stopped, timedOut, jammed,
    return, asker, doubled, swayed

ordered == <<stock, variant, reservation, order, shipments, call,
             restocked, eaten, minted, conjured, resold, raced>>
paid == <<physical, left, session, debits, credits, escrow, worker,
          repeated, crowded, overlapped, crossed>>
bought == <<wallet, deal, held, intents, payouts, sticker, fundraiser, donations,
            stopped, timedOut, jammed>>
returned == <<return, asker, doubled, swayed>>
vars == <<channel, rare, ordered, paid, bought, returned>>

I == INSTANCE Inventory WITH Calls <- Requests, MaxRare <- MaxInventoryRare
C == INSTANCE Checkout WITH Workers <- Requests, MaxRare <- MaxCheckoutRare
P == INSTANCE Purchases WITH MaxRare <- MaxPurchaseRare, crowded <- jammed
R == INSTANCE Returns WITH Workers <- Requests

Init ==
    /\ channel \in {"orders", "returns", "checkout", "purchases"}
    /\ I!Init /\ C!Init /\ P!Init /\ R!Init
    /\ channel # "checkout" => ~physical     \* of no account to the others

Next ==
    /\ \/ channel = "orders" /\ I!Next /\ UNCHANGED <<paid, bought, returned>>
       \/ channel = "checkout" /\ C!Next /\ UNCHANGED <<ordered, bought, returned>>
       \/ channel = "purchases" /\ P!Next /\ UNCHANGED <<ordered, paid, returned>>
       \/ channel = "returns" /\ R!Next /\ UNCHANGED <<rare, ordered, paid, bought>>
    /\ UNCHANGED channel

Spec == Init /\ [][Next]_vars
---------------------------------------------------------------------------
TypeOK ==
    \/ channel = "orders" /\ I!TypeOK
    \/ channel = "checkout" /\ C!TypeOK
    \/ channel = "purchases" /\ P!TypeOK
    \/ channel = "returns" /\ R!TypeOK

(* reservedQuantity never exceeds what the active reservations add up to,  *)
(* and what customers hold is in the warehouse, but for the reserved units *)
(* that fulfilments took, to the unit; orders of a negative quantity, which *)
(* create accepts, add to both sides (reserveStock, releaseReservation,     *)
(* fulfillOrder).                                                          *)
ReservedIsHeld == I!NothingStranded /\ I!HeldIsThere

(* Ordered and orderable together are within the variant's stock and what  *)
(* negative orders added to it; sales of a product, sales of a sticker and *)
(* a fundraiser's donations are counted right, although each is added to a *)
(* number that was read before: unless its writers overlapped.             *)
StockIsCounted ==
    I!OrderedWithinStock /\ C!StockCountsSales /\ P!StickerSoldOnce /\ P!DonationsAddUp

(* An undisturbed order has one shipment and follows it.                   *)
OrderFollowsShipment == I!OrderFollowsShipment

(* A session is settled once, unless two requests complete it, and the     *)
(* seller is credited for a wallet session only what was debited; what a   *)
(* tip or a payout takes arrives or comes back; and an order has one open  *)
(* request for its return.                                                 *)
SettledOnce == C!SettledOnce /\ C!CreditIsPaidFor /\ P!MoneyArrives /\ R!OneOpenRequest

(* A shipment and a return keep to their tables of transitions, and one at *)
(* its end never moves; a decision on an escrow is final and what was      *)
(* shipped stays shipped: unless two requests had it in hand at once.      *)
DecisionsAreFinal == [][I!ForwardStep /\ C!FinalStep /\ R!ReturnStep]_vars
==============================================================================
