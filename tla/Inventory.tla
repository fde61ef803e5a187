----------------------------- MODULE Inventory ------------------------------
(***************************************************************************)
(* Stock, reservations, orders and shipments of one product variant in one *)
(* warehouse: server/src/marketplace/shipping-inventory.service.ts and     *)
(* orders.service.ts.  Reserving, releasing and the taking of stock by     *)
(* fulfillOrder are transactions that lock the rows they change; what      *)
(* upsertStock, OrdersService.create, fulfillOrder, createShipment and     *)
(* updateShipment read before they save is not locked, so each of those    *)
(* calls is a process of its own.                                          *)
(***************************************************************************)
EXTENDS Integers, Sequences, FiniteSets, FiniteSetsExt

CONSTANTS
    Calls,          \* requests that may be under way at once
    Reservations,   \* ids that reserveStock may give out
    Orders,         \* ids that OrdersService.create may give out
    Sizes,          \* quantities that are asked for, of any sign
    MaxStock,       \* bound of the model: the first quantity, and the largest upserted
    MaxMinted,      \* bound of the model: units that negative orders add
    MaxRare         \* bound of the model: upserts, edits of an order, and calls
                    \* that stop half way, together

VARIABLES
    stock,          \* the row of commerce_inventory_stock
    variant,        \* product_variants.stock
    reservation,    \* reservation[r]
    order,          \* order[o]
    shipments,      \* shipments[o]: the statuses of the shipments of order o
    call,           \* call[c]: how far request c is
    rare,           \* upserts, edits and stops so far
    restocked,      \* history: an upsert may have written a stale row, or less than is reserved
    eaten,          \* history: reserved units that fulfilments took out of the count
    minted,         \* history: units that negative orders added to variant
    conjured,       \* history: those that their fulfilments added to reserved
    resold,         \* history: two writers of variant overlapped
    raced           \* history: orders that two calls had in hand at once, or
                    \* that a stop or an edit left behind

vars == <<stock, variant, reservation, order, shipments, call, rare,
          restocked, eaten, minted, conjured, resold, raced>>

Quantities == 0..MaxStock
OrderStatuses == {"pending", "processing", "shipped", "delivered", "cancelled"}
ShipmentStatuses == {"label_created", "picked_up", "in_transit", "delivered", "cancelled"}
NoReservation == [status |-> "none", quantity |-> 0]
NoOrder == [status |-> "none", quantity |-> 0]
Idle == [step |-> "idle"]
history == <<restocked, eaten, minted, conjured, resold>>

(* updateShipment: where a shipment may go from each status.               *)
Allowed ==
    [label_created |-> {"picked_up", "cancelled"},
     picked_up     |-> {"in_transit", "delivered"},
     in_transit    |-> {"delivered"},
     delivered     |-> {},
     cancelled     |-> {}]

(* What the order is set to when its shipment gets a status.               *)
Follows(status) ==
    IF status \in {"picked_up", "in_transit"} THEN "shipped" ELSE status

Larger(a, b) == IF a > b THEN a ELSE b

Active == {r \in Reservations : reservation[r].status = "active"}
Held == MapThenSumSet(LAMBDA r : reservation[r].quantity, Active)

Init ==
    /\ stock = [quantity |-> MaxStock, reserved |-> 0]
    /\ variant = MaxStock
    /\ reservation = [r \in Reservations |-> NoReservation]
    /\ order = [o \in Orders |-> NoOrder]
    /\ shipments = [o \in Orders |-> << >>]
    /\ call = [c \in Calls |-> Idle]
    /\ rare = 0
    /\ restocked = FALSE /\ resold = FALSE /\ raced = {}
    /\ eaten = 0 /\ minted = 0 /\ conjured = 0

To(c, state) == call' = [call EXCEPT ![c] = state]
At(c, step) == call[c].step = step
Busy(step) == \E c \in Calls : At(c, step)
Rare == rare < MaxRare /\ rare' = rare + 1

(* Calls that have order o in hand, or are about to write what they know   *)
(* of it.                                                                  *)
InHand(o) == {c \in Calls : call[c] # Idle /\ "order" \in DOMAIN call[c] /\ call[c].order = o}
Race(o) == raced' = IF InHand(o) # {} THEN raced \cup {o} ELSE raced

---------------------------------------------------------------------------
(* Reservations.                                                           *)

(* Variant: what is reserved already is not taken off.                     *)
AvailableAll == stock.quantity
Available == stock.quantity - stock.reserved

ReserveStock(r, quantity) ==
    /\ reservation[r] = NoReservation
    /\ quantity > 0
    /\ Available >= quantity
    /\ stock' = [stock EXCEPT !.reserved = @ + quantity]
    /\ reservation' = [reservation EXCEPT ![r] =
         [status |-> "active", quantity |-> quantity]]
    /\ restocked' = (restocked \/ Busy("restock"))
    /\ UNCHANGED <<variant, order, shipments, call, rare, eaten, minted, conjured,
                   resold, raced>>

(* Variant: the subtraction does not stop at zero.                         *)
ReleaseBelowZero(r) ==
    /\ reservation[r].status = "active"
    /\ stock' = [stock EXCEPT !.reserved = @ - reservation[r].quantity]
    /\ reservation' = [reservation EXCEPT ![r].status = "released"]
    /\ restocked' = (restocked \/ Busy("restock"))
    /\ UNCHANGED <<variant, order, shipments, call, rare, eaten, minted, conjured,
                   resold, raced>>

(* Variant: the units stay reserved.                                       *)
ReleaseRowOnly(r) ==
    /\ reservation[r].status = "active"
    /\ reservation' = [reservation EXCEPT ![r].status = "released"]
    /\ restocked' = (restocked \/ Busy("restock"))
    /\ UNCHANGED <<stock, variant, order, shipments, call, rare, eaten, minted, conjured,
                   resold, raced>>

(* "released" stands for "expired" too: both are final.                    *)
ReleaseReservation(r) ==
    /\ reservation[r].status = "active"
    /\ stock' = [stock EXCEPT !.reserved = Larger(0, @ - reservation[r].quantity)]
    /\ reservation' = [reservation EXCEPT ![r].status = "released"]
    /\ restocked' = (restocked \/ Busy("restock"))
    /\ UNCHANGED <<variant, order, shipments, call, rare, eaten, minted, conjured,
                   resold, raced>>

---------------------------------------------------------------------------
(* upsertStock: the row as it was loaded, with the seller's quantity.      *)

UpsertLoad(c, quantity) ==
    /\ call[c] = Idle /\ Rare
    /\ To(c, [step |-> "restock", quantity |-> quantity, reserved |-> stock.reserved])
    /\ restocked' = (restocked \/ Busy("restock"))
    /\ UNCHANGED <<stock, variant, reservation, order, shipments,
                   eaten, minted, conjured, resold, raced>>

UpsertSave(c) ==
    /\ At(c, "restock")
    /\ stock' = [quantity |-> call[c].quantity, reserved |-> call[c].reserved]
    /\ restocked' = (restocked \/ call[c].quantity < Held + conjured)
    /\ To(c, Idle)
    /\ UNCHANGED <<variant, reservation, order, shipments, rare,
                   eaten, minted, conjured, resold, raced>>

---------------------------------------------------------------------------
(* OrdersService.create, of one item, whose quantity nothing requires to be *)
(* positive; the model asks for no more orders than it has ids.            *)

(* What an order or a fulfilment adds to the stock instead of taking it.   *)
Mint(quantity) == minted' = minted + Larger(0, -quantity) /\ minted' <= MaxMinted

OrderLoad(c, quantity) ==
    /\ call[c] = Idle /\ \E o \in Orders : order[o] = NoOrder
    /\ variant >= quantity
    /\ To(c, [step |-> "ordering", quantity |-> quantity, seen |-> variant])
    /\ resold' = (resold \/ Busy("ordering"))
    /\ UNCHANGED <<stock, variant, reservation, order, shipments, rare,
                   restocked, eaten, minted, conjured, raced>>

OrderTake(c) ==
    /\ At(c, "ordering")
    /\ variant' = call[c].seen - call[c].quantity
    /\ Mint(call[c].quantity)
    /\ To(c, [step |-> "ordered", quantity |-> call[c].quantity])
    /\ UNCHANGED <<stock, reservation, order, shipments, rare,
                   restocked, eaten, conjured, resold, raced>>

(* Variant: an order is saved before its stock is taken.                   *)
OrderSaveFirst(c, o) ==
    /\ At(c, "ordering") /\ order[o] = NoOrder
    /\ order' = [order EXCEPT ![o] = [status |-> "pending", quantity |-> call[c].quantity]]
    /\ To(c, Idle)
    /\ UNCHANGED <<stock, variant, reservation, shipments, rare, history, raced>>

OrderSave(c, o) ==
    /\ At(c, "ordered") /\ order[o] = NoOrder
    /\ order' = [order EXCEPT ![o] = [status |-> "pending", quantity |-> call[c].quantity]]
    /\ To(c, Idle)
    /\ UNCHANGED <<stock, variant, reservation, shipments, rare, history, raced>>

(* OrdersService.update: any status, from the body of the request.         *)
OrderEdit(o, status) ==
    /\ order[o] # NoOrder /\ Rare
    /\ order' = [order EXCEPT ![o].status = status]
    /\ raced' = raced \cup {o}
    /\ UNCHANGED <<stock, variant, reservation, shipments, call, history>>

---------------------------------------------------------------------------
(* fulfillOrder and createShipment.                                        *)

(* Variant: the order is only looked up.                                   *)
FulfilAny(c, o) ==
    /\ call[c] = Idle /\ order[o] # NoOrder
    /\ To(c, [step |-> "take", order |-> o])
    /\ Race(o)
    /\ UNCHANGED <<stock, variant, reservation, order, shipments, rare, history>>

FulfilLoad(c, o) ==
    /\ call[c] = Idle
    /\ order[o].status \in {"pending", "processing"}
    /\ To(c, [step |-> "take", order |-> o])
    /\ Race(o)
    /\ UNCHANGED <<stock, variant, reservation, order, shipments, rare, history>>

(* The transaction; without enough stock it takes nothing.                 *)
FulfilTake(c) ==
    /\ At(c, "take")
    /\ LET o == call[c].order
           quantity == order[o].quantity
       IN  IF Available < quantity
           THEN /\ To(c, Idle)
                /\ UNCHANGED <<stock, variant, order, history>>
           ELSE /\ stock' = [quantity |-> stock.quantity - quantity,
                             reserved |-> Larger(0, stock.reserved - quantity)]
                /\ variant' = Larger(0, variant - quantity)
                /\ Mint(quantity)
                /\ order' = [order EXCEPT ![o].status = "processing"]
                /\ To(c, [step |-> "find", order |-> o])
                /\ restocked' = (restocked \/ Busy("restock"))
                /\ eaten' = eaten + Larger(0, stock.reserved - stock'.reserved)
                /\ conjured' = conjured + Larger(0, stock'.reserved - stock.reserved)
                /\ resold' = (resold \/ Busy("ordering"))
    /\ UNCHANGED <<reservation, shipments, rare, raced>>

(* createShipment, called by the seller.                                   *)
ShipOrder(c, o) ==
    /\ call[c] = Idle /\ order[o] # NoOrder
    /\ To(c, [step |-> "find", order |-> o])
    /\ Race(o)
    /\ UNCHANGED <<stock, variant, reservation, order, shipments, rare, history>>

(* Variant: the shipments there are are not looked up.                     *)
ShipFindNone(c) ==
    /\ At(c, "find")
    /\ To(c, [call[c] EXCEPT !.step = "insert"])
    /\ UNCHANGED <<stock, variant, reservation, order, shipments, rare, history, raced>>

ShipFind(c) ==
    /\ At(c, "find")
    /\ To(c, IF shipments[call[c].order] = << >>
             THEN [call[c] EXCEPT !.step = "insert"] ELSE Idle)
    /\ UNCHANGED <<stock, variant, reservation, order, shipments, rare, history, raced>>

ShipInsert(c) ==
    /\ At(c, "insert")
    /\ shipments' = [shipments EXCEPT ![call[c].order] = Append(@, "label_created")]
    /\ To(c, Idle)
    /\ UNCHANGED <<stock, variant, reservation, order, rare, history, raced>>

---------------------------------------------------------------------------
(* updateShipment.                                                         *)

(* Variant: the table of transitions is not asked.                         *)
MoveAny(c, o, n, to) ==
    /\ call[c] = Idle
    /\ To(c, [step |-> "move", order |-> o, n |-> n, to |-> to])
    /\ Race(o)
    /\ UNCHANGED <<stock, variant, reservation, order, shipments, rare, history>>

MoveLoad(c, o, n, to) ==
    /\ call[c] = Idle
    /\ to \in Allowed[shipments[o][n]]
    /\ To(c, [step |-> "move", order |-> o, n |-> n, to |-> to])
    /\ Race(o)
    /\ UNCHANGED <<stock, variant, reservation, order, shipments, rare, history>>

MoveSave(c) ==
    /\ At(c, "move")
    /\ shipments' = [shipments EXCEPT ![call[c].order][call[c].n] = call[c].to]
    /\ To(c, [call[c] EXCEPT !.step = "follow"])
    /\ UNCHANGED <<stock, variant, reservation, order, rare, history, raced>>

MoveOrder(c) ==
    /\ At(c, "follow")
    /\ order' = [order EXCEPT ![call[c].order].status = Follows(call[c].to)]
    /\ To(c, Idle)
    /\ UNCHANGED <<stock, variant, reservation, shipments, rare, history, raced>>

(* The process stops, or the next statement fails.                         *)
CallStops(c) ==
    /\ call[c] # Idle
    /\ Rare
    /\ raced' = IF "order" \in DOMAIN call[c] THEN raced \cup {call[c].order} ELSE raced
    /\ To(c, Idle)
    /\ UNCHANGED <<stock, variant, reservation, order, shipments, history>>

---------------------------------------------------------------------------
Next ==
    \/ \E r \in Reservations :
          \/ \E quantity \in Sizes : ReserveStock(r, quantity)
          \/ ReleaseReservation(r)
    \/ \E c \in Calls :
          \/ \E quantity \in Quantities : UpsertLoad(c, quantity)
          \/ \E quantity \in Sizes : OrderLoad(c, quantity)
          \/ UpsertSave(c) \/ OrderTake(c)
          \/ \E o \in Orders : OrderSave(c, o) \/ FulfilLoad(c, o) \/ ShipOrder(c, o)
          \/ FulfilTake(c) \/ ShipFind(c) \/ ShipInsert(c)
          \/ \E o \in Orders, to \in ShipmentStatuses :
                \E n \in DOMAIN shipments[o] : MoveLoad(c, o, n, to)
          \/ MoveSave(c) \/ MoveOrder(c)
          \/ CallStops(c)
    \/ \E o \in Orders, status \in OrderStatuses : OrderEdit(o, status)

Spec == Init /\ [][Next]_vars
---------------------------------------------------------------------------
TypeOK ==
    /\ stock \in [quantity : Nat, reserved : Nat]
    /\ variant \in Nat
    /\ reservation \in [Reservations -> [status : {"none", "active", "released"},
                                         quantity : Nat]]
    /\ order \in [Orders -> [status : OrderStatuses, quantity : Sizes] \cup {NoOrder}]
    /\ shipments \in [Orders -> Seq(ShipmentStatuses)]
    /\ \A c \in Calls :
          \/ call[c] = Idle
          \/ call[c] \in [step : {"restock"}, quantity : Quantities, reserved : Nat]
          \/ call[c] \in [step : {"ordering"}, quantity : Sizes, seen : Nat]
          \/ call[c] \in [step : {"ordered"}, quantity : Sizes]
          \/ call[c] \in [step : {"take", "find", "insert"}, order : Orders]
          \/ call[c] \in [step : {"move", "follow"}, order : Orders, n : Nat,
                          to : ShipmentStatuses]
    /\ rare \in 0..MaxRare
    /\ restocked \in BOOLEAN /\ resold \in BOOLEAN
    /\ eaten \in Nat /\ minted \in 0..MaxMinted /\ conjured \in Nat
    /\ raced \subseteq Orders

(* No unit stays reserved that no customer holds: reservedQuantity is at   *)
(* most what the active reservations add up to and what fulfilments of     *)
(* negative orders put there, even though a fulfilment and a release both  *)
(* subtract from it and stop at zero.                                      *)
NothingStranded == restocked \/ stock.reserved <= Held + conjured

(* What customers hold is in the warehouse but for the reserved units that *)
(* fulfilments took, to the unit, until the seller writes a lower quantity. *)
HeldIsThere == restocked \/ Held + conjured <= stock.quantity + eaten

(* What was ordered and what can still be ordered are within the variant's *)
(* stock and what negative orders added to it, unless two orders, or an    *)
(* order and a fulfilment, overlapped.                                     *)
OrderedWithinStock ==
    resold \/ variant + MapThenSumSet(LAMBDA o : Larger(0, order[o].quantity), Orders)
                <= MaxStock + minted

(* An order nobody raced on has one shipment, whose end it follows: the    *)
(* order says shipped, delivered or cancelled exactly when its shipment    *)
(* does, but for the call that is about to write it.                       *)
OrderFollowsShipment ==
    \A o \in Orders \ raced :
        /\ Len(shipments[o]) <= 1
        /\ InHand(o) = {} =>
             LET status == IF shipments[o] = << >> THEN "label_created" ELSE shipments[o][1]
             IN  IF status = "label_created"
                 THEN order[o].status \in {"none", "pending", "processing"}
                 ELSE order[o].status = Follows(status)

(* A shipment never leaves the table of transitions, and a delivered or    *)
(* cancelled one never moves, unless two calls had its order in hand.      *)
ForwardStep ==
    \A o \in Orders \ raced' : \A n \in DOMAIN shipments[o] :
        \/ shipments'[o][n] = shipments[o][n]
        \/ shipments'[o][n] \in Allowed[shipments[o][n]]
==============================================================================
