------------------------- MODULE MarketplaceProofs --------------------------
(* Proofs about the ways of selling: their types, that an undisturbed order *)
(* follows its shipment, that stock, sales and donations are counted, that  *)
(* money is settled once, and that decisions are final.                     *)
EXTENDS Marketplace, Sequences, FiniteSetTheorems, WellFoundedInduction, TLAPS

(***************************************************************************)
(* Sums over sets.  MapThenSumSet is a recursive function that takes the   *)
(* elements in an order nobody knows; a sum of natural numbers is counted  *)
(* here unit by unit, and the two are shown to agree.                      *)
(***************************************************************************)

Units(f, S) == {u \in S \X Nat : 1 <= u[2] /\ u[2] <= f[u[1]]}
Total(f, S) == Cardinality(Units(f, S))

First(s) == CHOOSE x \in s : TRUE
AddsUp(t, f, S) ==
  t = [s \in SUBSET S |-> IF s = {} THEN 0 ELSE f[First(s)] + t[s \ {First(s)}]]

LEMMA UnitsOfOne ==
  ASSUME NEW x, NEW n \in Nat
  PROVE  IsFiniteSet({x} \X (1..n)) /\ Cardinality({x} \X (1..n)) = n
<1>1. IsFiniteSet({x}) /\ Cardinality({x}) = 1
  BY FS_Singleton
<1>2. IsFiniteSet(1..n) /\ Cardinality(1..n) = n
  BY FS_Interval
<1>3. /\ IsFiniteSet({x} \X (1..n))
      /\ Cardinality({x} \X (1..n)) = Cardinality({x}) * Cardinality(1..n)
  BY <1>1, <1>2, FS_Product
<1>4. Cardinality({x}) * Cardinality(1..n) = 1 * n
  BY <1>1, <1>2
<1> QED BY <1>3, <1>4

LEMMA UnitsFinite ==
  ASSUME NEW S, IsFiniteSet(S), NEW f, \A x \in S : f[x] \in Nat
  PROVE  IsFiniteSet(Units(f, S)) /\ Total(f, S) \in Nat
<1> DEFINE Of(x) == {x} \X (1..f[x])
<1> DEFINE All == {Of(x) : x \in S}
<1>1. IsFiniteSet(All)
  <2> DEFINE h == [x \in S |-> Of(x)]
  <2>1. h \in Surjection(S, All)
    BY DEF Surjection
  <2> QED BY <2>1, FS_Surjection
<1>2. ASSUME NEW A \in All PROVE IsFiniteSet(A)
  <2>1. PICK x \in S : A = {x} \X (1..f[x])
    OBVIOUS
  <2>2. f[x] \in Nat
    OBVIOUS
  <2> QED BY <2>1, <2>2, UnitsOfOne
<1>3. IsFiniteSet(UNION All)
  BY <1>1, <1>2, FS_UNION
<1>4. Units(f, S) = UNION All
  <2>1. Units(f, S) \subseteq UNION All
    BY DEF Units
  <2>2. UNION All \subseteq Units(f, S)
    BY DEF Units
  <2> QED BY <2>1, <2>2
<1> QED BY <1>3, <1>4, FS_CardinalityType DEF Total

LEMMA TotalWithout ==
  ASSUME NEW S, IsFiniteSet(S), NEW f, \A x \in S : f[x] \in Nat, NEW x \in S
  PROVE  /\ Total(f, S) = f[x] + Total(f, S \ {x})
         /\ Total(f, S \ {x}) \in Nat /\ Total(f, S) \in Nat
<1> DEFINE One == {x} \X (1..f[x])
<1> DEFINE Rest == Units(f, S \ {x})
<1>1. IsFiniteSet(S \ {x})
  BY FS_Subset
<1>2. IsFiniteSet(Rest) /\ Total(f, S \ {x}) \in Nat /\ Total(f, S) \in Nat
  BY <1>1, UnitsFinite
<1>3. IsFiniteSet(One) /\ Cardinality(One) = f[x]
  BY UnitsOfOne
<1>4. Units(f, S) = One \cup Rest
  BY DEF Units
<1>5. One \cap Rest = {}
  BY DEF Units
<1>6. Cardinality({}) = 0
  BY FS_EmptySet
<1> HIDE DEF One, Rest
<1>7. Cardinality(One \cup Rest) = Cardinality(One) + Cardinality(Rest) - Cardinality(One \cap Rest)
  BY <1>2, <1>3, FS_Union
<1>8. Cardinality(One) \in Nat /\ Cardinality(Rest) \in Nat
  BY <1>2, <1>3, FS_CardinalityType
<1>9. Cardinality(One \cup Rest) = Cardinality(One) + Cardinality(Rest)
  <2>1. Cardinality(One \cap Rest) = 0
    BY <1>5, <1>6
  <2> QED BY <1>7, <1>8, <2>1
<1> QED BY <1>2, <1>3, <1>4, <1>9 DEF Total, Rest

LEMMA TotalOfNone ==
  ASSUME NEW f
  PROVE  Total(f, {}) = 0
<1>1. Units(f, {}) = {}
  BY DEF Units
<1> QED BY <1>1, FS_EmptySet DEF Total

(* One value changes.                                                      *)
LEMMA TotalChanges ==
  ASSUME NEW S, IsFiniteSet(S), NEW f \in [S -> Nat], NEW g \in [S -> Nat], NEW x \in S,
         \A y \in S \ {x} : g[y] = f[y]
  PROVE  /\ Total(f, S) \in Nat /\ Total(g, S) \in Nat /\ f[x] <= Total(f, S)
         /\ Total(g, S) = (Total(f, S) - f[x]) + g[x]
<1>1. Units(f, S \ {x}) = Units(g, S \ {x})
  BY DEF Units
<1>2. Total(f, S \ {x}) = Total(g, S \ {x})
  BY <1>1 DEF Total
<1>3. /\ Total(f, S) = f[x] + Total(f, S \ {x})
      /\ Total(f, S \ {x}) \in Nat /\ Total(f, S) \in Nat
  BY TotalWithout
<1>4. /\ Total(g, S) = g[x] + Total(g, S \ {x})
      /\ Total(g, S \ {x}) \in Nat /\ Total(g, S) \in Nat
  BY TotalWithout
<1> QED BY <1>2, <1>3, <1>4

LEMMA SumsExist ==
  ASSUME NEW S, IsFiniteSet(S), NEW f, \A x \in S : f[x] \in Nat
  PROVE  \E t : AddsUp(t, f, S)
<1> DEFINE t == [s \in SUBSET S |-> Total(f, s)]
<1>1. ASSUME NEW s \in SUBSET S, s # {}
      PROVE  Total(f, s) = f[First(s)] + Total(f, s \ {First(s)})
  <2>1. First(s) \in s
    BY <1>1 DEF First
  <2>2. IsFiniteSet(s) /\ \A x \in s : f[x] \in Nat
    BY FS_Subset
  <2> QED BY <2>1, <2>2, TotalWithout
<1>2. AddsUp(t, f, S)
  <2>1. ASSUME NEW s \in SUBSET S
        PROVE  t[s] = IF s = {} THEN 0 ELSE f[First(s)] + t[s \ {First(s)}]
    BY <1>1, TotalOfNone
  <2> HIDE DEF t
  <2>2. t = [s \in SUBSET S |-> t[s]]
    BY DEF t
  <2> QED BY <2>1, <2>2 DEF AddsUp
<1> QED BY <1>2

LEMMA SumsAreTotals ==
  ASSUME NEW S, IsFiniteSet(S), NEW f, \A x \in S : f[x] \in Nat, NEW t, AddsUp(t, f, S)
  PROVE  t[S] = Total(f, S)
<1> DEFINE Bad == {s \in SUBSET S : t[s] # Total(f, s)}
<1>1. ASSUME Bad # {} PROVE FALSE
  <2>1. PICK s \in Bad : \A r \in Bad : <<r, s>> \notin StrictSubsetOrdering(S)
    <3>1. IsWellFoundedOn(StrictSubsetOrdering(S), SUBSET S)
      BY FS_StrictSubsetOrderingWellFounded, FS_FiniteSubsetsOfFinite
    <3>2. Bad \subseteq SUBSET S
      OBVIOUS
    <3> HIDE DEF Bad
    <3> QED BY <1>1, <3>1, <3>2, WFMin
  <2>2. t[s] = IF s = {} THEN 0 ELSE f[First(s)] + t[s \ {First(s)}]
    BY DEF AddsUp
  <2>3. s # {}
    BY <2>2, TotalOfNone
  <2>4. PICK x : x = First(s)
    OBVIOUS
  <2>5. x \in s /\ t[s] = f[x] + t[s \ {x}]
    BY <2>2, <2>3, <2>4 DEF First
  <2>6. IsFiniteSet(s) /\ \A y \in s : f[y] \in Nat
    BY FS_Subset
  <2>7. <<s \ {x}, s>> \in StrictSubsetOrdering(S)
    BY <2>5 DEF StrictSubsetOrdering
  <2>8. s \ {x} \in SUBSET S /\ s \ {x} \notin Bad
    BY <2>1, <2>7
  <2>9. t[s \ {x}] = Total(f, s \ {x})
    BY <2>8
  <2>10. Total(f, s) = f[x] + Total(f, s \ {x})
    BY <2>5, <2>6, TotalWithout
  <2> QED BY <2>5, <2>9, <2>10
<1> QED BY <1>1

LEMMA TotalOfZeros ==
  ASSUME NEW S
  PROVE  Total([x \in S |-> 0], S) = 0
<1>1. Units([x \in S |-> 0], S) = {}
  BY DEF Units
<1> QED BY <1>1, FS_EmptySet DEF Total

(* Cardinality of an instance is Cardinality.                               *)
LEMMA SameCount ==
  ASSUME NEW S
  PROVE  C!Cardinality(S) = Cardinality(S) /\ P!Cardinality(S) = Cardinality(S)
<1>1. C!Cardinality(S) = Cardinality(S)
  BY DEF C!Cardinality, Cardinality
<1>2. P!Cardinality(S) = Cardinality(S)
  BY DEF P!Cardinality, Cardinality
<1> QED BY <1>1, <1>2

LEMMA IdsFinite ==
  /\ IsFiniteSet(Reservations) /\ IsFiniteSet(Orders)
  /\ IsFiniteSet(Sessions) /\ IsFiniteSet(Deals) /\ IsFiniteSet(Requests)
BY IdsAssumption, RequestsAssumption

(***************************************************************************)
(* Orders (Inventory).                                                     *)
(***************************************************************************)

(* Steps at which a call has an order in hand.                             *)
Handling == {"take", "find", "insert", "move", "follow"}
Has(c, o) == call[c].step \in Handling /\ call[c].order = o

(* What a call knows at its step, beside the types of its fields.          *)
CallKnows(c) ==
  /\ call[c].step = "ordering" => call[c].quantity <= call[c].seen
  /\ call[c].step \in Handling => order[call[c].order] # I!NoOrder
  /\ call[c].step \in {"move", "follow"} =>
       /\ call[c].n \in DOMAIN shipments[call[c].order]
       /\ call[c].to # "label_created"

OrdersTyped ==
  /\ I!TypeOK
  /\ call = [c \in Requests |-> call[c]]
  /\ \A c \in Requests : CallKnows(c)
  /\ \A o \in Orders : order[o] = I!NoOrder => shipments[o] = << >>

LEMMA TableEnds ==
  ASSUME NEW from, from \in I!ShipmentStatuses, NEW to \in I!Allowed[from]
  PROVE  to \in I!ShipmentStatuses \ {"label_created"}
BY DEF I!ShipmentStatuses, I!Allowed

LEMMA CallFields ==
  ASSUME OrdersTyped, NEW c \in Requests
  PROVE  /\ call[c].step = "idle" => call[c] = I!Idle
         /\ call[c].step = "restock" =>
              call[c] \in [step : {"restock"}, quantity : I!Quantities, reserved : Nat]
         /\ call[c].step = "ordering" =>
              call[c] \in [step : {"ordering"}, quantity : Sizes, seen : Nat]
         /\ call[c].step = "ordered" => call[c] \in [step : {"ordered"}, quantity : Sizes]
         /\ call[c].step \in {"take", "find", "insert"} =>
              call[c] \in [step : {"take", "find", "insert"}, order : Orders]
         /\ call[c].step \in {"move", "follow"} =>
              call[c] \in [step : {"move", "follow"}, order : Orders, n : Nat,
                           to : I!ShipmentStatuses]
         /\ call[c].step \in {"idle", "restock", "ordering", "ordered"} \cup Handling
BY DEF OrdersTyped, I!TypeOK, I!Idle, Handling

(* The call that is not touched, in a step that leaves rows alone or adds. *)
LEMMA OthersKnow ==
  ASSUME OrdersTyped, NEW c \in Requests, NEW state, I!To(c, state),
         \A o \in Orders : order[o] # I!NoOrder => order'[o] # I!NoOrder,
         \A o \in Orders : DOMAIN shipments[o] \subseteq DOMAIN shipments'[o]
  PROVE  /\ call' = [d \in Requests |-> call'[d]]
         /\ call'[c] = state
         /\ \A d \in Requests \ {c} : call'[d] = call[d] /\ CallKnows(d)'
<1>1. call' = [d \in Requests |-> call'[d]]
  BY DEF OrdersTyped, I!To
<1>2. call'[c] = state
  BY DEF OrdersTyped, I!To
<1>3. ASSUME NEW d \in Requests \ {c} PROVE call'[d] = call[d] /\ CallKnows(d)'
  <2>1. call'[d] = call[d]
    BY DEF OrdersTyped, I!To
  <2>2. CallKnows(d)
    BY DEF OrdersTyped
  <2>3. call[d].step \in Handling => call[d].order \in Orders
    BY DEF OrdersTyped, I!TypeOK, Handling, I!Idle
  <2> QED BY <2>1, <2>2, <2>3 DEF CallKnows, Handling
<1> QED BY <1>1, <1>2, <1>3

(* Stock and reservations, and the upsert of the stock.                    *)
LEMMA StockTyped ==
  ASSUME OrdersTyped,
         \/ \E r \in Reservations :
               \/ \E quantity \in Sizes : I!ReserveStock(r, quantity)
               \/ I!ReleaseReservation(r)
         \/ \E c \in Requests :
               \/ \E quantity \in I!Quantities : I!UpsertLoad(c, quantity)
               \/ I!UpsertSave(c)
  PROVE  OrdersTyped'
<1> USE SizesAssumption, StockAssumption, BoundsAssumption DEF I!Quantities
<1>1. ASSUME NEW r \in Reservations, NEW quantity \in Sizes, I!ReserveStock(r, quantity)
      PROVE  OrdersTyped'
  <2>0. quantity \in Nat
    BY <1>1 DEF I!ReserveStock
  <2>1. stock' \in [quantity : Nat, reserved : Nat]
    <3>1. stock \in [quantity : Nat, reserved : Nat]
      BY DEF OrdersTyped, I!TypeOK
    <3> QED BY <1>1, <2>0, <3>1 DEF I!ReserveStock
  <2>2. reservation' \in [Reservations -> [status : {"none", "active", "released"},
                                           quantity : Nat]]
    BY <1>1, <2>0 DEF I!ReserveStock, OrdersTyped, I!TypeOK
  <2>3. restocked' \in BOOLEAN
    BY <1>1 DEF I!ReserveStock, OrdersTyped, I!TypeOK
  <2> QED BY <1>1, <2>1, <2>2, <2>3 DEF I!ReserveStock, OrdersTyped, I!TypeOK, CallKnows
<1>2. ASSUME NEW r \in Reservations, I!ReleaseReservation(r) PROVE OrdersTyped'
  <2>1. stock' \in [quantity : Nat, reserved : Nat]
    <3>1. reservation[r].quantity \in Nat
      BY DEF OrdersTyped, I!TypeOK
    <3>2. I!Larger(0, stock.reserved - reservation[r].quantity) \in Nat
      BY <3>1 DEF OrdersTyped, I!TypeOK, I!Larger
    <3>3. stock \in [quantity : Nat, reserved : Nat]
      BY DEF OrdersTyped, I!TypeOK
    <3> QED BY <1>2, <3>2, <3>3 DEF I!ReleaseReservation
  <2>2. reservation' \in [Reservations -> [status : {"none", "active", "released"},
                                           quantity : Nat]]
    BY <1>2 DEF I!ReleaseReservation, OrdersTyped, I!TypeOK
  <2>3. restocked' \in BOOLEAN
    BY <1>2 DEF I!ReleaseReservation, OrdersTyped, I!TypeOK
  <2> QED BY <1>2, <2>1, <2>2, <2>3 DEF I!ReleaseReservation, OrdersTyped, I!TypeOK, CallKnows
<1>3. ASSUME NEW c \in Requests, NEW quantity \in I!Quantities, I!UpsertLoad(c, quantity)
      PROVE  OrdersTyped'
  <2> DEFINE state == [step |-> "restock", quantity |-> quantity, reserved |-> stock.reserved]
  <2>1. /\ call' = [d \in Requests |-> call'[d]] /\ call'[c] = state
        /\ \A d \in Requests \ {c} : call'[d] = call[d] /\ CallKnows(d)'
    BY <1>3, OthersKnow DEF I!UpsertLoad
  <2>2. state \in [step : {"restock"}, quantity : I!Quantities, reserved : Nat]
    BY DEF OrdersTyped, I!TypeOK
  <2>3. CallKnows(c)'
    BY <2>1 DEF CallKnows, Handling
  <2>4. rare' \in 0..MaxInventoryRare /\ restocked' \in BOOLEAN
    BY <1>3, SMTT(40) DEF I!UpsertLoad, I!Rare, OrdersTyped, I!TypeOK
  <2> QED BY <1>3, <2>1, <2>2, <2>3, <2>4 DEF I!UpsertLoad, OrdersTyped, I!TypeOK
<1>4. ASSUME NEW c \in Requests, I!UpsertSave(c) PROVE OrdersTyped'
  <2>1. /\ call' = [d \in Requests |-> call'[d]] /\ call'[c] = I!Idle
        /\ \A d \in Requests \ {c} : call'[d] = call[d] /\ CallKnows(d)'
    BY <1>4, OthersKnow DEF I!UpsertSave
  <2>2. call[c] \in [step : {"restock"}, quantity : I!Quantities, reserved : Nat]
    BY <1>4, CallFields DEF I!UpsertSave, I!At
  <2>3. stock' \in [quantity : Nat, reserved : Nat]
    BY <1>4, <2>2 DEF I!UpsertSave
  <2>4. CallKnows(c)'
    BY <2>1 DEF CallKnows, Handling, I!Idle
  <2>5. restocked' \in BOOLEAN
    BY <1>4 DEF I!UpsertSave, OrdersTyped, I!TypeOK
  <2> QED BY <1>4, <2>1, <2>3, <2>4, <2>5 DEF I!UpsertSave, OrdersTyped, I!TypeOK
<1> QED BY <1>1, <1>2, <1>3, <1>4

LEMMA MintBounded ==
  ASSUME NEW q \in Int, I!Mint(q), minted \in Nat
  PROVE  minted' \in 0..MaxMinted /\ minted' = IF q < 0 THEN minted - q ELSE minted
BY BoundsAssumption DEF I!Mint, I!Larger

(* Orders, but for what handles them.                                      *)
LEMMA OrderingTyped ==
  ASSUME OrdersTyped,
         \/ \E c \in Requests :
               \/ \E quantity \in Sizes : I!OrderLoad(c, quantity)
               \/ I!OrderTake(c)
               \/ \E o \in Orders : I!OrderSave(c, o)
         \/ \E o \in Orders, status \in I!OrderStatuses : I!OrderEdit(o, status)
  PROVE  OrdersTyped'
<1> USE SizesAssumption, StockAssumption, BoundsAssumption DEF I!Quantities
<1>1. ASSUME NEW c \in Requests, NEW quantity \in Sizes, I!OrderLoad(c, quantity)
      PROVE  OrdersTyped'
  <2> DEFINE state == [step |-> "ordering", quantity |-> quantity, seen |-> variant]
  <2>1. /\ call' = [d \in Requests |-> call'[d]] /\ call'[c] = state
        /\ \A d \in Requests \ {c} : call'[d] = call[d] /\ CallKnows(d)'
    BY <1>1, OthersKnow DEF I!OrderLoad
  <2>2. state \in [step : {"ordering"}, quantity : Sizes, seen : Nat]
    BY DEF OrdersTyped, I!TypeOK
  <2>3. CallKnows(c)'
    BY <1>1, <2>1 DEF CallKnows, Handling, I!OrderLoad
  <2>4. resold' \in BOOLEAN
    BY <1>1 DEF I!OrderLoad, OrdersTyped, I!TypeOK
  <2> QED BY <1>1, <2>1, <2>2, <2>3, <2>4 DEF I!OrderLoad, OrdersTyped, I!TypeOK
<1>2. ASSUME NEW c \in Requests, I!OrderTake(c) PROVE OrdersTyped'
  <2> DEFINE state == [step |-> "ordered", quantity |-> call[c].quantity]
  <2>1. /\ call' = [d \in Requests |-> call'[d]] /\ call'[c] = state
        /\ \A d \in Requests \ {c} : call'[d] = call[d] /\ CallKnows(d)'
    BY <1>2, OthersKnow DEF I!OrderTake
  <2>2. call[c] \in [step : {"ordering"}, quantity : Sizes, seen : Nat]
    BY <1>2, CallFields DEF I!OrderTake, I!At
  <2>3. state \in [step : {"ordered"}, quantity : Sizes]
    BY <2>2
  <2>4. variant' \in Nat
    <3>1. call[c].quantity <= call[c].seen
      BY <1>2 DEF OrdersTyped, CallKnows, I!OrderTake, I!At
    <3>2. call[c].quantity \in Int /\ call[c].seen \in Nat
      BY <2>2
    <3> QED BY <1>2, <3>1, <3>2 DEF I!OrderTake
  <2>5. CallKnows(c)'
    BY <2>1 DEF CallKnows, Handling
  <2>6. minted' \in 0..MaxMinted
    <3>1. call[c].quantity \in Int /\ I!Mint(call[c].quantity) /\ minted \in Nat
      BY <1>2, <2>2 DEF I!OrderTake, OrdersTyped, I!TypeOK
    <3> QED BY <3>1, MintBounded
  <2> QED BY <1>2, <2>1, <2>3, <2>4, <2>5, <2>6 DEF I!OrderTake, OrdersTyped, I!TypeOK
<1>3. ASSUME NEW c \in Requests, NEW o \in Orders, I!OrderSave(c, o) PROVE OrdersTyped'
  <2> DEFINE row == [status |-> "pending", quantity |-> call[c].quantity]
  <2>1. call[c] \in [step : {"ordered"}, quantity : Sizes]
    BY <1>3, CallFields DEF I!OrderSave, I!At
  <2>2. row \in [status : I!OrderStatuses, quantity : Sizes] /\ row # I!NoOrder
    BY <2>1 DEF I!OrderStatuses, I!NoOrder
  <2>3. \A p \in Orders : order'[p] = IF p = o THEN row ELSE order[p]
    BY <1>3 DEF I!OrderSave, OrdersTyped, I!TypeOK
  <2>4. order' \in [Orders -> [status : I!OrderStatuses, quantity : Sizes] \cup {I!NoOrder}]
    BY <1>3, <2>2 DEF I!OrderSave, OrdersTyped, I!TypeOK
  <2>5. /\ call' = [d \in Requests |-> call'[d]] /\ call'[c] = I!Idle
        /\ \A d \in Requests \ {c} : call'[d] = call[d] /\ CallKnows(d)'
    BY <1>3, <2>2, <2>3, OthersKnow DEF I!OrderSave
  <2>6. CallKnows(c)'
    BY <2>5 DEF CallKnows, Handling, I!Idle
  <2>7. \A p \in Orders : order'[p] = I!NoOrder => shipments'[p] = << >>
    BY <1>3, <2>2, <2>3 DEF I!OrderSave, OrdersTyped
  <2> QED BY <1>3, <2>4, <2>5, <2>6, <2>7 DEF I!OrderSave, I!history, OrdersTyped, I!TypeOK
<1>4. ASSUME NEW o \in Orders, NEW status \in I!OrderStatuses, I!OrderEdit(o, status)
      PROVE  OrdersTyped'
  <2>1. order[o] \in [status : I!OrderStatuses, quantity : Sizes]
    BY <1>4 DEF I!OrderEdit, OrdersTyped, I!TypeOK
  <2>2. /\ [order[o] EXCEPT !.status = status] \in [status : I!OrderStatuses, quantity : Sizes]
        /\ [order[o] EXCEPT !.status = status] # I!NoOrder
    BY <2>1 DEF I!NoOrder, I!OrderStatuses
  <2>3. \A p \in Orders :
          order'[p] = IF p = o THEN [order[o] EXCEPT !.status = status] ELSE order[p]
    BY <1>4 DEF I!OrderEdit, OrdersTyped, I!TypeOK
  <2>4. order' \in [Orders -> [status : I!OrderStatuses, quantity : Sizes] \cup {I!NoOrder}]
    BY <1>4, <2>2 DEF I!OrderEdit, OrdersTyped, I!TypeOK
  <2>5. \A p \in Orders : order[p] # I!NoOrder => order'[p] # I!NoOrder
    BY <2>2, <2>3
  <2>6. \A c \in Requests : CallKnows(c)'
    <3> TAKE c \in Requests
    <3>1. call[c].step \in Handling => call[c].order \in Orders
      BY CallFields DEF Handling
    <3> QED BY <1>4, <2>5, <3>1 DEF I!OrderEdit, OrdersTyped, CallKnows, Handling
  <2>7. rare' \in 0..MaxInventoryRare /\ raced' \subseteq Orders
    BY <1>4, SMTT(40) DEF I!OrderEdit, I!Rare, OrdersTyped, I!TypeOK
  <2>8. \A p \in Orders : order'[p] = I!NoOrder => shipments'[p] = << >>
    BY <1>4, <2>2, <2>3 DEF I!OrderEdit, OrdersTyped
  <2> QED BY <1>4, <2>4, <2>6, <2>7, <2>8 DEF I!OrderEdit, I!history, OrdersTyped, I!TypeOK
<1> QED BY <1>1, <1>2, <1>3, <1>4

(* Calls that take an order in hand.                                       *)
LEMMA TakingTyped ==
  ASSUME OrdersTyped, NEW c \in Requests, NEW o \in Orders,
         \/ I!FulfilLoad(c, o)
         \/ I!ShipOrder(c, o)
         \/ \E to \in I!ShipmentStatuses, n \in DOMAIN shipments[o] : I!MoveLoad(c, o, n, to)
  PROVE  OrdersTyped'
<1>1. ASSUME NEW state, I!To(c, state), I!Race(o),
             UNCHANGED <<stock, variant, reservation, order, shipments, rare, I!history>>,
             order[o] # I!NoOrder,
             \/ state \in [step : {"take", "find", "insert"}, order : {o}]
             \/ /\ state \in [step : {"move", "follow"}, order : {o}, n : Nat,
                              to : I!ShipmentStatuses]
                /\ state.n \in DOMAIN shipments[o] /\ state.to # "label_created"
      PROVE  OrdersTyped'
  <2>1. /\ call' = [d \in Requests |-> call'[d]] /\ call'[c] = state
        /\ \A d \in Requests \ {c} : call'[d] = call[d] /\ CallKnows(d)'
    BY <1>1, OthersKnow
  <2>2. CallKnows(c)'
    BY <1>1, <2>1 DEF CallKnows, Handling
  <2>3. raced' \subseteq Orders
    BY <1>1 DEF I!Race, OrdersTyped, I!TypeOK
  <2> QED BY <1>1, <2>1, <2>2, <2>3 DEF I!history, OrdersTyped, I!TypeOK
<1>2. ASSUME I!FulfilLoad(c, o) PROVE OrdersTyped'
  <2>1. order[o] # I!NoOrder
    BY <1>2 DEF I!FulfilLoad, I!NoOrder
  <2>2. [step |-> "take", order |-> o] \in [step : {"take", "find", "insert"}, order : {o}]
    OBVIOUS
  <2> QED BY <1>1, <1>2, <2>1, <2>2 DEF I!FulfilLoad
<1>3. ASSUME I!ShipOrder(c, o) PROVE OrdersTyped'
  <2>1. [step |-> "find", order |-> o] \in [step : {"take", "find", "insert"}, order : {o}]
    OBVIOUS
  <2> QED BY <1>1, <1>3, <2>1 DEF I!ShipOrder
<1>4. ASSUME NEW to \in I!ShipmentStatuses, NEW n \in DOMAIN shipments[o], I!MoveLoad(c, o, n, to)
      PROVE  OrdersTyped'
  <2> DEFINE state == [step |-> "move", order |-> o, n |-> n, to |-> to]
  <2>1. shipments[o] \in Seq(I!ShipmentStatuses)
    BY DEF OrdersTyped, I!TypeOK
  <2>2. order[o] # I!NoOrder
    BY <2>1 DEF OrdersTyped
  <2>3. n \in Nat /\ shipments[o][n] \in I!ShipmentStatuses
    BY <2>1
  <2>4. to # "label_created"
    BY <1>4, <2>3, TableEnds DEF I!MoveLoad
  <2>5. /\ state \in [step : {"move", "follow"}, order : {o}, n : Nat, to : I!ShipmentStatuses]
        /\ state.n \in DOMAIN shipments[o] /\ state.to # "label_created"
    BY <2>3, <2>4
  <2> QED BY <1>1, <1>4, <2>2, <2>5 DEF I!MoveLoad
<1> QED BY <1>2, <1>3, <1>4

(* Calls that go on with the order they have, or stop.                     *)
LEMMA GoingTyped ==
  ASSUME OrdersTyped, NEW c \in Requests,
         I!FulfilTake(c) \/ I!ShipFind(c) \/ I!ShipInsert(c) \/ I!MoveSave(c) \/ I!MoveOrder(c)
           \/ I!CallStops(c)
  PROVE  OrdersTyped'
<1> USE SizesAssumption, StockAssumption, BoundsAssumption
<1>1. ASSUME I!FulfilTake(c) PROVE OrdersTyped'
  <2> DEFINE o == call[c].order
  <2>1. o \in Orders /\ order[o] # I!NoOrder
    BY <1>1, CallFields DEF I!FulfilTake, I!At, OrdersTyped, CallKnows, Handling
  <2>2. order[o] \in [status : I!OrderStatuses, quantity : Sizes]
    BY <2>1 DEF OrdersTyped, I!TypeOK
  <2>3. order[o].quantity \in Int
    BY <2>2
  <2>4. CASE I!Available < order[o].quantity
    <3>1. /\ I!To(c, I!Idle)
          /\ UNCHANGED <<stock, variant, order, reservation, shipments, rare, raced, I!history>>
      BY <1>1, <2>4 DEF I!FulfilTake
    <3>2. /\ call' = [d \in Requests |-> call'[d]] /\ call'[c] = I!Idle
          /\ \A d \in Requests \ {c} : call'[d] = call[d] /\ CallKnows(d)'
      BY <3>1, OthersKnow
    <3>3. CallKnows(c)'
      BY <3>2 DEF CallKnows, Handling, I!Idle
    <3> QED BY <3>1, <3>2, <3>3 DEF I!history, OrdersTyped, I!TypeOK
  <2>5. CASE ~(I!Available < order[o].quantity)
    <3> DEFINE row == [order[o] EXCEPT !.status = "processing"]
               state == [step |-> "find", order |-> o]
    <3>1. /\ stock' = [quantity |-> stock.quantity - order[o].quantity,
                       reserved |-> I!Larger(0, stock.reserved - order[o].quantity)]
          /\ variant' = I!Larger(0, variant - order[o].quantity)
          /\ order' = [order EXCEPT ![o].status = "processing"]
          /\ I!To(c, state)
          /\ restocked' = (restocked \/ I!Busy("restock"))
          /\ I!Mint(order[o].quantity)
          /\ eaten' = eaten + I!Larger(0, stock.reserved - stock'.reserved)
          /\ conjured' = conjured + I!Larger(0, stock'.reserved - stock.reserved)
          /\ resold' = (resold \/ I!Busy("ordering"))
          /\ UNCHANGED <<reservation, shipments, rare, raced>>
      BY <1>1, <2>5 DEF I!FulfilTake
    <3>2. row \in [status : I!OrderStatuses, quantity : Sizes] /\ row # I!NoOrder
      BY <2>2 DEF I!OrderStatuses, I!NoOrder
    <3>3. \A p \in Orders : order'[p] = IF p = o THEN row ELSE order[p]
      BY <2>1, <3>1 DEF OrdersTyped, I!TypeOK
    <3>4. order' \in [Orders -> [status : I!OrderStatuses, quantity : Sizes] \cup {I!NoOrder}]
      BY <2>1, <3>1, <3>2 DEF OrdersTyped, I!TypeOK
    <3>5. /\ call' = [d \in Requests |-> call'[d]] /\ call'[c] = state
          /\ \A d \in Requests \ {c} : call'[d] = call[d] /\ CallKnows(d)'
      BY <3>1, <3>2, <3>3, OthersKnow
    <3>6. CallKnows(c)'
      BY <2>1, <3>2, <3>3, <3>5 DEF CallKnows, Handling
    <3>7. stock' \in [quantity : Nat, reserved : Nat]
      <4>1. stock \in [quantity : Nat, reserved : Nat]
        BY DEF OrdersTyped, I!TypeOK
      <4>2. stock.quantity - order[o].quantity \in Nat
        BY <2>3, <2>5, <4>1 DEF I!Available
      <4>3. I!Larger(0, stock.reserved - order[o].quantity) \in Nat
        BY <2>3, <4>1 DEF I!Larger
      <4> QED BY <3>1, <4>2, <4>3
    <3>8. variant' \in Nat
      <4>1. variant \in Nat
        BY DEF OrdersTyped, I!TypeOK
      <4>2. I!Larger(0, variant - order[o].quantity) \in Nat
        BY <2>3, <4>1 DEF I!Larger
      <4> QED BY <3>1, <4>2
    <3>9. restocked' \in BOOLEAN /\ resold' \in BOOLEAN
      BY <3>1 DEF OrdersTyped, I!TypeOK
    <3>10. state \in [step : {"take", "find", "insert"}, order : Orders]
      BY <2>1
    <3>11. \A p \in Orders : order'[p] = I!NoOrder => shipments'[p] = << >>
      BY <3>1, <3>2, <3>3 DEF OrdersTyped
    <3>12. eaten' \in Nat /\ conjured' \in Nat /\ minted' \in 0..MaxMinted
      <4>1. /\ eaten \in Nat /\ conjured \in Nat /\ minted \in Nat
            /\ stock.reserved \in Nat /\ stock'.reserved \in Nat
        BY <3>7 DEF OrdersTyped, I!TypeOK
      <4>2. /\ I!Larger(0, stock.reserved - stock'.reserved) \in Nat
            /\ I!Larger(0, stock'.reserved - stock.reserved) \in Nat
        BY <4>1 DEF I!Larger
      <4>3. minted' \in 0..MaxMinted
        BY <2>3, <3>1, <4>1, MintBounded
      <4> QED BY <3>1, <4>1, <4>2, <4>3
    <3> QED BY <3>1, <3>4, <3>5, <3>6, <3>7, <3>8, <3>9, <3>10, <3>11,
              <3>12 DEF OrdersTyped, I!TypeOK
  <2> QED BY <2>4, <2>5
<1>2. ASSUME I!ShipFind(c) PROVE OrdersTyped'
  <2>1. /\ call[c] \in [step : {"take", "find", "insert"}, order : Orders]
        /\ order[call[c].order] # I!NoOrder
    BY <1>2, CallFields DEF I!ShipFind, I!At, OrdersTyped, CallKnows, Handling
  <2>2. PICK state \in {I!Idle, [call[c] EXCEPT !.step = "insert"]} : I!To(c, state)
    BY <1>2 DEF I!ShipFind
  <2>3. /\ call' = [d \in Requests |-> call'[d]] /\ call'[c] = state
        /\ \A d \in Requests \ {c} : call'[d] = call[d] /\ CallKnows(d)'
    BY <1>2, <2>2, OthersKnow DEF I!ShipFind
  <2>4. \/ state = I!Idle
        \/ /\ state \in [step : {"take", "find", "insert"}, order : Orders]
           /\ state.order = call[c].order /\ state.step = "insert"
    BY <2>1
  <2>5. CallKnows(c)'
    BY <1>2, <2>1, <2>3, <2>4 DEF CallKnows, Handling, I!Idle, I!ShipFind
  <2> QED BY <1>2, <2>3, <2>4, <2>5 DEF I!ShipFind, I!history, OrdersTyped, I!TypeOK
<1>3. ASSUME I!ShipInsert(c) PROVE OrdersTyped'
  <2> DEFINE o == call[c].order
  <2>1. o \in Orders /\ order[o] # I!NoOrder
    BY <1>3, CallFields DEF I!ShipInsert, I!At, OrdersTyped, CallKnows, Handling
  <2>2. shipments[o] \in Seq(I!ShipmentStatuses)
    BY <2>1 DEF OrdersTyped, I!TypeOK
  <2>3. /\ Append(shipments[o], "label_created") \in Seq(I!ShipmentStatuses)
        /\ DOMAIN shipments[o] \subseteq DOMAIN Append(shipments[o], "label_created")
    BY <2>2 DEF I!ShipmentStatuses
  <2>4. \A p \in Orders : shipments'[p] = IF p = o THEN Append(shipments[o], "label_created")
                                          ELSE shipments[p]
    BY <1>3 DEF I!ShipInsert, OrdersTyped, I!TypeOK
  <2>5. shipments' \in [Orders -> Seq(I!ShipmentStatuses)]
    BY <1>3, <2>3 DEF I!ShipInsert, OrdersTyped, I!TypeOK
  <2>6. /\ call' = [d \in Requests |-> call'[d]] /\ call'[c] = I!Idle
        /\ \A d \in Requests \ {c} : call'[d] = call[d] /\ CallKnows(d)'
    BY <1>3, <2>3, <2>4, OthersKnow DEF I!ShipInsert
  <2>7. CallKnows(c)'
    BY <2>6 DEF CallKnows, Handling, I!Idle
  <2>8. \A p \in Orders : order'[p] = I!NoOrder => shipments'[p] = << >>
    BY <1>3, <2>1, <2>4 DEF I!ShipInsert, OrdersTyped
  <2> QED BY <1>3, <2>5, <2>6, <2>7, <2>8 DEF I!ShipInsert, I!history, OrdersTyped, I!TypeOK
<1>4. ASSUME I!MoveSave(c) PROVE OrdersTyped'
  <2> DEFINE o == call[c].order
             moved == [shipments[o] EXCEPT ![call[c].n] = call[c].to]
             state == [call[c] EXCEPT !.step = "follow"]
  <2>1. /\ call[c] \in [step : {"move", "follow"}, order : Orders, n : Nat,
                        to : I!ShipmentStatuses]
        /\ order[o] # I!NoOrder /\ call[c].n \in DOMAIN shipments[o]
        /\ call[c].to # "label_created"
    BY <1>4, CallFields DEF I!MoveSave, I!At, OrdersTyped, CallKnows, Handling
  <2>2. shipments[o] \in Seq(I!ShipmentStatuses)
    BY <2>1 DEF OrdersTyped, I!TypeOK
  <2>3. /\ moved \in Seq(I!ShipmentStatuses)
        /\ DOMAIN moved = DOMAIN shipments[o]
    BY <2>1, <2>2
  <2>4. \A p \in Orders : shipments'[p] = IF p = o THEN moved ELSE shipments[p]
    BY <1>4 DEF I!MoveSave, OrdersTyped, I!TypeOK
  <2>5. shipments' \in [Orders -> Seq(I!ShipmentStatuses)]
    BY <1>4, <2>3 DEF I!MoveSave, OrdersTyped, I!TypeOK
  <2>6. /\ call' = [d \in Requests |-> call'[d]] /\ call'[c] = state
        /\ \A d \in Requests \ {c} : call'[d] = call[d] /\ CallKnows(d)'
    BY <1>4, <2>3, <2>4, OthersKnow DEF I!MoveSave
  <2>7. /\ state \in [step : {"move", "follow"}, order : Orders, n : Nat,
                      to : I!ShipmentStatuses]
        /\ state.step = "follow" /\ state.order = o /\ state.n = call[c].n
        /\ state.to = call[c].to
    BY <2>1
  <2>8. CallKnows(c)'
    BY <1>4, <2>1, <2>3, <2>4, <2>6, <2>7 DEF I!MoveSave, CallKnows, Handling
  <2>9. \A p \in Orders : order'[p] = I!NoOrder => shipments'[p] = << >>
    BY <1>4, <2>1, <2>4 DEF I!MoveSave, OrdersTyped
  <2> QED BY <1>4, <2>5, <2>6, <2>7, <2>8, <2>9 DEF I!MoveSave, I!history, OrdersTyped, I!TypeOK
<1>5. ASSUME I!MoveOrder(c) PROVE OrdersTyped'
  <2> DEFINE o == call[c].order
             row == [order[o] EXCEPT !.status = I!Follows(call[c].to)]
  <2>1. /\ o \in Orders /\ order[o] # I!NoOrder
        /\ call[c].to \in I!ShipmentStatuses \ {"label_created"}
    BY <1>5, CallFields DEF I!MoveOrder, I!At, OrdersTyped, CallKnows, Handling
  <2>2. order[o] \in [status : I!OrderStatuses, quantity : Sizes]
    BY <2>1 DEF OrdersTyped, I!TypeOK
  <2>3. I!Follows(call[c].to) \in I!OrderStatuses
    BY <2>1 DEF I!Follows, I!OrderStatuses, I!ShipmentStatuses
  <2>4. row \in [status : I!OrderStatuses, quantity : Sizes] /\ row # I!NoOrder
    BY <2>2, <2>3 DEF I!OrderStatuses, I!NoOrder
  <2>5. \A p \in Orders : order'[p] = IF p = o THEN row ELSE order[p]
    BY <1>5 DEF I!MoveOrder, OrdersTyped, I!TypeOK
  <2>6. order' \in [Orders -> [status : I!OrderStatuses, quantity : Sizes] \cup {I!NoOrder}]
    BY <1>5, <2>4 DEF I!MoveOrder, OrdersTyped, I!TypeOK
  <2>7. /\ call' = [d \in Requests |-> call'[d]] /\ call'[c] = I!Idle
        /\ \A d \in Requests \ {c} : call'[d] = call[d] /\ CallKnows(d)'
    BY <1>5, <2>4, <2>5, OthersKnow DEF I!MoveOrder
  <2>8. CallKnows(c)'
    BY <2>7 DEF CallKnows, Handling, I!Idle
  <2>9. \A p \in Orders : order'[p] = I!NoOrder => shipments'[p] = << >>
    BY <1>5, <2>4, <2>5 DEF I!MoveOrder, OrdersTyped
  <2> QED BY <1>5, <2>6, <2>7, <2>8, <2>9 DEF I!MoveOrder, I!history, OrdersTyped, I!TypeOK
<1>6. ASSUME I!CallStops(c) PROVE OrdersTyped'
  <2>1. /\ call' = [d \in Requests |-> call'[d]] /\ call'[c] = I!Idle
        /\ \A d \in Requests \ {c} : call'[d] = call[d] /\ CallKnows(d)'
    BY <1>6, OthersKnow DEF I!CallStops
  <2>2. CallKnows(c)'
    BY <2>1 DEF CallKnows, Handling, I!Idle
  <2>3. "order" \in DOMAIN call[c] => call[c].order \in Orders
    BY CallFields DEF I!Idle, Handling
  <2>4. raced' \subseteq Orders
    BY <1>6, <2>3 DEF I!CallStops, OrdersTyped, I!TypeOK
  <2>5. rare' \in 0..MaxInventoryRare
    BY <1>6 DEF I!CallStops, I!Rare, OrdersTyped, I!TypeOK
  <2> QED BY <1>6, <2>1, <2>2, <2>4, <2>5 DEF I!CallStops, I!history, OrdersTyped, I!TypeOK
<1> QED BY <1>1, <1>2, <1>3, <1>4, <1>5, <1>6

LEMMA OrdersStayTyped == OrdersTyped /\ I!Next => OrdersTyped'
<1> SUFFICES ASSUME OrdersTyped, I!Next PROVE OrdersTyped'
  OBVIOUS
<1> QED BY StockTyped, OrderingTyped, TakingTyped, GoingTyped DEF I!Next
---------------------------------------------------------------------------
(* What is true of an order that one call at most has in hand.             *)

Settled(o) ==
  IF shipments[o] = << >> \/ shipments[o][1] = "label_created"
  THEN order[o].status \in {"none", "pending", "processing"}
  ELSE order[o].status = I!Follows(shipments[o][1])

CallReads(c, o) ==
  IF call[c].step = "follow"
  THEN shipments[o] = << call[c].to >>
  ELSE /\ Settled(o)
       /\ call[c].step = "take" => order[o].status \in {"pending", "processing"}
       /\ call[c].step = "insert" => shipments[o] = << >>
       /\ call[c].step = "move" =>
            call[c].n = 1 /\ call[c].to \in I!Allowed[shipments[o][1]]

Undisturbed(o) ==
  /\ Len(shipments[o]) <= 1
  /\ \A b, c \in Requests : Has(b, o) /\ Has(c, o) => b = c
  /\ \A c \in Requests : Has(c, o) => CallReads(c, o)
  /\ (\A c \in Requests : ~Has(c, o)) => Settled(o)

OrdersInv == OrdersTyped /\ \A o \in Orders \ raced : Undisturbed(o)

LEMMA HandsAre ==
  ASSUME OrdersTyped, NEW o \in Orders
  PROVE  I!InHand(o) = {c \in Requests : Has(c, o)}
BY CallFields DEF I!InHand, Has, I!Idle, Handling

(* An order whose rows stay, in a step of a call that does not have it.    *)
LEMMA OtherOrder ==
  ASSUME NEW o \in Orders, Undisturbed(o), NEW c \in Requests,
         order'[o] = order[o], shipments'[o] = shipments[o],
         \A d \in Requests \ {c} : call'[d] = call[d],
         ~Has(c, o), ~Has(c, o)'
  PROVE  Undisturbed(o)'
<1>1. \A d \in Requests : Has(d, o)' <=> Has(d, o)
  BY DEF Has
<1>2. Settled(o)' <=> Settled(o)
  BY DEF Settled
<1>3. \A d \in Requests : Has(d, o) => (CallReads(d, o)' <=> CallReads(d, o))
  BY <1>2 DEF CallReads
<1> QED BY <1>1, <1>2, <1>3 DEF Undisturbed

LEMMA SameOrder ==
  ASSUME NEW o \in Orders, Undisturbed(o), UNCHANGED call,
         order'[o] = order[o], shipments'[o] = shipments[o]
  PROVE  Undisturbed(o)'
BY DEF Undisturbed, Has, Settled, CallReads

(* A step of the one call that has the order.                              *)
LEMMA OwnOrder ==
  ASSUME NEW o \in Orders, Undisturbed(o), NEW c \in Requests, Has(c, o),
         \A d \in Requests \ {c} : call'[d] = call[d],
         Len(shipments'[o]) <= 1,
         Has(c, o)' => CallReads(c, o)',
         ~Has(c, o)' => Settled(o)'
  PROVE  Undisturbed(o)'
<1>1. \A d \in Requests \ {c} : ~Has(d, o)'
  BY DEF Undisturbed, Has
<1> QED BY <1>1 DEF Undisturbed

LEMMA FarOrder ==
  ASSUME OrdersInv, NEW c \in Requests, NEW state, I!To(c, state), NEW o \in Orders \ raced,
         order'[o] = order[o], shipments'[o] = shipments[o],
         ~Has(c, o), state.step \in Handling => state.order # o
  PROVE  Undisturbed(o)'
<1>1. call'[c] = state /\ \A d \in Requests \ {c} : call'[d] = call[d]
  BY DEF OrdersInv, OrdersTyped, I!To
<1>2. ~Has(c, o)'
  BY <1>1 DEF Has
<1> QED BY <1>1, <1>2, OtherOrder DEF OrdersInv

LEMMA QuietSteps ==
  ASSUME OrdersInv,
         \/ \E r \in Reservations :
               \/ \E quantity \in Sizes : I!ReserveStock(r, quantity)
               \/ I!ReleaseReservation(r)
         \/ \E c \in Requests :
               \/ \E quantity \in I!Quantities : I!UpsertLoad(c, quantity)
               \/ I!UpsertSave(c)
               \/ \E quantity \in Sizes : I!OrderLoad(c, quantity)
               \/ I!OrderTake(c)
               \/ \E o \in Orders : I!OrderSave(c, o)
         \/ \E o \in Orders, status \in I!OrderStatuses : I!OrderEdit(o, status)
  PROVE  /\ \A o \in Orders \ raced' : Undisturbed(o)'
         /\ I!ForwardStep
<1>1. ASSUME NEW r \in Reservations,
             (\E quantity \in Sizes : I!ReserveStock(r, quantity)) \/ I!ReleaseReservation(r)
      PROVE  UNCHANGED <<call, order, shipments, raced>>
  BY <1>1 DEF I!ReserveStock, I!ReleaseReservation
<1>2. ASSUME NEW c \in Requests, NEW quantity \in I!Quantities, I!UpsertLoad(c, quantity)
      PROVE  \A o \in Orders \ raced' : Undisturbed(o)'
  <2>1. ~\E o \in Orders : Has(c, o)
    BY <1>2 DEF I!UpsertLoad, I!Idle, Has, Handling
  <2> QED BY <1>2, <2>1, FarOrder DEF I!UpsertLoad, Handling
<1>3. ASSUME NEW c \in Requests, I!UpsertSave(c)
      PROVE  \A o \in Orders \ raced' : Undisturbed(o)'
  <2>1. ~\E o \in Orders : Has(c, o)
    BY <1>3 DEF I!UpsertSave, I!At, Has, Handling
  <2> QED BY <1>3, <2>1, FarOrder DEF I!UpsertSave, Handling, I!Idle
<1>4. ASSUME NEW c \in Requests, NEW quantity \in Sizes, I!OrderLoad(c, quantity)
      PROVE  \A o \in Orders \ raced' : Undisturbed(o)'
  <2>1. ~\E o \in Orders : Has(c, o)
    BY <1>4 DEF I!OrderLoad, I!Idle, Has, Handling
  <2> QED BY <1>4, <2>1, FarOrder DEF I!OrderLoad, Handling
<1>5. ASSUME NEW c \in Requests, I!OrderTake(c)
      PROVE  \A o \in Orders \ raced' : Undisturbed(o)'
  <2>1. ~\E o \in Orders : Has(c, o)
    BY <1>5 DEF I!OrderTake, I!At, Has, Handling
  <2> QED BY <1>5, <2>1, FarOrder DEF I!OrderTake, Handling
<1>6. ASSUME NEW c \in Requests, NEW o \in Orders, I!OrderSave(c, o), NEW p \in Orders \ raced'
      PROVE  Undisturbed(p)'
  <2>1. ~\E q \in Orders : Has(c, q)
    BY <1>6 DEF I!OrderSave, I!At, Has, Handling
  <2>2. CASE p # o
    <3>1. order'[p] = order[p]
      BY <1>6, <2>2 DEF I!OrderSave, OrdersInv, OrdersTyped, I!TypeOK
    <3> QED BY <1>6, <2>1, <3>1, FarOrder DEF I!OrderSave, Handling, I!Idle
  <2>3. CASE p = o
    <3>1. shipments[p] = << >> /\ \A d \in Requests : ~Has(d, p)
      BY <1>6, <2>3 DEF I!OrderSave, OrdersInv, OrdersTyped, CallKnows, Has
    <3>2. order'[p].status = "pending" /\ shipments'[p] = << >>
      BY <1>6, <2>3, <3>1 DEF I!OrderSave, OrdersInv, OrdersTyped, I!TypeOK
    <3>3. \A d \in Requests : ~Has(d, p)'
      BY <1>6, <3>1 DEF I!OrderSave, I!To, I!Idle, Has, Handling, OrdersInv, OrdersTyped
    <3>4. Settled(p)'
      BY <3>2 DEF Settled
    <3> QED BY <3>2, <3>3, <3>4 DEF Undisturbed
  <2> QED BY <2>2, <2>3
<1>7. ASSUME NEW o \in Orders, NEW status \in I!OrderStatuses, I!OrderEdit(o, status),
             NEW p \in Orders \ raced'
      PROVE  Undisturbed(p)'
  <2>1. p # o /\ p \in Orders \ raced
    BY <1>7 DEF I!OrderEdit
  <2>2. order'[p] = order[p]
    BY <1>7, <2>1 DEF I!OrderEdit, OrdersInv, OrdersTyped, I!TypeOK
  <2> QED BY <1>7, <2>1, <2>2, SameOrder DEF I!OrderEdit, OrdersInv
<1>8. \A o \in Orders \ raced' : Undisturbed(o)'
  BY <1>1, <1>2, <1>3, <1>4, <1>5, <1>6, <1>7, SameOrder DEF OrdersInv
<1>9. UNCHANGED shipments
  BY DEF I!ReserveStock, I!ReleaseReservation, I!UpsertLoad, I!UpsertSave, I!OrderLoad,
         I!OrderTake, I!OrderSave, I!OrderEdit
<1> QED BY <1>8, <1>9 DEF I!ForwardStep

LEMMA TakingSteps ==
  ASSUME OrdersInv, NEW c \in Requests, NEW o \in Orders,
         \/ I!FulfilLoad(c, o)
         \/ I!ShipOrder(c, o)
         \/ \E to \in I!ShipmentStatuses, n \in DOMAIN shipments[o] : I!MoveLoad(c, o, n, to)
  PROVE  /\ \A p \in Orders \ raced' : Undisturbed(p)'
         /\ I!ForwardStep
<1>1. ASSUME NEW state, I!To(c, state), call[c] = I!Idle, I!Race(o),
             UNCHANGED <<order, shipments>>, state.order = o,
             \/ state.step = "take" /\ order[o].status \in {"pending", "processing"}
             \/ state.step = "find"
             \/ /\ state.step = "move" /\ state.n \in DOMAIN shipments[o]
                /\ state.to \in I!Allowed[shipments[o][state.n]],
             NEW p \in Orders \ raced'
      PROVE  Undisturbed(p)'
  <2>1. p \in Orders \ raced /\ Undisturbed(p) /\ ~Has(c, p)
    BY <1>1 DEF I!Race, OrdersInv, Has, I!Idle, Handling
  <2>2. CASE p # o
    BY <1>1, <2>1, <2>2, FarOrder
  <2>3. CASE p = o
    <3>1. \A d \in Requests : ~Has(d, o)
      BY <1>1, <2>3, HandsAre DEF I!Race, OrdersInv
    <3>2. Settled(o)
      BY <2>1, <2>3, <3>1 DEF Undisturbed
    <3>3. call'[c] = state /\ \A d \in Requests \ {c} : call'[d] = call[d]
      BY <1>1 DEF OrdersInv, OrdersTyped, I!To
    <3>4. \A d \in Requests \ {c} : ~Has(d, o)'
      BY <3>1, <3>3 DEF Has
    <3>5. Has(c, o)'
      BY <1>1, <3>3 DEF Has, Handling
    <3>6. state.step = "move" => state.n = 1
      <4>1. shipments[o] \in Seq(I!ShipmentStatuses) /\ Len(shipments[o]) <= 1
        BY <2>1, <2>3 DEF OrdersInv, OrdersTyped, I!TypeOK, Undisturbed
      <4> QED BY <1>1, <4>1
    <3>7. CallReads(c, o)'
      BY <1>1, <3>2, <3>3, <3>6 DEF CallReads, Settled
    <3> QED BY <1>1, <2>1, <2>3, <3>4, <3>5, <3>7 DEF Undisturbed
  <2> QED BY <2>2, <2>3
<1>2. CASE I!FulfilLoad(c, o)
  BY <1>1, <1>2 DEF I!FulfilLoad, I!ForwardStep
<1>3. CASE I!ShipOrder(c, o)
  BY <1>1, <1>3 DEF I!ShipOrder, I!ForwardStep
<1>4. ASSUME NEW to \in I!ShipmentStatuses, NEW n \in DOMAIN shipments[o], I!MoveLoad(c, o, n, to)
      PROVE  (\A p \in Orders \ raced' : Undisturbed(p)') /\ I!ForwardStep
  BY <1>1, <1>4 DEF I!MoveLoad, I!ForwardStep
<1> QED BY <1>2, <1>3, <1>4

LEMMA GoingSteps ==
  ASSUME OrdersInv, NEW c \in Requests,
         I!FulfilTake(c) \/ I!ShipFind(c) \/ I!ShipInsert(c) \/ I!MoveSave(c) \/ I!MoveOrder(c)
           \/ I!CallStops(c)
  PROVE  /\ \A p \in Orders \ raced' : Undisturbed(p)'
         /\ I!ForwardStep
<1> PICK o, to : o = call[c].order /\ to = call[c].to
  OBVIOUS
<1>1. \A state, p : I!To(c, state) /\ p \in Orders => call'[c] = state
                     /\ \A d \in Requests \ {c} : call'[d] = call[d]
  BY DEF OrdersInv, OrdersTyped, I!To
<1>2. CASE I!FulfilTake(c)
  <2>1. o \in Orders /\ Has(c, o) /\ \A p \in Orders : Has(c, p) => p = o
    BY <1>2, CallFields DEF I!FulfilTake, I!At, Has, Handling, OrdersInv
  <2>2. raced' = raced /\ shipments' = shipments
    BY <1>2 DEF I!FulfilTake
  <2>3. ASSUME NEW p \in Orders \ raced, p # o PROVE Undisturbed(p)'
    <3>1. order'[p] = order[p]
      BY <1>2, <2>3 DEF I!FulfilTake, OrdersInv, OrdersTyped, I!TypeOK
    <3>2. PICK state \in {I!Idle, [step |-> "find", order |-> o]} : I!To(c, state)
      BY <1>2 DEF I!FulfilTake
    <3> QED BY <2>1, <2>2, <2>3, <3>1, <3>2, FarOrder DEF I!Idle, Handling
  <2>4. ASSUME o \notin raced PROVE Undisturbed(o)'
    <3>1. /\ Undisturbed(o) /\ Settled(o)
          /\ order[o].status \in {"pending", "processing"} /\ call[c].step = "take"
      BY <1>2, <2>1, <2>4 DEF OrdersInv, Undisturbed, CallReads, I!FulfilTake, I!At
    <3>2. order'[o].status \in {"pending", "processing"}
      <4>1. order[o] \in [status : I!OrderStatuses, quantity : Sizes] \cup {I!NoOrder}
        BY <2>1 DEF OrdersInv, OrdersTyped, I!TypeOK
      <4> QED BY <1>2, <2>1, <3>1, <4>1 DEF I!FulfilTake, I!NoOrder, OrdersInv, OrdersTyped,
                                            I!TypeOK
    <3>3. Settled(o)'
      <4>1. shipments[o] \in Seq(I!ShipmentStatuses)
        BY <2>1 DEF OrdersInv, OrdersTyped, I!TypeOK
      <4>2. shipments[o] = << >> \/ shipments[o][1] \in I!ShipmentStatuses
        BY <4>1
      <4>3. shipments[o] = << >> \/ shipments[o][1] = "label_created"
        BY <3>1, <4>2 DEF Settled, I!Follows, I!ShipmentStatuses
      <4> QED BY <2>2, <3>2, <4>3 DEF Settled
    <3>4. PICK state \in {I!Idle, [step |-> "find", order |-> o]} : I!To(c, state)
      BY <1>2 DEF I!FulfilTake
    <3>5. Has(c, o)' => CallReads(c, o)'
      BY <1>1, <2>1, <3>3, <3>4 DEF Has, Handling, I!Idle, CallReads
    <3>6. \A d \in Requests \ {c} : call'[d] = call[d]
      BY <1>1, <2>1, <3>4
    <3>7. Len(shipments'[o]) <= 1
      BY <2>2, <3>1 DEF Undisturbed
    <3> QED BY <2>1, <3>1, <3>3, <3>5, <3>6, <3>7, OwnOrder
  <2> QED BY <2>2, <2>3, <2>4 DEF I!ForwardStep
<1>3. CASE I!ShipFind(c)
  <2>1. o \in Orders /\ Has(c, o) /\ \A p \in Orders : Has(c, p) => p = o
    BY <1>3, CallFields DEF I!ShipFind, I!At, Has, Handling, OrdersInv
  <2>2. raced' = raced /\ shipments' = shipments /\ order' = order
    BY <1>3 DEF I!ShipFind
  <2>3. PICK state : /\ I!To(c, state)
                     /\ \/ state = I!Idle
                        \/ /\ state = [call[c] EXCEPT !.step = "insert"]
                           /\ shipments[o] = << >>
    BY <1>3 DEF I!ShipFind
  <2>4. \/ state = I!Idle
        \/ state.step = "insert" /\ state.order = o /\ shipments[o] = << >>
    <3>1. call[c] \in [step : {"take", "find", "insert"}, order : Orders]
      BY <1>3, CallFields DEF I!ShipFind, I!At, OrdersInv
    <3>2. /\ [call[c] EXCEPT !.step = "insert"].step = "insert"
          /\ [call[c] EXCEPT !.step = "insert"].order = o
      BY <3>1
    <3> QED BY <2>3, <3>2
  <2>5. ASSUME NEW p \in Orders \ raced, p # o PROVE Undisturbed(p)'
    BY <2>1, <2>2, <2>3, <2>4, <2>5, FarOrder DEF I!Idle, Handling
  <2>6. ASSUME o \notin raced PROVE Undisturbed(o)'
    <3>1. Undisturbed(o) /\ Settled(o)
      BY <1>3, <2>1, <2>6 DEF OrdersInv, Undisturbed, CallReads, I!ShipFind, I!At
    <3>2. Settled(o)'
      BY <2>2, <3>1 DEF Settled
    <3>3. Has(c, o)' => CallReads(c, o)'
      BY <1>1, <2>1, <2>2, <2>3, <2>4, <3>2 DEF Has, Handling, I!Idle, CallReads
    <3>4. \A d \in Requests \ {c} : call'[d] = call[d]
      BY <1>1, <2>1, <2>3
    <3>5. Len(shipments'[o]) <= 1
      BY <2>2, <3>1 DEF Undisturbed
    <3> QED BY <2>1, <3>1, <3>2, <3>3, <3>4, <3>5, OwnOrder
  <2> QED BY <2>2, <2>5, <2>6 DEF I!ForwardStep
<1>4. CASE I!ShipInsert(c)
  <2>1. o \in Orders /\ Has(c, o) /\ \A p \in Orders : Has(c, p) => p = o
    BY <1>4, CallFields DEF I!ShipInsert, I!At, Has, Handling, OrdersInv
  <2>2. raced' = raced /\ order' = order /\ I!To(c, I!Idle)
    BY <1>4 DEF I!ShipInsert
  <2>3. \A p \in Orders : shipments'[p] = IF p = o THEN Append(shipments[o], "label_created")
                                          ELSE shipments[p]
    BY <1>4 DEF I!ShipInsert, OrdersInv, OrdersTyped, I!TypeOK
  <2>4. ASSUME NEW p \in Orders \ raced, p # o PROVE Undisturbed(p)'
    BY <2>1, <2>2, <2>3, <2>4, FarOrder DEF I!Idle, Handling
  <2>5. ASSUME o \notin raced PROVE Undisturbed(o)'
    <3>1. Undisturbed(o) /\ Settled(o) /\ shipments[o] = << >>
      BY <1>4, <2>1, <2>5 DEF OrdersInv, Undisturbed, CallReads, I!ShipInsert, I!At
    <3>2. shipments'[o] = << "label_created" >>
      BY <2>1, <2>3, <3>1
    <3>3. Settled(o)'
      BY <2>2, <3>1, <3>2 DEF Settled
    <3>4. ~Has(c, o)' /\ \A d \in Requests \ {c} : call'[d] = call[d]
      BY <1>1, <2>1, <2>2 DEF Has, Handling, I!Idle
    <3>5. Len(shipments'[o]) <= 1
      BY <3>2
    <3> QED BY <2>1, <3>1, <3>3, <3>4, <3>5, OwnOrder
  <2>6. I!ForwardStep
    <3>1. \A p \in Orders : shipments[p] \in Seq(I!ShipmentStatuses)
      BY DEF OrdersInv, OrdersTyped, I!TypeOK
    <3>2. ASSUME NEW p \in Orders, NEW n \in DOMAIN shipments[p]
          PROVE  shipments'[p][n] = shipments[p][n]
      <4>1. n \in 1..Len(shipments[p])
        BY <3>1
      <4>2. Append(shipments[p], "label_created")[n] = shipments[p][n]
        BY <3>1, <4>1
      <4> QED BY <2>3, <4>2
    <3> QED BY <3>2 DEF I!ForwardStep
  <2> QED BY <2>2, <2>4, <2>5, <2>6
<1>5. CASE I!MoveSave(c)
  <2>1. /\ o \in Orders /\ Has(c, o) /\ \A p \in Orders : Has(c, p) => p = o
        /\ call[c] \in [step : {"move", "follow"}, order : Orders, n : Nat,
                        to : I!ShipmentStatuses]
        /\ call[c].step = "move" /\ call[c].n \in DOMAIN shipments[o]
    BY <1>5, CallFields DEF I!MoveSave, I!At, Has, Handling, OrdersInv, OrdersTyped, CallKnows
  <2>2. raced' = raced /\ order' = order /\ I!To(c, [call[c] EXCEPT !.step = "follow"])
    BY <1>5 DEF I!MoveSave
  <2>3. /\ [call[c] EXCEPT !.step = "follow"].step = "follow"
        /\ [call[c] EXCEPT !.step = "follow"].order = o
        /\ [call[c] EXCEPT !.step = "follow"].to = to
    BY <2>1
  <2>4. \A p \in Orders : shipments'[p] = IF p = o THEN [shipments[o] EXCEPT ![call[c].n] = to]
                                          ELSE shipments[p]
    BY <1>5 DEF I!MoveSave, OrdersInv, OrdersTyped, I!TypeOK
  <2>5. ASSUME NEW p \in Orders \ raced, p # o PROVE Undisturbed(p)'
    BY <2>1, <2>2, <2>3, <2>4, <2>5, FarOrder
  <2>6. ASSUME o \notin raced
        PROVE  /\ shipments[o] \in Seq(I!ShipmentStatuses) /\ Len(shipments[o]) = 1
               /\ call[c].n = 1 /\ to \in I!Allowed[shipments[o][1]] /\ Undisturbed(o)
    <3>1. /\ shipments[o] \in Seq(I!ShipmentStatuses) /\ Undisturbed(o)
          /\ call[c].n = 1 /\ to \in I!Allowed[shipments[o][1]]
      BY <2>1, <2>6 DEF OrdersInv, OrdersTyped, I!TypeOK, Undisturbed, CallReads
    <3>2. Len(shipments[o]) \in Nat /\ Len(shipments[o]) <= 1 /\ 1 \in 1..Len(shipments[o])
      BY <2>1, <3>1 DEF Undisturbed
    <3>3. \A m \in Nat : m <= 1 /\ 1 \in 1..m => m = 1
      OBVIOUS
    <3>4. Len(shipments[o]) = 1
      BY <3>2, <3>3
    <3> QED BY <3>1, <3>4
  <2>7. ASSUME o \notin raced PROVE Undisturbed(o)'
    <3>1. shipments'[o] = << to >>
      BY <2>1, <2>4, <2>6, <2>7
    <3>2. Has(c, o)' /\ CallReads(c, o)' /\ \A d \in Requests \ {c} : call'[d] = call[d]
      BY <1>1, <2>1, <2>2, <2>3, <3>1 DEF Has, Handling, CallReads
    <3>3. Len(shipments'[o]) <= 1
      BY <3>1
    <3> QED BY <2>1, <2>6, <2>7, <3>2, <3>3, OwnOrder
  <2>8. I!ForwardStep
    <3>1. ASSUME NEW p \in Orders \ raced', NEW n \in DOMAIN shipments[p]
          PROVE  \/ shipments'[p][n] = shipments[p][n]
                 \/ shipments'[p][n] \in I!Allowed[shipments[p][n]]
      <4>1. CASE p # o BY <2>4, <4>1
      <4>2. CASE p = o
        <5>1. n = 1 /\ shipments'[o][1] = to
          BY <2>1, <2>2, <2>4, <2>6, <3>1, <4>2
        <5> QED BY <2>2, <2>6, <4>2, <5>1
      <4> QED BY <4>1, <4>2
    <3> QED BY <3>1 DEF I!ForwardStep
  <2> QED BY <2>2, <2>5, <2>7, <2>8
<1>6. CASE I!MoveOrder(c)
  <2>1. /\ o \in Orders /\ Has(c, o) /\ \A p \in Orders : Has(c, p) => p = o
        /\ to \in I!ShipmentStatuses \ {"label_created"} /\ order[o] # I!NoOrder
    BY <1>6, CallFields DEF I!MoveOrder, I!At, Has, Handling, OrdersInv, OrdersTyped, CallKnows
  <2>2. raced' = raced /\ shipments' = shipments /\ I!To(c, I!Idle)
    BY <1>6 DEF I!MoveOrder
  <2>3. ASSUME NEW p \in Orders \ raced, p # o PROVE Undisturbed(p)'
    <3>1. order'[p] = order[p]
      BY <1>6, <2>3 DEF I!MoveOrder, OrdersInv, OrdersTyped, I!TypeOK
    <3> QED BY <2>1, <2>2, <2>3, <3>1, FarOrder DEF I!Idle, Handling
  <2>4. ASSUME o \notin raced PROVE Undisturbed(o)'
    <3>1. Undisturbed(o) /\ shipments[o] = << to >>
      BY <1>6, <2>1, <2>4 DEF OrdersInv, Undisturbed, CallReads, I!MoveOrder, I!At
    <3>2. order'[o].status = I!Follows(to)
      <4>1. order[o] \in [status : I!OrderStatuses, quantity : Sizes]
        BY <2>1 DEF OrdersInv, OrdersTyped, I!TypeOK
      <4> QED BY <1>6, <2>1, <4>1 DEF I!MoveOrder, OrdersInv, OrdersTyped, I!TypeOK
    <3>3. Settled(o)'
      BY <2>1, <2>2, <3>1, <3>2 DEF Settled
    <3>4. ~Has(c, o)' /\ \A d \in Requests \ {c} : call'[d] = call[d]
      BY <1>1, <2>1, <2>2 DEF Has, Handling, I!Idle
    <3>5. Len(shipments'[o]) <= 1
      BY <2>2, <3>1 DEF Undisturbed
    <3> QED BY <2>1, <3>1, <3>3, <3>4, <3>5, OwnOrder
  <2> QED BY <2>2, <2>3, <2>4 DEF I!ForwardStep
<1>7. CASE I!CallStops(c)
  <2>1. UNCHANGED <<order, shipments>> /\ I!To(c, I!Idle)
    BY <1>7 DEF I!CallStops
  <2>2. \A p \in Orders \ raced' : p \notin raced /\ ~Has(c, p)
    BY <1>7, CallFields DEF I!CallStops, Has, Handling, OrdersInv
  <2> QED BY <2>1, <2>2, FarOrder DEF I!ForwardStep, I!Idle, Handling
<1> QED BY <1>2, <1>3, <1>4, <1>5, <1>6, <1>7

LEMMA OrdersStep ==
  ASSUME OrdersInv, I!Next
  PROVE  OrdersInv' /\ I!ForwardStep
<1>1. OrdersTyped'
  BY OrdersStayTyped DEF OrdersInv
<1>2. (\A o \in Orders \ raced' : Undisturbed(o)') /\ I!ForwardStep
  BY QuietSteps, TakingSteps, GoingSteps DEF I!Next
<1> QED BY <1>1, <1>2 DEF OrdersInv

LEMMA OrdersBegin == I!Init => OrdersInv
<1> SUFFICES ASSUME I!Init PROVE OrdersInv
  OBVIOUS
<1>1. I!TypeOK
  <2>1. stock \in [quantity : Nat, reserved : Nat] /\ variant \in Nat
    BY StockAssumption DEF I!Init
  <2>2. reservation \in [Reservations -> [status : {"none", "active", "released"},
                                          quantity : Nat]]
    BY DEF I!Init, I!NoReservation
  <2>3. /\ order \in [Orders -> [status : I!OrderStatuses, quantity : Sizes] \cup {I!NoOrder}]
        /\ shipments \in [Orders -> Seq(I!ShipmentStatuses)]
    BY DEF I!Init
  <2>4. rare \in 0..MaxInventoryRare /\ minted \in 0..MaxMinted
    BY BoundsAssumption DEF I!Init
  <2> QED BY <2>1, <2>2, <2>3, <2>4 DEF I!Init, I!TypeOK
<1>2. OrdersTyped
  BY <1>1 DEF I!Init, I!Idle, OrdersTyped, CallKnows, Handling
<1>3. \A o \in Orders : Undisturbed(o)
  BY DEF I!Init, I!Idle, I!NoOrder, Undisturbed, Has, Handling, Settled
<1> QED BY <1>2, <1>3 DEF OrdersInv

LEMMA OrdersFollow == OrdersInv => I!OrderFollowsShipment
<1> SUFFICES ASSUME OrdersInv, NEW o \in Orders \ raced
             PROVE  /\ Len(shipments[o]) <= 1
                    /\ I!InHand(o) = {} => Settled(o)
  BY DEF I!OrderFollowsShipment, Settled
<1> QED BY HandsAre DEF OrdersInv, Undisturbed

(***************************************************************************)
(* What is reserved, held and ordered (Inventory).                         *)
(***************************************************************************)

HeldBy == [r \in Reservations |->
             IF reservation[r].status = "active" THEN reservation[r].quantity ELSE 0]
InOrders == [o \in Orders |-> I!Larger(0, order[o].quantity)]

(* The stock of an order that is taken and not saved yet.                  *)
Taken == [c \in Requests |->
            IF call[c].step = "ordered" THEN I!Larger(0, call[c].quantity) ELSE 0]

Amounts ==
  /\ HeldBy \in [Reservations -> Nat] /\ InOrders \in [Orders -> Nat] /\ Taken \in [Requests -> Nat]
  /\ stock.reserved \in Nat /\ stock.quantity \in Nat /\ variant \in Nat
  /\ eaten \in Nat /\ minted \in Nat /\ conjured \in Nat

ReservedInv ==
  ~restocked =>
    /\ stock.reserved <= Total(HeldBy, Reservations) + conjured
    /\ Total(HeldBy, Reservations) + conjured <= stock.reserved + eaten
    /\ stock.reserved <= stock.quantity
    /\ \A c \in Requests : call[c].step = "restock" => call[c].reserved = stock.reserved

OrderedInv ==
  ~resold =>
    /\ variant + Total(InOrders, Orders) + Total(Taken, Requests) <= MaxStock + minted
    /\ \A c \in Requests : call[c].step = "ordering" =>
         /\ call[c].seen = variant
         /\ \A d \in Requests : call[d].step = "ordering" => d = c

StockInv == Amounts /\ ReservedInv /\ OrderedInv

LEMMA HeldIsTotal ==
  ASSUME HeldBy \in [Reservations -> Nat]
  PROVE  I!Held = Total(HeldBy, Reservations)
<1> PICK S : S = I!Active
  OBVIOUS
<1> PICK f : f = [r \in S |-> reservation[r].quantity]
  OBVIOUS
<1> DEFINE G(t) == [s \in SUBSET S |->
                      IF s = {} THEN 0
                      ELSE LET x == CHOOSE x \in s : TRUE
                           IN  reservation[x].quantity + t[s \ {x}]]
<1>1. S \subseteq Reservations /\ \A r \in S : reservation[r].status = "active"
  BY DEF I!Active
<1>2. IsFiniteSet(S)
  BY <1>1, IdsAssumption, FS_Subset
<1>3. \A r \in S : f[r] \in Nat
  BY <1>1 DEF HeldBy
<1>4. I!Held = (CHOOSE t : t = G(t))[S]
  BY DEF I!Held, I!MapThenSumSet, I!MapThenFoldSet
<1>5. ASSUME NEW t PROVE AddsUp(t, f, S) <=> t = G(t)
  <2>1. \A s \in SUBSET S : s # {} => f[First(s)] = reservation[First(s)].quantity
    BY DEF First
  <2>2. [s \in SUBSET S |-> IF s = {} THEN 0 ELSE f[First(s)] + t[s \ {First(s)}]] = G(t)
    BY <2>1 DEF First
  <2> QED BY <2>2 DEF AddsUp
<1>6. \E t : t = G(t)
  <2>1. PICK t : AddsUp(t, f, S)
    BY <1>2, <1>3, SumsExist
  <2> HIDE DEF G
  <2>2. t = G(t)
    BY <1>5, <2>1
  <2> QED BY <2>2
<1>7. PICK u : u = CHOOSE t : t = G(t)
  OBVIOUS
<1>8. u = G(u)
  BY <1>6, <1>7
<1>9. u[S] = Total(f, S)
  BY <1>2, <1>3, <1>5, <1>8, SumsAreTotals
<1>10. Units(f, S) = Units(HeldBy, Reservations)
  BY <1>1 DEF Units, HeldBy, I!Active
<1> QED BY <1>4, <1>7, <1>9, <1>10 DEF Total

LEMMA OrderedIsTotal ==
  ASSUME InOrders \in [Orders -> Nat]
  PROVE  I!MapThenSumSet(LAMBDA o : I!Larger(0, order[o].quantity), Orders) = Total(InOrders, Orders)
<1> DEFINE G(t) == [s \in SUBSET Orders |->
                      IF s = {} THEN 0
                      ELSE LET x == CHOOSE x \in s : TRUE
                           IN  I!Larger(0, order[x].quantity) + t[s \ {x}]]
<1>1. IsFiniteSet(Orders) /\ \A o \in Orders : InOrders[o] \in Nat
  BY IdsAssumption
<1>2. I!MapThenSumSet(LAMBDA o : I!Larger(0, order[o].quantity), Orders) = (CHOOSE t : t = G(t))[Orders]
  BY DEF I!MapThenSumSet, I!MapThenFoldSet
<1>3. ASSUME NEW t PROVE AddsUp(t, InOrders, Orders) <=> t = G(t)
  <2>1. \A s \in SUBSET Orders : s # {} => InOrders[First(s)] = I!Larger(0, order[First(s)].quantity)
    BY DEF First, InOrders
  <2>2. [s \in SUBSET Orders |->
           IF s = {} THEN 0 ELSE InOrders[First(s)] + t[s \ {First(s)}]] = G(t)
    BY <2>1 DEF First
  <2> QED BY <2>2 DEF AddsUp
<1>4. \E t : t = G(t)
  <2>1. PICK t : AddsUp(t, InOrders, Orders)
    BY <1>1, SumsExist
  <2> HIDE DEF G
  <2>2. t = G(t)
    BY <1>3, <2>1
  <2> QED BY <2>2
<1>5. PICK u : u = CHOOSE t : t = G(t)
  OBVIOUS
<1>6. u = G(u)
  BY <1>4, <1>5
<1>7. u[Orders] = Total(InOrders, Orders)
  BY <1>1, <1>3, <1>6, SumsAreTotals
<1> QED BY <1>2, <1>5, <1>7

LEMMA AmountsTyped == OrdersTyped => Amounts
<1> SUFFICES ASSUME OrdersTyped PROVE Amounts
  OBVIOUS
<1>1. I!TypeOK
  BY DEF OrdersTyped
<1>2. HeldBy \in [Reservations -> Nat]
  <2>1. \A r \in Reservations : reservation[r].quantity \in Nat
    BY <1>1 DEF I!TypeOK
  <2> QED BY <2>1 DEF HeldBy
<1>3. InOrders \in [Orders -> Nat]
  <2>1. \A o \in Orders : order[o].quantity \in Sizes \cup {0}
    BY <1>1 DEF I!TypeOK, I!NoOrder
  <2>2. ASSUME NEW o \in Orders PROVE order[o].quantity \in Int
    <3>1. CASE order[o].quantity \in Sizes
      BY <3>1, SizesAssumption
    <3>2. CASE order[o].quantity = 0
      BY <3>2
    <3> QED BY <2>1, <3>1, <3>2
  <2> QED BY <2>2 DEF InOrders, I!Larger
<1>4. Taken \in [Requests -> Nat]
  <2>1. \A c \in Requests : call[c].step = "ordered" => call[c].quantity \in Int
    BY <1>1, CallFields, SizesAssumption
  <2> QED BY <2>1 DEF Taken, I!Larger
<1>5. /\ stock.reserved \in Nat /\ stock.quantity \in Nat /\ variant \in Nat
      /\ eaten \in Nat /\ minted \in Nat /\ conjured \in Nat
  BY <1>1 DEF I!TypeOK
<1> QED BY <1>2, <1>3, <1>4, <1>5 DEF Amounts

(* Steps that leave stock and reservations alone.                          *)
LEMMA ReservedKept ==
  ASSUME ReservedInv, UNCHANGED <<stock, reservation, restocked, eaten, conjured>>,
         \A c \in Requests : call'[c].step = "restock" => call'[c] = call[c]
  PROVE  ReservedInv'
<1>1. HeldBy' = HeldBy
  BY DEF HeldBy
<1>2. Total(HeldBy, Reservations)' = Total(HeldBy, Reservations)
  BY <1>1
<1> QED BY <1>2 DEF ReservedInv

(* One value of a sum changes: the same for the state's sums.              *)
LEMMA HeldChanges ==
  ASSUME Amounts, Amounts', NEW r \in Reservations,
         \A q \in Reservations \ {r} : reservation'[q] = reservation[q]
  PROVE  /\ Total(HeldBy, Reservations) \in Nat /\ Total(HeldBy, Reservations)' \in Nat
         /\ HeldBy[r] <= Total(HeldBy, Reservations)
         /\ Total(HeldBy, Reservations)' = (Total(HeldBy, Reservations) - HeldBy[r]) + HeldBy'[r]
<1>1. PICK f, g : f = HeldBy /\ g = HeldBy'
  OBVIOUS
<1>2. f \in [Reservations -> Nat] /\ g \in [Reservations -> Nat]
  BY <1>1 DEF Amounts
<1>3. \A q \in Reservations \ {r} : g[q] = f[q]
  BY <1>1 DEF HeldBy
<1>4. /\ Total(f, Reservations) \in Nat /\ Total(g, Reservations) \in Nat
      /\ f[r] <= Total(f, Reservations)
      /\ Total(g, Reservations) = (Total(f, Reservations) - f[r]) + g[r]
  BY <1>2, <1>3, IdsFinite, TotalChanges
<1>5. Total(HeldBy, Reservations) = Total(f, Reservations)
  BY <1>1
<1>6. Total(HeldBy, Reservations)' = Total(g, Reservations)
  BY <1>1
<1> QED BY <1>1, <1>4, <1>5, <1>6

LEMMA TakenChanges ==
  ASSUME Amounts, Amounts', NEW c \in Requests,
         \A d \in Requests \ {c} : call'[d] = call[d]
  PROVE  /\ Total(Taken, Requests) \in Nat /\ Total(Taken, Requests)' \in Nat
         /\ Taken[c] <= Total(Taken, Requests)
         /\ Total(Taken, Requests)' = (Total(Taken, Requests) - Taken[c]) + Taken'[c]
<1>1. PICK f, g : f = Taken /\ g = Taken'
  OBVIOUS
<1>2. f \in [Requests -> Nat] /\ g \in [Requests -> Nat]
  BY <1>1 DEF Amounts
<1>3. \A d \in Requests \ {c} : g[d] = f[d]
  BY <1>1 DEF Taken
<1>4. /\ Total(f, Requests) \in Nat /\ Total(g, Requests) \in Nat
      /\ f[c] <= Total(f, Requests)
      /\ Total(g, Requests) = (Total(f, Requests) - f[c]) + g[c]
  BY <1>2, <1>3, IdsFinite, TotalChanges
<1>5. Total(Taken, Requests) = Total(f, Requests)
  BY <1>1
<1>6. Total(Taken, Requests)' = Total(g, Requests)
  BY <1>1
<1> QED BY <1>1, <1>4, <1>5, <1>6

LEMMA OrderedChanges ==
  ASSUME Amounts, Amounts', NEW o \in Orders,
         \A p \in Orders \ {o} : order'[p].quantity = order[p].quantity
  PROVE  /\ Total(InOrders, Orders) \in Nat /\ Total(InOrders, Orders)' \in Nat
         /\ InOrders[o] <= Total(InOrders, Orders)
         /\ Total(InOrders, Orders)' = (Total(InOrders, Orders) - InOrders[o]) + InOrders'[o]
<1>1. PICK f, g : f = InOrders /\ g = InOrders'
  OBVIOUS
<1>2. f \in [Orders -> Nat] /\ g \in [Orders -> Nat]
  BY <1>1 DEF Amounts
<1>3. \A p \in Orders \ {o} : g[p] = f[p]
  BY <1>1 DEF InOrders
<1>4. /\ Total(f, Orders) \in Nat /\ Total(g, Orders) \in Nat
      /\ f[o] <= Total(f, Orders)
      /\ Total(g, Orders) = (Total(f, Orders) - f[o]) + g[o]
  BY <1>2, <1>3, IdsFinite, TotalChanges
<1>5. Total(InOrders, Orders) = Total(f, Orders)
  BY <1>1
<1>6. Total(InOrders, Orders)' = Total(g, Orders)
  BY <1>1
<1> QED BY <1>1, <1>4, <1>5, <1>6

(* Steps that leave the variant and what is ordered alone; a request that  *)
(* stops may lose what it took.                                            *)
LEMMA OrderedKept ==
  ASSUME Amounts, Amounts', OrderedInv, NEW c \in Requests,
         UNCHANGED <<variant, resold, minted>>,
         \A o \in Orders : order'[o].quantity = order[o].quantity,
         \A d \in Requests \ {c} : call'[d] = call[d],
         call'[c].step \notin {"ordering", "ordered"} \/ call'[c] = call[c]
  PROVE  OrderedInv'
<1>1. InOrders' = InOrders
  BY DEF InOrders
<1>2. Total(InOrders, Orders)' = Total(InOrders, Orders)
  BY <1>1
<1>3. Taken'[c] <= Taken[c] /\ Taken[c] \in Nat /\ Taken'[c] \in Nat
  <2>1. Taken[c] \in Nat /\ Taken'[c] \in Nat
    BY DEF Amounts
  <2>2. Taken'[c] = 0 \/ Taken'[c] = Taken[c]
    BY DEF Taken
  <2> QED BY <2>1, <2>2
<1>4. /\ Total(Taken, Requests) \in Nat /\ Total(Taken, Requests)' \in Nat
      /\ Total(Taken, Requests)' = (Total(Taken, Requests) - Taken[c]) + Taken'[c]
  BY TakenChanges
<1>5. Total(InOrders, Orders) \in Nat
  <2>1. InOrders \in [Orders -> Nat]
    BY DEF Amounts
  <2> QED BY <2>1, IdsFinite, UnitsFinite
<1>6. ASSUME ~resold
      PROVE  (variant + Total(InOrders, Orders) + Total(Taken, Requests) <= MaxStock + minted)'
  <2>1. variant + Total(InOrders, Orders) + Total(Taken, Requests) <= MaxStock + minted
    BY <1>6 DEF OrderedInv
  <2>2. variant' = variant /\ variant \in Nat /\ minted' = minted /\ minted \in Nat
    BY DEF Amounts
  <2> QED BY <1>2, <1>3, <1>4, <1>5, <2>1, <2>2, StockAssumption
<1>7. \A d \in Requests : call'[d].step = "ordering" => call'[d] = call[d]
  OBVIOUS
<1> QED BY <1>6, <1>7 DEF OrderedInv

LEMMA AmountsLater == OrdersTyped' => Amounts'
<1> SUFFICES ASSUME OrdersTyped' PROVE Amounts'
  OBVIOUS
<1>1. I!TypeOK'
  BY DEF OrdersTyped
<1>2. HeldBy' \in [Reservations -> Nat]
  <2>1. \A r \in Reservations : reservation'[r].quantity \in Nat
    BY <1>1 DEF I!TypeOK
  <2> QED BY <2>1 DEF HeldBy
<1>3. InOrders' \in [Orders -> Nat]
  <2>1. \A o \in Orders : order'[o].quantity \in Sizes \cup {0}
    BY <1>1 DEF I!TypeOK, I!NoOrder
  <2>2. ASSUME NEW o \in Orders PROVE order'[o].quantity \in Int
    <3>1. CASE order'[o].quantity \in Sizes
      BY <3>1, SizesAssumption
    <3>2. CASE order'[o].quantity = 0
      BY <3>2
    <3> QED BY <2>1, <3>1, <3>2
  <2> QED BY <2>2 DEF InOrders, I!Larger
<1>4. Taken' \in [Requests -> Nat]
  <2>1. ASSUME NEW c \in Requests, call'[c].step = "ordered" PROVE call'[c].quantity \in Int
    <3>1. call'[c] \in [step : {"ordered"}, quantity : Sizes]
      BY <1>1, <2>1 DEF I!TypeOK, I!Idle
    <3> QED BY <3>1, SizesAssumption
  <2> QED BY <2>1 DEF Taken, I!Larger
<1>5. /\ stock'.reserved \in Nat /\ stock'.quantity \in Nat /\ variant' \in Nat
      /\ eaten' \in Nat /\ minted' \in Nat /\ conjured' \in Nat
  BY <1>1 DEF I!TypeOK
<1> QED BY <1>2, <1>3, <1>4, <1>5 DEF Amounts

(* fulfillOrder's transaction.                                             *)
LEMMA TakeKeepsStock ==
  ASSUME OrdersTyped, ReservedInv, OrderedInv, Amounts, Amounts', NEW c \in Requests, I!FulfilTake(c)
  PROVE  StockInv'
<1>1. call = [d \in Requests |-> call[d]]
  BY DEF OrdersTyped
<1>2. PICK o \in Orders : o = call[c].order /\ call[c].step = "take"
  BY CallFields DEF I!FulfilTake, I!At
<1>3. CASE I!Available < order[o].quantity
  <2>1. /\ UNCHANGED <<stock, variant, order, reservation, I!history>>
        /\ call' = [call EXCEPT ![c] = I!Idle]
    BY <1>2, <1>3 DEF I!FulfilTake, I!To
  <2>2. call'[c] = I!Idle /\ \A d \in Requests \ {c} : call'[d] = call[d]
    BY <1>1, <2>1
  <2>3. ReservedInv'
    BY <2>1, <2>2, ReservedKept DEF I!Idle, I!history
  <2>4. OrderedInv'
    BY <2>1, <2>2, OrderedKept DEF I!Idle, I!history
  <2> QED BY <2>3, <2>4 DEF StockInv
<1>4. CASE ~(I!Available < order[o].quantity)
  <2> PICK q : q = order[o].quantity
    OBVIOUS
  <2>1. q \in Int
    BY SizesAssumption DEF OrdersTyped, I!TypeOK, I!NoOrder
  <2>2. /\ stock' = [quantity |-> stock.quantity - q, reserved |-> I!Larger(0, stock.reserved - q)]
        /\ variant' = I!Larger(0, variant - q)
        /\ order' = [order EXCEPT ![o].status = "processing"]
        /\ call' = [call EXCEPT ![c] = [step |-> "find", order |-> o]]
        /\ restocked' = (restocked \/ I!Busy("restock"))
        /\ I!Mint(q)
        /\ eaten' = eaten + I!Larger(0, stock.reserved - stock'.reserved)
        /\ conjured' = conjured + I!Larger(0, stock'.reserved - stock.reserved)
        /\ resold' = (resold \/ I!Busy("ordering"))
        /\ UNCHANGED reservation
    BY <1>2, <1>4 DEF I!FulfilTake, I!To
  <2>3. /\ call'[c] = [step |-> "find", order |-> o]
        /\ \A d \in Requests \ {c} : call'[d] = call[d]
    BY <1>1, <2>2
  <2>4. stock.quantity - stock.reserved >= q /\ stock.quantity \in Nat /\ stock.reserved \in Nat
    BY <1>4, <2>1 DEF I!Available, Amounts
  <2>5. ReservedInv'
    <3>1. Total(HeldBy, Reservations)' = Total(HeldBy, Reservations)
      <4>1. HeldBy' = HeldBy
        BY <2>2 DEF HeldBy
      <4> QED BY <4>1
    <3>2. Total(HeldBy, Reservations) \in Nat
      BY IdsFinite, UnitsFinite DEF Amounts
    <3>3. /\ stock'.reserved = IF 0 > stock.reserved - q THEN 0 ELSE stock.reserved - q
          /\ stock'.quantity = stock.quantity - q
      BY <2>2 DEF I!Larger
    <3>4. restocked' \/ (~restocked /\ \A d \in Requests : call[d].step # "restock")
      BY <2>2 DEF I!Busy, I!At
    <3>5. \A d \in Requests : call'[d].step = "restock" => call'[d] = call[d]
      BY <2>3
    <3>6. /\ eaten \in Nat /\ conjured \in Nat
          /\ eaten' = eaten + I!Larger(0, stock.reserved - stock'.reserved)
          /\ conjured' = conjured + I!Larger(0, stock'.reserved - stock.reserved)
      BY <2>2 DEF Amounts
    <3>7. CASE q < 0
      <4>1. stock'.reserved = stock.reserved - q /\ stock'.quantity = stock.quantity - q
        BY <2>1, <2>4, <3>3, <3>7
      <4>2. eaten' = eaten /\ conjured' = conjured - q
        BY <2>1, <2>4, <3>6, <3>7, <4>1 DEF I!Larger
      <4> QED BY <2>1, <2>4, <3>1, <3>2, <3>4, <3>5, <3>6, <3>7, <4>1, <4>2 DEF ReservedInv
    <3>8. CASE ~(q < 0)
      <4>1. /\ stock'.reserved <= stock.reserved /\ stock'.reserved \in Nat
            /\ stock'.reserved <= stock'.quantity
        BY <2>1, <2>4, <3>3, <3>8
      <4>2. eaten' = eaten + (stock.reserved - stock'.reserved) /\ conjured' = conjured
        BY <2>4, <3>6, <4>1 DEF I!Larger
      <4> QED BY <2>4, <3>1, <3>2, <3>4, <3>5, <3>6, <4>1, <4>2 DEF ReservedInv
    <3> QED BY <3>7, <3>8
  <2>6. OrderedInv'
    <3>1. InOrders' = InOrders
      BY <2>2 DEF InOrders, OrdersTyped, I!TypeOK, I!NoOrder
    <3>2. Taken' = Taken
      BY <1>2, <2>3 DEF Taken
    <3>3. /\ Total(InOrders, Orders)' = Total(InOrders, Orders)
          /\ Total(Taken, Requests)' = Total(Taken, Requests)
      BY <3>1, <3>2
    <3>4. Total(InOrders, Orders) \in Nat /\ Total(Taken, Requests) \in Nat
      BY IdsFinite, UnitsFinite DEF Amounts
    <3>5. /\ variant \in Nat /\ variant' \in Nat /\ minted \in Nat /\ minted' \in Nat
          /\ variant' <= variant + (minted' - minted)
      <4>1. minted' = IF q < 0 THEN minted - q ELSE minted
        BY <2>1, <2>2, MintBounded DEF Amounts
      <4>2. variant' = IF 0 > variant - q THEN 0 ELSE variant - q
        BY <2>2 DEF I!Larger
      <4> QED BY <2>1, <4>1, <4>2 DEF Amounts
    <3>6. resold' \/ (~resold /\ \A d \in Requests : call[d].step # "ordering")
      BY <2>2 DEF I!Busy, I!At
    <3>7. \A d \in Requests : call'[d].step = "ordering" => call'[d] = call[d]
      BY <2>3
    <3>8. ASSUME ~resold
          PROVE  (variant + Total(InOrders, Orders) + Total(Taken, Requests) <= MaxStock + minted)'
      <4> PICK a, b, m, n, u, v : /\ a = Total(InOrders, Orders) /\ b = Total(Taken, Requests)
                                  /\ m = minted /\ n = minted' /\ u = variant /\ v = variant'
        OBVIOUS
      <4>1. u + a + b <= MaxStock + m
        BY <3>8 DEF OrderedInv
      <4>2. /\ {a, b, m, n, u, v} \subseteq Nat /\ v <= u + (n - m)
        BY <3>4, <3>5
      <4>3. v + a + b <= MaxStock + n
        BY <4>1, <4>2, StockAssumption
      <4> QED BY <3>3, <4>3
    <3> QED BY <3>6, <3>7, <3>8 DEF OrderedInv
  <2> QED BY <2>5, <2>6 DEF StockInv
<1> QED BY <1>3, <1>4

(* Calls on orders and shipments that move no stock.                       *)
LEMMA OthersKeepStock ==
  ASSUME OrdersTyped, ReservedInv, OrderedInv, Amounts, Amounts', NEW c \in Requests,
         \/ \E o \in Orders : I!FulfilLoad(c, o) \/ I!ShipOrder(c, o)
         \/ I!ShipFind(c) \/ I!ShipInsert(c)
         \/ \E o \in Orders, to \in I!ShipmentStatuses :
               \E n \in DOMAIN shipments[o] : I!MoveLoad(c, o, n, to)
         \/ I!MoveSave(c) \/ I!MoveOrder(c) \/ I!CallStops(c)
  PROVE  StockInv'
<1>1. call = [d \in Requests |-> call[d]]
  BY DEF OrdersTyped
<1>2. UNCHANGED <<stock, variant, reservation, restocked, eaten, minted, conjured, resold>>
  BY DEF I!FulfilLoad, I!ShipOrder, I!ShipFind, I!ShipInsert, I!MoveLoad, I!MoveSave, I!MoveOrder,
         I!CallStops, I!history
<1>3. /\ \A d \in Requests \ {c} : call'[d] = call[d]
      /\ call'[c].step \notin {"ordering", "ordered", "restock"}
  <2>1. CASE I!ShipFind(c)
    <3>1. call[c].step = "find" /\ call[c] \in [step : {"take", "find", "insert"}, order : Orders]
      BY <2>1, CallFields DEF I!ShipFind, I!At
    <3> QED BY <1>1, <2>1, <3>1 DEF I!ShipFind, I!To, I!Idle
  <2>2. CASE I!MoveSave(c)
    <3>1. call[c].step = "move" /\ call[c] \in [step : {"move", "follow"}, order : Orders, n : Nat,
                                                to : I!ShipmentStatuses]
      BY <2>2, CallFields DEF I!MoveSave, I!At
    <3> QED BY <1>1, <2>2, <3>1 DEF I!MoveSave, I!To
  <2>3. CASE I!ShipInsert(c) \/ I!MoveOrder(c) \/ I!CallStops(c)
    BY <1>1, <2>3 DEF I!ShipInsert, I!MoveOrder, I!CallStops, I!To, I!Idle
  <2>4. ASSUME NEW o \in Orders, I!FulfilLoad(c, o) \/ I!ShipOrder(c, o)
        PROVE  /\ \A d \in Requests \ {c} : call'[d] = call[d]
               /\ call'[c].step \notin {"ordering", "ordered", "restock"}
    BY <1>1, <2>4 DEF I!FulfilLoad, I!ShipOrder, I!To
  <2>5. ASSUME NEW o \in Orders, NEW to \in I!ShipmentStatuses, NEW n \in DOMAIN shipments[o],
               I!MoveLoad(c, o, n, to)
        PROVE  /\ \A d \in Requests \ {c} : call'[d] = call[d]
               /\ call'[c].step \notin {"ordering", "ordered", "restock"}
    BY <1>1, <2>5 DEF I!MoveLoad, I!To
  <2> QED BY <2>1, <2>2, <2>3, <2>4, <2>5
<1>4. \A d \in Requests : call'[d].step = "restock" => call'[d] = call[d]
  BY <1>3
<1>5. \A o \in Orders : order'[o].quantity = order[o].quantity
  <2>1. CASE I!MoveOrder(c)
    BY <2>1, CallFields DEF I!MoveOrder, I!At, OrdersTyped, I!TypeOK, I!NoOrder
  <2>2. CASE ~I!MoveOrder(c)
    BY <2>2 DEF I!FulfilLoad, I!ShipOrder, I!ShipFind, I!ShipInsert, I!MoveLoad, I!MoveSave, I!CallStops
  <2> QED BY <2>1, <2>2
<1>6. ReservedInv'
  BY <1>2, <1>4, ReservedKept
<1>7. OrderedInv'
  BY <1>2, <1>3, <1>5, OrderedKept
<1> QED BY <1>6, <1>7 DEF StockInv

LEMMA StockStep ==
  ASSUME OrdersTyped, StockInv, I!Next
  PROVE  StockInv'
<1>1. OrdersTyped' /\ Amounts /\ Amounts' /\ ReservedInv /\ OrderedInv
  <2>1. OrdersTyped'
    BY OrdersStayTyped
  <2> QED BY <2>1, AmountsTyped, AmountsLater DEF StockInv
<1>2. call = [c \in Requests |-> call[c]]
  BY DEF OrdersTyped
<1>3. stock \in [quantity : Nat, reserved : Nat]
  BY DEF OrdersTyped, I!TypeOK
<1>4. ASSUME NEW r \in Reservations, NEW quantity \in Sizes, I!ReserveStock(r, quantity)
      PROVE  StockInv'
  <2>1. HeldBy[r] = 0 /\ HeldBy'[r] = quantity
    BY <1>4 DEF I!ReserveStock, I!NoReservation, HeldBy, OrdersTyped, I!TypeOK
  <2>0. quantity \in Nat
    BY <1>4, SizesAssumption DEF I!ReserveStock
  <2>2. \A q \in Reservations \ {r} : reservation'[q] = reservation[q]
    BY <1>4 DEF I!ReserveStock, OrdersTyped, I!TypeOK
  <2>3. /\ Total(HeldBy, Reservations) \in Nat
        /\ Total(HeldBy, Reservations)' = Total(HeldBy, Reservations) + quantity
    BY <1>1, <2>1, <2>2, <2>0, HeldChanges
  <2>4. /\ stock'.reserved = stock.reserved + quantity /\ stock'.quantity = stock.quantity
        /\ stock.quantity - stock.reserved >= quantity
    BY <1>3, <1>4 DEF I!ReserveStock, I!Available
  <2>6. ReservedInv'
    <3>1. restocked' \/ (~restocked /\ \A c \in Requests : call[c].step # "restock")
      BY <1>4 DEF I!ReserveStock, I!Busy, I!At
    <3>2. eaten' = eaten /\ conjured' = conjured /\ call' = call
      BY <1>4 DEF I!ReserveStock
    <3> QED BY <1>1, <1>3, <2>3, <2>4, <2>0, <3>1, <3>2 DEF ReservedInv, Amounts
  <2>7. OrderedInv'
    BY <1>1, <1>4 DEF I!ReserveStock, OrderedInv, InOrders, Taken
  <2> QED BY <1>1, <2>6, <2>7 DEF StockInv
<1>5. ASSUME NEW r \in Reservations, I!ReleaseReservation(r) PROVE StockInv'
  <2>1. PICK q : q = reservation[r].quantity
    OBVIOUS
  <2>2. HeldBy[r] = q /\ HeldBy'[r] = 0 /\ q \in Nat
    <3>1. HeldBy[r] = q /\ HeldBy'[r] = 0
      BY <1>5, <2>1 DEF I!ReleaseReservation, HeldBy, OrdersTyped, I!TypeOK
    <3> QED BY <1>1, <3>1 DEF Amounts
  <2>3. \A s \in Reservations \ {r} : reservation'[s] = reservation[s]
    BY <1>5 DEF I!ReleaseReservation, OrdersTyped, I!TypeOK
  <2>4. /\ Total(HeldBy, Reservations) \in Nat /\ q <= Total(HeldBy, Reservations)
        /\ Total(HeldBy, Reservations)' = Total(HeldBy, Reservations) - q
    BY <1>1, <2>2, <2>3, HeldChanges
  <2>5. /\ stock'.reserved = IF 0 > stock.reserved - q THEN 0 ELSE stock.reserved - q
        /\ stock'.quantity = stock.quantity
    BY <1>3, <1>5, <2>1 DEF I!ReleaseReservation, I!Larger
  <2>6. ReservedInv'
    <3>1. restocked' \/ (~restocked /\ \A c \in Requests : call[c].step # "restock")
      BY <1>5 DEF I!ReleaseReservation, I!Busy, I!At
    <3>2. eaten' = eaten /\ conjured' = conjured /\ call' = call
      BY <1>5 DEF I!ReleaseReservation
    <3> QED BY <1>1, <1>3, <2>2, <2>4, <2>5, <3>1, <3>2 DEF ReservedInv, Amounts
  <2>7. OrderedInv'
    BY <1>1, <1>5 DEF I!ReleaseReservation, OrderedInv, InOrders, Taken
  <2> QED BY <1>1, <2>6, <2>7 DEF StockInv
<1>6. ASSUME NEW c \in Requests, NEW quantity \in I!Quantities, I!UpsertLoad(c, quantity)
      PROVE  StockInv'
  <2>1. /\ call'[c] = [step |-> "restock", quantity |-> quantity, reserved |-> stock.reserved]
        /\ \A d \in Requests \ {c} : call'[d] = call[d]
    BY <1>2, <1>6 DEF I!UpsertLoad, I!To
  <2>2. ReservedInv'
    <3>1. restocked' \/ (~restocked /\ \A d \in Requests : call[d].step # "restock")
      BY <1>6 DEF I!UpsertLoad, I!Busy, I!At
    <3>2. UNCHANGED <<stock, eaten, conjured>> /\ HeldBy' = HeldBy
      BY <1>6 DEF I!UpsertLoad, HeldBy
    <3>3. Total(HeldBy, Reservations)' = Total(HeldBy, Reservations)
      BY <3>2
    <3> QED BY <1>1, <2>1, <3>1, <3>2, <3>3 DEF ReservedInv
  <2>3. OrderedInv'
    BY <1>1, <1>6, <2>1, OrderedKept DEF I!UpsertLoad
  <2> QED BY <1>1, <2>2, <2>3 DEF StockInv
<1>7. ASSUME NEW c \in Requests, I!UpsertSave(c) PROVE StockInv'
  <2>1. call'[c] = I!Idle /\ \A d \in Requests \ {c} : call'[d] = call[d]
    BY <1>2, <1>7 DEF I!UpsertSave, I!To
  <2>2. ReservedInv'
    <3>1. UNCHANGED <<eaten, conjured>> /\ HeldBy' = HeldBy
      BY <1>7 DEF I!UpsertSave, HeldBy
    <3>2. Total(HeldBy, Reservations)' = Total(HeldBy, Reservations)
      BY <3>1
    <3>3. /\ I!Held = Total(HeldBy, Reservations) /\ Total(HeldBy, Reservations) \in Nat
          /\ conjured \in Nat /\ stock.reserved \in Nat
      BY <1>1, HeldIsTotal, IdsFinite, UnitsFinite DEF Amounts
    <3>4. call[c].quantity \in Nat
      BY <1>7, CallFields, StockAssumption DEF I!UpsertSave, I!At, I!Quantities
    <3>5. /\ stock'.reserved = call[c].reserved /\ stock'.quantity = call[c].quantity
          /\ call[c].step = "restock"
      BY <1>7 DEF I!UpsertSave, I!At
    <3>6. ASSUME ~restocked'
          PROVE  /\ ~restocked /\ Total(HeldBy, Reservations) + conjured <= stock'.quantity
                 /\ stock'.reserved = stock.reserved
      <4>1. ~restocked /\ ~(call[c].quantity < I!Held + conjured)
        BY <1>7, <3>6 DEF I!UpsertSave
      <4> QED BY <1>1, <3>3, <3>4, <3>5, <4>1 DEF ReservedInv
    <3>7. \A d \in Requests : call'[d].step = "restock" => call'[d] = call[d]
      BY <2>1 DEF I!Idle
    <3> QED BY <1>1, <3>1, <3>2, <3>3, <3>4, <3>5, <3>6, <3>7 DEF ReservedInv
  <2>3. OrderedInv'
    BY <1>1, <1>7, <2>1, OrderedKept DEF I!UpsertSave, I!Idle
  <2> QED BY <1>1, <2>2, <2>3 DEF StockInv
<1>8. ASSUME NEW c \in Requests, NEW quantity \in Sizes, I!OrderLoad(c, quantity)
      PROVE  StockInv'
  <2>1. /\ call'[c] = [step |-> "ordering", quantity |-> quantity, seen |-> variant]
        /\ \A d \in Requests \ {c} : call'[d] = call[d]
    BY <1>2, <1>8 DEF I!OrderLoad, I!To
  <2>2. ReservedInv'
    BY <1>1, <1>8, <2>1, ReservedKept DEF I!OrderLoad
  <2>3. OrderedInv'
    <3>1. resold' \/ (~resold /\ \A d \in Requests : call[d].step # "ordering")
      BY <1>8 DEF I!OrderLoad, I!Busy, I!At
    <3>2. variant' = variant /\ minted' = minted /\ InOrders' = InOrders
      BY <1>8 DEF I!OrderLoad, InOrders
    <3>3. Taken' = Taken
      BY <1>8, <2>1 DEF I!OrderLoad, I!Idle, Taken
    <3>4. /\ Total(InOrders, Orders)' = Total(InOrders, Orders)
          /\ Total(Taken, Requests)' = Total(Taken, Requests)
      BY <3>2, <3>3
    <3> QED BY <1>1, <2>1, <3>1, <3>2, <3>4 DEF OrderedInv
  <2> QED BY <1>1, <2>2, <2>3 DEF StockInv
<1>9. ASSUME NEW c \in Requests, I!OrderTake(c) PROVE StockInv'
  <2>1. /\ call'[c] = [step |-> "ordered", quantity |-> call[c].quantity]
        /\ \A d \in Requests \ {c} : call'[d] = call[d]
    BY <1>2, <1>9 DEF I!OrderTake, I!To
  <2>2. ReservedInv'
    BY <1>1, <1>9, <2>1, ReservedKept DEF I!OrderTake
  <2>3. OrderedInv'
    <3>1. call[c].step = "ordering" /\ variant' = call[c].seen - call[c].quantity /\ resold' = resold
      BY <1>9 DEF I!OrderTake, I!At
    <3>2. Total(InOrders, Orders)' = Total(InOrders, Orders)
      <4>1. InOrders' = InOrders
        BY <1>9 DEF I!OrderTake, InOrders
      <4> QED BY <4>1
    <3>3. Taken[c] = 0 /\ Taken'[c] = I!Larger(0, call[c].quantity)
      BY <2>1, <3>1 DEF Taken
    <3>4. /\ Total(Taken, Requests) \in Nat
          /\ Total(Taken, Requests)' = (Total(Taken, Requests) - Taken[c]) + Taken'[c]
      BY <1>1, <2>1, TakenChanges
    <3>5. Total(InOrders, Orders) \in Nat
      BY <1>1, IdsFinite, UnitsFinite DEF Amounts
    <3>6. variant \in Nat /\ Taken'[c] \in Nat /\ minted \in Nat /\ call[c].quantity \in Int
      BY <1>1, <3>1, CallFields, SizesAssumption DEF Amounts
    <3>8. minted' = IF call[c].quantity < 0 THEN minted - call[c].quantity ELSE minted
      BY <1>9, <3>6, MintBounded DEF I!OrderTake
    <3>7. ASSUME ~resold
          PROVE  /\ (variant + Total(InOrders, Orders) + Total(Taken, Requests) <= MaxStock + minted)'
                 /\ \A d \in Requests : call'[d].step # "ordering"
      <4>1. /\ variant + Total(InOrders, Orders) + Total(Taken, Requests) <= MaxStock + minted
            /\ call[c].seen = variant
            /\ \A d \in Requests : call[d].step = "ordering" => d = c
        BY <1>1, <3>1, <3>7 DEF OrderedInv
      <4>2. variant' + Taken'[c] = variant + (minted' - minted) /\ minted' \in Int
        BY <3>1, <3>3, <3>6, <3>8, <4>1 DEF I!Larger
      <4>3. (variant + Total(InOrders, Orders) + Total(Taken, Requests) <= MaxStock + minted)'
        BY <1>1, <3>2, <3>3, <3>4, <3>5, <3>6, <4>1, <4>2, StockAssumption DEF Amounts
      <4> QED BY <2>1, <4>1, <4>3
    <3> QED BY <3>1, <3>7 DEF OrderedInv
  <2> QED BY <1>1, <2>2, <2>3 DEF StockInv
<1>10. ASSUME NEW c \in Requests, NEW o \in Orders, I!OrderSave(c, o) PROVE StockInv'
  <2>1. call'[c] = I!Idle /\ \A d \in Requests \ {c} : call'[d] = call[d]
    BY <1>2, <1>10 DEF I!OrderSave, I!To
  <2>2. ReservedInv'
    BY <1>1, <1>10, <2>1, ReservedKept DEF I!OrderSave, I!Idle, I!history
  <2>3. OrderedInv'
    <3>1. call[c].step = "ordered" /\ UNCHANGED <<variant, resold, minted>>
      BY <1>10 DEF I!OrderSave, I!At, I!history
    <3>2. /\ order[o].quantity = 0 /\ order'[o].quantity = call[c].quantity
          /\ \A p \in Orders \ {o} : order'[p].quantity = order[p].quantity
      BY <1>10 DEF I!OrderSave, I!NoOrder, OrdersTyped, I!TypeOK
    <3>3. InOrders[o] = 0 /\ InOrders'[o] = Taken[c] /\ Taken'[c] = 0 /\ Taken[c] \in Nat
      <4>1. Taken[c] \in Nat
        BY <1>1 DEF Amounts
      <4> QED BY <2>1, <3>1, <3>2, <4>1 DEF InOrders, Taken, I!Idle, I!Larger
    <3>4. /\ Total(InOrders, Orders) \in Nat
          /\ Total(InOrders, Orders)' = Total(InOrders, Orders) + Taken[c]
      BY <1>1, <3>2, <3>3, OrderedChanges
    <3>5. /\ Total(Taken, Requests) \in Nat
          /\ Total(Taken, Requests)' = Total(Taken, Requests) - Taken[c]
      BY <1>1, <2>1, <3>3, TakenChanges
    <3>6. variant \in Nat
      BY <1>1 DEF Amounts
    <3>7. (variant + Total(InOrders, Orders) + Total(Taken, Requests))'
          = variant + Total(InOrders, Orders) + Total(Taken, Requests)
      BY <3>1, <3>3, <3>4, <3>5, <3>6
    <3>8. \A d \in Requests : call'[d].step = "ordering" => call'[d] = call[d]
      BY <2>1 DEF I!Idle
    <3> QED BY <1>1, <3>1, <3>7, <3>8 DEF OrderedInv
  <2> QED BY <1>1, <2>2, <2>3 DEF StockInv
<1>11. ASSUME NEW c \in Requests, I!FulfilTake(c) PROVE StockInv'
  BY <1>1, <1>11, TakeKeepsStock
<1>12. ASSUME NEW c \in Requests,
              \/ \E o \in Orders : I!FulfilLoad(c, o) \/ I!ShipOrder(c, o)
              \/ I!ShipFind(c) \/ I!ShipInsert(c)
              \/ \E o \in Orders, to \in I!ShipmentStatuses :
                    \E n \in DOMAIN shipments[o] : I!MoveLoad(c, o, n, to)
              \/ I!MoveSave(c) \/ I!MoveOrder(c) \/ I!CallStops(c)
       PROVE  StockInv'
  BY <1>1, <1>12, OthersKeepStock
<1>13. ASSUME NEW o \in Orders, NEW status \in I!OrderStatuses, I!OrderEdit(o, status)
       PROVE  StockInv'
  <2>1. ReservedInv'
    BY <1>1, <1>13, ReservedKept DEF I!OrderEdit, I!history
  <2>2. InOrders' = InOrders
    BY <1>13 DEF I!OrderEdit, InOrders, OrdersTyped, I!TypeOK, I!NoOrder
  <2>3. Taken' = Taken /\ UNCHANGED <<variant, resold, minted, call>>
    BY <1>13 DEF I!OrderEdit, I!history, Taken
  <2>4. /\ Total(InOrders, Orders)' = Total(InOrders, Orders)
        /\ Total(Taken, Requests)' = Total(Taken, Requests)
    BY <2>2, <2>3
  <2>5. OrderedInv'
    BY <1>1, <2>3, <2>4 DEF OrderedInv
  <2> QED BY <1>1, <2>1, <2>5 DEF StockInv
<1> QED BY <1>4, <1>5, <1>6, <1>7, <1>8, <1>9, <1>10, <1>11, <1>12, <1>13 DEF I!Next

LEMMA StockBegins == I!Init => StockInv
<1> SUFFICES ASSUME I!Init PROVE StockInv
  OBVIOUS
<1>1. Amounts
  BY OrdersBegin, AmountsTyped DEF OrdersInv
<1>2. HeldBy = [r \in Reservations |-> 0] /\ InOrders = [o \in Orders |-> 0]
      /\ Taken = [c \in Requests |-> 0]
  BY DEF I!Init, I!NoReservation, I!NoOrder, I!Idle, I!Larger, HeldBy, InOrders, Taken
<1>3. Total(HeldBy, Reservations) = 0 /\ Total(InOrders, Orders) = 0 /\ Total(Taken, Requests) = 0
  BY <1>2, TotalOfZeros
<1>4. \A c \in Requests : call[c].step = "idle"
  BY DEF I!Init, I!Idle
<1> QED BY <1>1, <1>3, <1>4, StockAssumption DEF I!Init, StockInv, ReservedInv, OrderedInv

LEMMA QuietStock ==
  ASSUME StockInv, UNCHANGED ordered
  PROVE  StockInv'
<1>1. UNCHANGED <<stock, variant, reservation, order, call, restocked, eaten, minted, conjured,
                  resold>>
  BY DEF ordered
<1>2. HeldBy' = HeldBy /\ InOrders' = InOrders /\ Taken' = Taken
  BY <1>1 DEF HeldBy, InOrders, Taken
<1>3. /\ Total(HeldBy, Reservations)' = Total(HeldBy, Reservations)
      /\ Total(InOrders, Orders)' = Total(InOrders, Orders)
      /\ Total(Taken, Requests)' = Total(Taken, Requests)
  BY <1>2
<1> QED BY <1>1, <1>2, <1>3 DEF StockInv, Amounts, ReservedInv, OrderedInv

LEMMA StockHolds == StockInv => I!NothingStranded /\ I!HeldIsThere /\ I!OrderedWithinStock
<1> SUFFICES ASSUME StockInv PROVE I!NothingStranded /\ I!HeldIsThere /\ I!OrderedWithinStock
  OBVIOUS
<1>1. I!Held = Total(HeldBy, Reservations)
  BY HeldIsTotal DEF StockInv, Amounts
<1>2. I!MapThenSumSet(LAMBDA o : I!Larger(0, order[o].quantity), Orders) = Total(InOrders, Orders)
  BY OrderedIsTotal DEF StockInv, Amounts
<1>3. /\ stock.reserved \in Nat /\ stock.quantity \in Nat /\ variant \in Nat
      /\ Total(HeldBy, Reservations) \in Nat /\ Total(InOrders, Orders) \in Nat
      /\ Total(Taken, Requests) \in Nat
      /\ eaten \in Nat /\ minted \in Nat /\ conjured \in Nat
  BY IdsFinite, UnitsFinite DEF StockInv, Amounts
<1>4. I!NothingStranded
  BY <1>1 DEF StockInv, ReservedInv, I!NothingStranded
<1>5. I!HeldIsThere
  BY <1>1, <1>3 DEF StockInv, ReservedInv, I!HeldIsThere
<1>6. I!OrderedWithinStock
  <2>1. CASE resold
    BY <2>1 DEF I!OrderedWithinStock
  <2>2. CASE ~resold
    <3>1. variant + Total(InOrders, Orders) + Total(Taken, Requests) <= MaxStock + minted
      BY <2>2 DEF StockInv, OrderedInv
    <3>2. variant + Total(InOrders, Orders) <= MaxStock + minted
      BY <1>3, <3>1, StockAssumption
    <3> QED BY <1>2, <3>2 DEF I!OrderedWithinStock
  <2> QED BY <2>1, <2>2
<1> QED BY <1>4, <1>5, <1>6

(***************************************************************************)
(* Checkout.                                                               *)
(***************************************************************************)

Paying == [step : {"debit", "credit", "take"}, session : Sessions, left : Int]
Ending == [step : {"hold", "complete", "expire"}, session : Sessions]
Checking == [step : {"open"}, session : Sessions, method : C!Methods]
Deciding == [step : {"decide"}, session : Sessions, n : Nat, row : C!EscrowRow]

CheckoutTyped ==
  /\ C!TypeOK
  /\ \A w \in Requests : worker[w].step = "decide" =>
       worker[w].n \in DOMAIN escrow[worker[w].session]

LEMMA WorkerFields ==
  ASSUME CheckoutTyped, NEW w \in Requests
  PROVE  /\ worker[w].step = "idle" => worker[w] = C!Idle
         /\ worker[w].step \in {"debit", "credit", "take"} => worker[w] \in Paying
         /\ worker[w].step \in {"hold", "complete", "expire"} => worker[w] \in Ending
         /\ worker[w].step = "open" => worker[w] \in Checking
         /\ worker[w].step = "decide" =>
              worker[w] \in Deciding /\ worker[w].n \in DOMAIN escrow[worker[w].session]
         /\ worker[w].step \in {"idle", "open", "decide"} \cup C!Completing
BY DEF CheckoutTyped, C!TypeOK, C!Idle, C!Completing, Paying, Ending, Checking, Deciding

LEMMA WorkerMoves ==
  ASSUME CheckoutTyped, NEW w \in Requests, NEW state, C!To(w, state)
  PROVE  worker'[w] = state /\ \A v \in Requests \ {w} : worker'[v] = worker[v]
BY DEF CheckoutTyped, C!TypeOK, C!To

LEMMA WorkersTyped ==
  ASSUME CheckoutTyped, NEW w \in Requests, NEW state, C!To(w, state),
         state \in {C!Idle} \cup Paying \cup Ending \cup Checking \cup Deciding,
         state.step = "decide" => state.n \in DOMAIN escrow'[state.session],
         \A s \in Sessions : DOMAIN escrow[s] \subseteq DOMAIN escrow'[s]
  PROVE  /\ worker' \in [Requests -> {C!Idle} \cup Paying \cup Ending \cup Checking \cup Deciding]
         /\ \A v \in Requests : worker'[v].step = "decide" =>
              worker'[v].n \in DOMAIN escrow'[worker'[v].session]
<1>1. worker' \in [Requests -> {C!Idle} \cup Paying \cup Ending \cup Checking \cup Deciding]
  BY DEF CheckoutTyped, C!TypeOK, C!To, Paying, Ending, Checking, Deciding
<1>2. ASSUME NEW v \in Requests, worker'[v].step = "decide"
      PROVE  worker'[v].n \in DOMAIN escrow'[worker'[v].session]
  <2>1. CASE v = w
    BY <1>2, <2>1, WorkerMoves
  <2>2. CASE v # w
    <3>1. worker'[v] = worker[v]
      BY <2>2, WorkerMoves
    <3>2. worker[v].session \in Sessions /\ worker[v].n \in DOMAIN escrow[worker[v].session]
      BY <1>2, <3>1, WorkerFields DEF Deciding
    <3> QED BY <3>1, <3>2
  <2> QED BY <2>1, <2>2
<1> QED BY <1>1, <1>2

LEMMA SessionsTyped ==
  ASSUME CheckoutTyped,
         \/ \E s \in Sessions : C!ComesDue(s)
         \/ \E w \in Requests :
               \/ \E s \in Sessions, method \in C!Methods : C!CreateCheckoutSession(w, s, method)
               \/ C!OpenSession(w)
  PROVE  CheckoutTyped'
<1>1. ASSUME NEW w \in Requests, NEW s \in Sessions, NEW method \in C!Methods,
             C!CreateCheckoutSession(w, s, method)
      PROVE  CheckoutTyped'
  <2> DEFINE state == [step |-> "open", session |-> s, method |-> method]
  <2>1. state \in Checking /\ state.step # "decide"
    BY DEF Checking
  <2>2. C!To(w, state) /\ UNCHANGED escrow
    BY <1>1 DEF C!CreateCheckoutSession
  <2> HIDE DEF state
  <2>3. /\ worker' \in [Requests -> {C!Idle} \cup Paying \cup Ending \cup Checking \cup Deciding]
        /\ \A v \in Requests : worker'[v].step = "decide" =>
             worker'[v].n \in DOMAIN escrow'[worker'[v].session]
    BY <2>1, <2>2, WorkersTyped
  <2>4. crowded' \in BOOLEAN
    BY <1>1 DEF C!CreateCheckoutSession, CheckoutTyped, C!TypeOK
  <2> QED BY <1>1, <2>3, <2>4 DEF C!CreateCheckoutSession, CheckoutTyped, C!TypeOK, Paying, Ending,
                                  Checking, Deciding
<1>2. ASSUME NEW s \in Sessions, C!ComesDue(s) PROVE CheckoutTyped'
  <2>1. session' \in [Sessions -> [status : {"none", "pending", "completed", "expired"},
                                   method : C!Methods, due : BOOLEAN]]
    <3>1. session \in [Sessions -> [status : {"none", "pending", "completed", "expired"},
                                    method : C!Methods, due : BOOLEAN]]
      BY DEF CheckoutTyped, C!TypeOK
    <3>2. [session[s] EXCEPT !.due = TRUE]
            \in [status : {"none", "pending", "completed", "expired"},
                method : C!Methods, due : BOOLEAN]
      BY <3>1
    <3>3. session' = [session EXCEPT ![s] = [session[s] EXCEPT !.due = TRUE]]
      BY <1>2, <3>1 DEF C!ComesDue
    <3> QED BY <3>1, <3>2, <3>3
  <2> QED BY <1>2, <2>1 DEF C!ComesDue, C!history, CheckoutTyped, C!TypeOK

<1>3. ASSUME NEW w \in Requests, C!OpenSession(w) PROVE CheckoutTyped'
  <2>1. worker[w] \in Checking
    BY <1>3, WorkerFields DEF C!OpenSession, C!At
  <2>2. session' \in [Sessions -> [status : {"none", "pending", "completed", "expired"},
                                   method : C!Methods, due : BOOLEAN]]
    BY <1>3, <2>1 DEF C!OpenSession, CheckoutTyped, C!TypeOK, Checking
  <2>3. /\ worker' \in [Requests -> {C!Idle} \cup Paying \cup Ending \cup Checking \cup Deciding]
        /\ \A v \in Requests : worker'[v].step = "decide" =>
             worker'[v].n \in DOMAIN escrow'[worker'[v].session]
    BY <1>3, WorkersTyped DEF C!OpenSession, C!Idle
  <2> QED BY <1>3, <2>2, <2>3 DEF C!OpenSession, C!history, CheckoutTyped, C!TypeOK, Paying, Ending,
                                  Checking, Deciding
<1> QED BY <1>1, <1>2, <1>3

LEMMA WorkersStayTyped ==
  ASSUME CheckoutTyped, NEW w \in Requests,
         \/ \E s \in Sessions : C!LoadSession(w, s)
         \/ C!Expire(w) \/ C!Debit(w) \/ C!Credit(w) \/ C!TakeUnit(w) \/ C!HoldEscrow(w)
         \/ C!Complete(w)
         \/ \E s \in Sessions : \E n \in DOMAIN escrow[s] :
               \/ \E status \in {"released", "disputed"} : C!Decide(w, s, n, status)
               \/ C!ShipProduct(w, s, n)
         \/ C!DecisionSave(w)
         \/ C!RequestStops(w)
  PROVE  CheckoutTyped'
<1>1. ASSUME NEW s \in Sessions, C!LoadSession(w, s) PROVE CheckoutTyped'
  <2> DEFINE state == IF session[s].due THEN [step |-> "expire", session |-> s]
                      ELSE [step |-> IF session[s].method = "wallet" THEN "debit" ELSE "credit",
                            session |-> s, left |-> left]
  <2>1. state \in Paying \cup Ending /\ state.step # "decide"
    BY DEF CheckoutTyped, C!TypeOK, Paying, Ending
  <2>2. C!To(w, state)
    BY <1>1 DEF C!LoadSession, C!Begin
  <2>3. UNCHANGED escrow
    BY <1>1 DEF C!LoadSession, C!Begin
  <2> HIDE DEF state
  <2>4. /\ worker' \in [Requests -> {C!Idle} \cup Paying \cup Ending \cup Checking \cup Deciding]
        /\ \A v \in Requests : worker'[v].step = "decide" =>
             worker'[v].n \in DOMAIN escrow'[worker'[v].session]
    BY <2>1, <2>2, <2>3, WorkersTyped
  <2>5. repeated' \subseteq Sessions /\ overlapped' \in BOOLEAN
    BY <1>1 DEF C!LoadSession, C!Begin, CheckoutTyped, C!TypeOK
  <2> QED BY <1>1, <2>4, <2>5 DEF C!LoadSession, C!Begin, CheckoutTyped, C!TypeOK, Paying, Ending, Checking,
                                  Deciding
<1>2. CASE C!Expire(w)
  <2>1. worker[w] \in Ending
    BY <1>2, WorkerFields DEF C!Expire, C!At
  <2>2. session' \in [Sessions -> [status : {"none", "pending", "completed", "expired"},
                                   method : C!Methods, due : BOOLEAN]]
    BY <1>2, <2>1, ZenonT(60) DEF C!Expire, CheckoutTyped, C!TypeOK, Ending
  <2>3. /\ worker' \in [Requests -> {C!Idle} \cup Paying \cup Ending \cup Checking \cup Deciding]
        /\ \A v \in Requests : worker'[v].step = "decide" =>
             worker'[v].n \in DOMAIN escrow'[worker'[v].session]
    BY <1>2, WorkersTyped DEF C!Expire, C!Idle
  <2> QED BY <1>2, <2>2, <2>3 DEF C!Expire, C!history, CheckoutTyped, C!TypeOK, Paying, Ending, Checking,
                                  Deciding
<1>3. CASE C!Debit(w)
  <2>1. worker[w] \in Paying /\ [worker[w] EXCEPT !.step = "credit"] \in Paying
    BY <1>3, WorkerFields DEF C!Debit, C!At, Paying
  <2>2. debits' \in [Sessions -> Nat]
    <3>1. /\ worker[w].session \in Sessions
          /\ \/ debits' = debits
             \/ debits' = [debits EXCEPT ![worker[w].session] = @ + 1]
      BY <1>3, <2>1 DEF C!Debit, Paying
    <3>2. debits \in [Sessions -> Nat]
      BY DEF CheckoutTyped, C!TypeOK
    <3> QED BY <3>1, <3>2
  <2>3. PICK state \in {C!Idle, [worker[w] EXCEPT !.step = "credit"]} : C!To(w, state)
    BY <1>3 DEF C!Debit
  <2>4. state \in {C!Idle} \cup Paying /\ state.step # "decide"
    BY <2>1 DEF C!Idle, Paying
  <2>5. /\ worker' \in [Requests -> {C!Idle} \cup Paying \cup Ending \cup Checking \cup Deciding]
        /\ \A v \in Requests : worker'[v].step = "decide" =>
             worker'[v].n \in DOMAIN escrow'[worker'[v].session]
    BY <1>3, <2>3, <2>4, WorkersTyped DEF C!Debit
  <2> QED BY <1>3, <2>2, <2>5 DEF C!Debit, C!history, CheckoutTyped, C!TypeOK, Paying, Ending, Checking,
                                  Deciding
<1>4. CASE C!Credit(w)
  <2>1. worker[w] \in Paying /\ [worker[w] EXCEPT !.step = "take"] \in Paying
    BY <1>4, WorkerFields DEF C!Credit, C!At, Paying
  <2>2. credits' \in [Sessions -> Nat]
    BY <1>4, <2>1 DEF C!Credit, CheckoutTyped, C!TypeOK, Paying
  <2>3. [worker[w] EXCEPT !.step = "take"].step # "decide"
    BY <2>1 DEF Paying
  <2>4. /\ worker' \in [Requests -> {C!Idle} \cup Paying \cup Ending \cup Checking \cup Deciding]
        /\ \A v \in Requests : worker'[v].step = "decide" =>
             worker'[v].n \in DOMAIN escrow'[worker'[v].session]
    BY <1>4, <2>1, <2>3, WorkersTyped DEF C!Credit
  <2> QED BY <1>4, <2>2, <2>4 DEF C!Credit, C!history, CheckoutTyped, C!TypeOK, Paying, Ending, Checking,
                                  Deciding
<1>5. CASE C!TakeUnit(w)
  <2>1. worker[w] \in Paying
    BY <1>5, WorkerFields DEF C!TakeUnit, C!At
  <2>2. left' \in Int
    BY <1>5, <2>1 DEF C!TakeUnit, Paying
  <2> DEFINE state == [step |-> IF physical THEN "hold" ELSE "complete",
                       session |-> worker[w].session]
  <2>3. state \in Ending /\ state.step # "decide"
    BY <2>1 DEF Paying, Ending
  <2>4. C!To(w, state) /\ UNCHANGED escrow
    BY <1>5 DEF C!TakeUnit
  <2> HIDE DEF state
  <2>5. /\ worker' \in [Requests -> {C!Idle} \cup Paying \cup Ending \cup Checking \cup Deciding]
        /\ \A v \in Requests : worker'[v].step = "decide" =>
             worker'[v].n \in DOMAIN escrow'[worker'[v].session]
    BY <2>3, <2>4, WorkersTyped
  <2> QED BY <1>5, <2>2, <2>5 DEF C!TakeUnit, C!history, CheckoutTyped, C!TypeOK, Paying, Ending, Checking,
                                  Deciding
<1>6. CASE C!HoldEscrow(w)
  <2> DEFINE row == [status |-> "held", shipped |-> FALSE]
  <2>1. worker[w] \in Ending /\ [worker[w] EXCEPT !.step = "complete"] \in Ending
    BY <1>6, WorkerFields DEF C!HoldEscrow, C!At, Ending
  <2>2. [worker[w] EXCEPT !.step = "complete"].step # "decide"
    BY <2>1 DEF Ending
  <2>3. row \in C!EscrowRow
    BY DEF C!EscrowRow
  <2>4. \A s \in Sessions : /\ Append(escrow[s], row) \in Seq(C!EscrowRow)
                            /\ DOMAIN escrow[s] \subseteq DOMAIN Append(escrow[s], row)
    <3> TAKE s \in Sessions
    <3>1. escrow[s] \in Seq(C!EscrowRow)
      BY DEF CheckoutTyped, C!TypeOK
    <3> HIDE DEF row
    <3> QED BY <2>3, <3>1
  <2>5. escrow' = [escrow EXCEPT ![worker[w].session] = Append(@, row)]
    BY <1>6 DEF C!HoldEscrow
  <2> HIDE DEF row
  <2>6. /\ escrow' \in [Sessions -> Seq(C!EscrowRow)]
        /\ \A s \in Sessions : DOMAIN escrow[s] \subseteq DOMAIN escrow'[s]
    BY <2>4, <2>5 DEF CheckoutTyped, C!TypeOK
  <2>7. /\ worker' \in [Requests -> {C!Idle} \cup Paying \cup Ending \cup Checking \cup Deciding]
        /\ \A v \in Requests : worker'[v].step = "decide" =>
             worker'[v].n \in DOMAIN escrow'[worker'[v].session]
    BY <1>6, <2>1, <2>2, <2>6, WorkersTyped DEF C!HoldEscrow
  <2> QED BY <1>6, <2>6, <2>7 DEF C!HoldEscrow, C!history, CheckoutTyped, C!TypeOK, Paying,
                                  Ending, Checking, Deciding
<1>7. CASE C!Complete(w)
  <2>1. worker[w] \in Ending
    BY <1>7, WorkerFields DEF C!Complete, C!At
  <2>2. session' \in [Sessions -> [status : {"none", "pending", "completed", "expired"},
                                   method : C!Methods, due : BOOLEAN]]
    BY <1>7, <2>1, ZenonT(60) DEF C!Complete, CheckoutTyped, C!TypeOK, Ending
  <2>3. /\ worker' \in [Requests -> {C!Idle} \cup Paying \cup Ending \cup Checking \cup Deciding]
        /\ \A v \in Requests : worker'[v].step = "decide" =>
             worker'[v].n \in DOMAIN escrow'[worker'[v].session]
    BY <1>7, WorkersTyped DEF C!Complete, C!Idle
  <2> QED BY <1>7, <2>2, <2>3 DEF C!Complete, C!history, CheckoutTyped, C!TypeOK, Paying, Ending, Checking,
                                  Deciding
<1>8. ASSUME NEW s \in Sessions, NEW n \in DOMAIN escrow[s], NEW row \in C!EscrowRow,
             C!Take(w, s, n, row)
      PROVE  CheckoutTyped'
  <2> DEFINE state == [step |-> "decide", session |-> s, n |-> n, row |-> row]
  <2>1. n \in Nat
    BY DEF CheckoutTyped, C!TypeOK
  <2>2. state \in Deciding /\ state.n = n /\ state.session = s
    BY <2>1 DEF Deciding
  <2>3. C!To(w, state) /\ UNCHANGED escrow
    BY <1>8 DEF C!Take
  <2> HIDE DEF state
  <2>4. /\ worker' \in [Requests -> {C!Idle} \cup Paying \cup Ending \cup Checking \cup Deciding]
        /\ \A v \in Requests : worker'[v].step = "decide" =>
             worker'[v].n \in DOMAIN escrow'[worker'[v].session]
    BY <2>2, <2>3, WorkersTyped
  <2>5. rare' \in 0..MaxCheckoutRare /\ crossed' \subseteq Sessions
    BY <1>8, BoundsAssumption DEF C!Take, C!Rare, CheckoutTyped, C!TypeOK
  <2> QED BY <1>8, <2>4, <2>5 DEF C!Take, CheckoutTyped, C!TypeOK, Paying, Ending, Checking, Deciding
<1>9. ASSUME NEW s \in Sessions, NEW n \in DOMAIN escrow[s], NEW status \in {"released", "disputed"},
             C!Decide(w, s, n, status)
      PROVE  CheckoutTyped'
  <2>1. escrow[s][n] \in C!EscrowRow
    BY DEF CheckoutTyped, C!TypeOK
  <2>2. [escrow[s][n] EXCEPT !.status = status] \in C!EscrowRow
    BY <2>1 DEF C!EscrowRow
  <2> QED BY <1>8, <1>9, <2>2 DEF C!Decide
<1>10. ASSUME NEW s \in Sessions, NEW n \in DOMAIN escrow[s], C!ShipProduct(w, s, n)
       PROVE  CheckoutTyped'
  <2>1. escrow[s][n] \in C!EscrowRow
    BY DEF CheckoutTyped, C!TypeOK
  <2>2. [escrow[s][n] EXCEPT !.shipped = TRUE] \in C!EscrowRow
    BY <2>1 DEF C!EscrowRow
  <2> QED BY <1>8, <1>10, <2>2 DEF C!ShipProduct
<1>11. CASE C!DecisionSave(w)
  <2>1. worker[w] \in Deciding /\ worker[w].n \in DOMAIN escrow[worker[w].session]
    BY <1>11, WorkerFields DEF C!DecisionSave, C!At
  <2>2. PICK s \in Sessions, n \in Nat, row \in C!EscrowRow :
          s = worker[w].session /\ n = worker[w].n /\ row = worker[w].row
    BY <2>1 DEF Deciding
  <2>3. escrow[s] \in Seq(C!EscrowRow) /\ n \in DOMAIN escrow[s]
    BY <2>1, <2>2 DEF CheckoutTyped, C!TypeOK
  <2>4. /\ [escrow[s] EXCEPT ![n] = row] \in Seq(C!EscrowRow)
        /\ DOMAIN [escrow[s] EXCEPT ![n] = row] = DOMAIN escrow[s]
    BY <2>2, <2>3
  <2>5. escrow' = [escrow EXCEPT ![s] = [escrow[s] EXCEPT ![n] = row]]
    BY <1>11, <2>2 DEF C!DecisionSave, CheckoutTyped, C!TypeOK
  <2>6. /\ escrow' \in [Sessions -> Seq(C!EscrowRow)]
        /\ \A p \in Sessions : DOMAIN escrow[p] \subseteq DOMAIN escrow'[p]
    BY <2>4, <2>5 DEF CheckoutTyped, C!TypeOK
  <2>7. /\ worker' \in [Requests -> {C!Idle} \cup Paying \cup Ending \cup Checking \cup Deciding]
        /\ \A v \in Requests : worker'[v].step = "decide" =>
             worker'[v].n \in DOMAIN escrow'[worker'[v].session]
    BY <1>11, <2>6, WorkersTyped DEF C!DecisionSave, C!Idle
  <2> QED BY <1>11, <2>6, <2>7 DEF C!DecisionSave, C!history, CheckoutTyped, C!TypeOK, Paying,
                                   Ending, Checking, Deciding
<1>12. CASE C!RequestStops(w)
  <2>1. worker[w].step \in C!Completing => worker[w].session \in Sessions
    BY WorkerFields DEF C!Completing, Paying, Ending
  <2>2. repeated' \subseteq Sessions /\ rare' \in 0..MaxCheckoutRare
    BY <1>12, <2>1, BoundsAssumption DEF C!RequestStops, C!Rare, CheckoutTyped, C!TypeOK
  <2>3. /\ worker' \in [Requests -> {C!Idle} \cup Paying \cup Ending \cup Checking \cup Deciding]
        /\ \A v \in Requests : worker'[v].step = "decide" =>
             worker'[v].n \in DOMAIN escrow'[worker'[v].session]
    BY <1>12, WorkersTyped DEF C!RequestStops, C!Idle
  <2> QED BY <1>12, <2>2, <2>3 DEF C!RequestStops, CheckoutTyped, C!TypeOK, Paying, Ending, Checking,
                                   Deciding
<1> QED BY <1>1, <1>2, <1>3, <1>4, <1>5, <1>6, <1>7, <1>9, <1>10, <1>11, <1>12

LEMMA CheckoutStaysTyped == CheckoutTyped /\ C!Next => CheckoutTyped'
<1> SUFFICES ASSUME CheckoutTyped, C!Next PROVE CheckoutTyped'
  OBVIOUS
<1> QED BY SessionsTyped, WorkersStayTyped DEF C!Next
---------------------------------------------------------------------------
(* What is true of a session, whatever overlaps; of one that one request   *)
(* at a time completes; and of one whose escrow one request at a time has  *)
(* in hand.                                                                *)

Does(w, s, steps) == worker[w].step \in steps /\ worker[w].session = s
Number(s, steps) == Cardinality({w \in Requests : Does(w, s, steps)})

PaidFor(s) ==
  /\ session[s].method = "wallet" => credits[s] + Number(s, {"credit"}) <= debits[s]
  /\ Len(escrow[s]) + Number(s, {"take", "hold"}) <= credits[s]
  /\ session[s].status = "none" =>
       /\ debits[s] = 0 /\ credits[s] = 0
       /\ \A w \in Requests : ~Does(w, s, C!Completing)
  /\ session[s].status = "completed" => credits[s] > 0 /\ (physical => escrow[s] # << >>)
  /\ \A w \in Requests :
       /\ Does(w, s, {"take", "hold", "complete"}) => credits[s] > 0
       /\ Does(w, s, {"complete"}) /\ physical => escrow[s] # << >>

Sold(w, s) ==
  /\ worker[w].step \in {"debit", "credit", "expire"} => credits[s] = 0
  /\ worker[w].step \in {"debit", "expire"} => debits[s] = 0
  /\ worker[w].step \in {"debit", "credit", "take", "hold", "expire"} => Len(escrow[s]) = 0

Once(s) ==
  /\ debits[s] <= 1 /\ credits[s] <= 1 /\ Len(escrow[s]) <= 1
  /\ \A v, w \in Requests : Does(v, s, C!Completing) /\ Does(w, s, C!Completing) => v = w
  /\ \A w \in Requests :
       Does(w, s, C!Completing) => session[s].status = "pending" /\ Sold(w, s)
  /\ (\A w \in Requests : ~Does(w, s, C!Completing)) /\ session[s].status # "completed" =>
       debits[s] = 0 /\ credits[s] = 0 /\ Len(escrow[s]) = 0

Decided(s) ==
  /\ \A v, w \in Requests : Does(v, s, {"decide"}) /\ Does(w, s, {"decide"}) => v = w
  /\ \A w \in Requests : \A n \in DOMAIN escrow[s] :
       Does(w, s, {"decide"}) /\ worker[w].n = n =>
         /\ escrow[s][n].status # "held" => worker[w].row.status = escrow[s][n].status
         /\ escrow[s][n].shipped => worker[w].row.shipped

(* One request at most is about to insert a session, and none has yet.     *)
Opening(s) ==
  \A v, w \in Requests : Does(v, s, {"open"}) /\ Does(w, s, {"open"}) =>
    v = w /\ session[s].status = "none"

CheckoutInv ==
  /\ CheckoutTyped
  /\ \A s \in Sessions :
       /\ PaidFor(s) /\ Opening(s)
       /\ (s \notin repeated => Once(s)) /\ (s \notin crossed => Decided(s))

LEMMA Counted ==
  ASSUME NEW s, NEW steps
  PROVE  Number(s, steps) \in Nat
<1>1. IsFiniteSet({w \in Requests : Does(w, s, steps)})
  BY RequestsAssumption, FS_Subset
<1> QED BY <1>1, FS_CardinalityType DEF Number

(* How a step of a request changes a number of requests.                   *)
LEMMA Counting ==
  ASSUME CheckoutTyped, NEW w \in Requests, NEW state, C!To(w, state), NEW s, NEW steps
  PROVE  LET enters == state.step \in steps /\ state.session = s
         IN  /\ Number(s, steps) \in Nat /\ Number(s, steps)' \in Nat
             /\ (enters <=> Does(w, s, steps)) => Number(s, steps)' = Number(s, steps)
             /\ enters /\ ~Does(w, s, steps) => Number(s, steps)' = Number(s, steps) + 1
             /\ ~enters /\ Does(w, s, steps) => Number(s, steps)' = Number(s, steps) - 1
<1> DEFINE S == {v \in Requests : Does(v, s, steps)}
           T == {v \in Requests : Does(v, s, steps)'}
<1>1. \A v \in Requests \ {w} : v \in T <=> v \in S
  BY WorkerMoves DEF Does
<1>2. w \in T <=> state.step \in steps /\ state.session = s
  BY WorkerMoves DEF Does
<1>3. IsFiniteSet(S) /\ IsFiniteSet(T)
  BY RequestsAssumption, FS_Subset
<1>4. Cardinality(S) \in Nat /\ Cardinality(T) \in Nat
  BY <1>3, FS_CardinalityType
<1>5. Number(s, steps) = Cardinality(S) /\ Number(s, steps)' = Cardinality(T)
  BY DEF Number
<1>6. w \in S <=> Does(w, s, steps)
  OBVIOUS
<1> HIDE DEF S, T
<1>7. CASE w \in S <=> w \in T
  <2>1. S = T
    <3>1. S \subseteq Requests /\ T \subseteq Requests
      BY DEF S, T
    <3> QED BY <1>1, <1>7, <3>1
  <2> QED BY <1>2, <1>4, <1>5, <1>6, <2>1
<1>8. CASE w \in S /\ w \notin T
  <2>1. T = S \ {w}
    <3>1. S \subseteq Requests /\ T \subseteq Requests
      BY DEF S, T
    <3> QED BY <1>1, <1>8, <3>1
  <2>2. Cardinality(T) = Cardinality(S) - 1
    BY <1>3, <1>8, <2>1, FS_RemoveElement
  <2> QED BY <1>2, <1>4, <1>5, <1>6, <1>8, <2>2
<1>9. CASE w \notin S /\ w \in T
  <2>1. T = S \cup {w}
    <3>1. S \subseteq Requests /\ T \subseteq Requests
      BY DEF S, T
    <3> QED BY <1>1, <1>9, <3>1
  <2>2. Cardinality(T) = Cardinality(S) + 1
    BY <1>3, <1>9, <2>1, FS_AddElement
  <2> QED BY <1>2, <1>4, <1>5, <1>6, <1>9, <2>2
<1> QED BY <1>7, <1>8, <1>9

(* A step of a request that does not complete session s, and before and    *)
(* after which its rows say the same.                                      *)
LEMMA PayingElsewhere ==
  ASSUME CheckoutTyped, NEW w \in Requests, NEW state, C!To(w, state), NEW s \in Sessions,
         ~Does(w, s, C!Completing), ~(state.step \in C!Completing /\ state.session = s),
         UNCHANGED physical, session'[s] = session[s], debits'[s] = debits[s],
         credits'[s] = credits[s], Len(escrow'[s]) = Len(escrow[s]),
         escrow[s] # << >> => escrow'[s] # << >>
  PROVE  (PaidFor(s) => PaidFor(s)') /\ (Once(s) => Once(s)')
<1>1. \A v \in Requests \ {w} : worker'[v] = worker[v]
  BY WorkerMoves
<1>2. \A steps \in SUBSET C!Completing : ~Does(w, s, steps) /\ ~Does(w, s, steps)'
  BY WorkerMoves DEF Does
<1>3. {"credit"} \in SUBSET C!Completing /\ {"take", "hold"} \in SUBSET C!Completing
        /\ {"take", "hold", "complete"} \in SUBSET C!Completing
        /\ {"complete"} \in SUBSET C!Completing /\ C!Completing \in SUBSET C!Completing
  BY DEF C!Completing
<1>4. Number(s, {"credit"})' = Number(s, {"credit"})
  <2>1. ~(state.step \in {"credit"} /\ state.session = s)
    BY <1>3
  <2> QED BY <1>2, <1>3, <2>1, Counting
<1>5. Number(s, {"take", "hold"})' = Number(s, {"take", "hold"})
  <2>1. ~(state.step \in {"take", "hold"} /\ state.session = s)
    BY <1>3
  <2> QED BY <1>2, <1>3, <2>1, Counting
<1>6. \A v \in Requests : \A steps \in SUBSET C!Completing : Does(v, s, steps)' = Does(v, s, steps)
  BY <1>1, <1>2 DEF Does
<1>7. PaidFor(s) => PaidFor(s)'
  BY <1>3, <1>4, <1>5, <1>6 DEF PaidFor
<1>8. \A v \in Requests : Does(v, s, C!Completing) => (Sold(v, s)' <=> Sold(v, s))
  BY <1>1 DEF Sold
<1>9. Once(s) => Once(s)'
  BY <1>3, <1>6, <1>8 DEF Once
<1> QED BY <1>7, <1>9

LEMMA DecidingElsewhere ==
  ASSUME CheckoutTyped, NEW w \in Requests, NEW state, C!To(w, state), NEW s \in Sessions,
         ~Does(w, s, {"decide"}), ~(state.step = "decide" /\ state.session = s),
         \A n \in DOMAIN escrow[s] : escrow'[s][n] = escrow[s][n],
         Decided(s)
  PROVE  Decided(s)'
<1>1. \A v \in Requests \ {w} : worker'[v] = worker[v]
  BY WorkerMoves
<1>2. ~Does(w, s, {"decide"})'
  BY WorkerMoves DEF Does
<1>3. \A v \in Requests : Does(v, s, {"decide"})' <=> Does(v, s, {"decide"})
  BY <1>1, <1>2 DEF Does
<1>4. \A v \in Requests : Does(v, s, {"decide"}) => worker[v].n \in DOMAIN escrow[s]
  BY WorkerFields DEF Does
<1> QED BY <1>1, <1>2, <1>3, <1>4 DEF Decided

Held(s) == /\ PaidFor(s)'
           /\ s \notin repeated' => Once(s)'
           /\ s \notin crossed' => Decided(s)'

LEMMA WorkerIsOf ==
  ASSUME CheckoutTyped, NEW w \in Requests, worker[w].step # "idle"
  PROVE  worker[w].session \in Sessions
BY WorkerFields DEF Paying, Ending, Checking, Deciding, C!Completing

(* A step of a request that touches no session but its own.                *)
LEMMA FarSession ==
  ASSUME CheckoutInv, NEW w \in Requests, NEW state, C!To(w, state), NEW s \in Sessions,
         worker[w].step # "idle" => worker[w].session # s,
         state.step # "idle" => state.session # s,
         UNCHANGED physical, session'[s] = session[s], debits'[s] = debits[s],
         credits'[s] = credits[s], escrow'[s] = escrow[s],
         s \notin repeated' => s \notin repeated, s \notin crossed' => s \notin crossed
  PROVE  Held(s)
<1>1. ~Does(w, s, C!Completing) /\ ~Does(w, s, {"decide"})
  BY DEF Does, C!Completing
<1>2. ~(state.step \in C!Completing /\ state.session = s)
        /\ ~(state.step = "decide" /\ state.session = s)
  BY DEF C!Completing
<1> QED BY <1>1, <1>2, PayingElsewhere, DecidingElsewhere DEF CheckoutInv, Held

(* A session that comes due.                                               *)
LEMMA DueStep ==
  ASSUME CheckoutInv, NEW t \in Sessions, C!ComesDue(t), NEW s \in Sessions
  PROVE  Held(s)
<1>1. UNCHANGED <<physical, worker, debits, credits, escrow, repeated, crossed>>
  BY DEF C!ComesDue, C!history
<1>2. /\ \A w \in Requests : \A steps : Does(w, s, steps)' = Does(w, s, steps)
      /\ \A w \in Requests : Sold(w, s)' = Sold(w, s)
      /\ Decided(s)' = Decided(s)
  BY <1>1 DEF Does, Sold, Decided
<1>3. \A steps : Number(s, steps)' = Number(s, steps)
  BY <1>1 DEF Number, Does
<1>4. session'[s].status = session[s].status /\ session'[s].method = session[s].method
  BY DEF C!ComesDue, CheckoutInv, CheckoutTyped, C!TypeOK
<1>5. PaidFor(s)'
  BY <1>1, <1>2, <1>3, <1>4 DEF PaidFor, CheckoutInv
<1>6. ASSUME s \notin repeated PROVE Once(s)'
  <2>1. Once(s)
    BY <1>6 DEF CheckoutInv
  <2> QED BY <1>1, <1>2, <1>4, <2>1 DEF Once
<1> QED BY <1>1, <1>2, <1>5, <1>6 DEF CheckoutInv, Held

(* A request that has found stock left.                                    *)
LEMMA CheckStep ==
  ASSUME CheckoutInv, NEW w \in Requests, NEW t \in Sessions, NEW method \in C!Methods,
         C!CreateCheckoutSession(w, t, method), NEW s \in Sessions
  PROVE  Held(s)
<1> PICK state : state = [step |-> "open", session |-> t, method |-> method]
  OBVIOUS
<1>1. /\ C!To(w, state) /\ worker[w].step = "idle" /\ state.step = "open" /\ CheckoutTyped
      /\ UNCHANGED <<physical, session, debits, credits, escrow, repeated, crossed>>
  BY DEF C!CreateCheckoutSession, C!Idle, CheckoutInv
<1>2. /\ ~Does(w, s, C!Completing) /\ ~Does(w, s, {"decide"})
      /\ ~(state.step \in C!Completing /\ state.session = s)
  BY <1>1 DEF Does, C!Completing
<1>3. PaidFor(s)' /\ (s \notin repeated' => Once(s)')
  BY <1>1, <1>2, PayingElsewhere DEF CheckoutInv
<1>4. s \notin crossed' => Decided(s)'
  BY <1>1, <1>2, DecidingElsewhere DEF CheckoutInv
<1> QED BY <1>3, <1>4 DEF Held

(* The insert of a session.                                                *)
LEMMA OpenStep ==
  ASSUME CheckoutInv, NEW w \in Requests, C!OpenSession(w), NEW s \in Sessions
  PROVE  Held(s)
<1> PICK t : t = worker[w].session
  OBVIOUS
<1>1. /\ worker[w] \in Checking /\ worker[w].step = "open" /\ t \in Sessions
      /\ C!To(w, C!Idle) /\ CheckoutTyped
      /\ UNCHANGED <<physical, debits, credits, escrow, repeated, crossed>>
  BY WorkerFields DEF C!OpenSession, C!At, C!history, CheckoutInv, Checking
<1>2. /\ session'[t].status = "pending"
      /\ \A p \in Sessions \ {t} : session'[p] = session[p]
  BY <1>1 DEF C!OpenSession, CheckoutTyped, C!TypeOK
<1>3. CASE s # t
  BY <1>1, <1>2, <1>3, FarSession DEF C!Idle
<1>4. CASE s = t
  <2>1. session[s].status = "none"
    BY <1>1, <1>4 DEF CheckoutInv, Opening, Does
  <2>2. /\ debits[s] = 0 /\ credits[s] = 0 /\ \A v \in Requests : ~Does(v, s, C!Completing)
        /\ PaidFor(s)
    BY <2>1 DEF CheckoutInv, PaidFor
  <2>3. worker'[w] = C!Idle /\ \A v \in Requests \ {w} : worker'[v] = worker[v]
    BY <1>1, WorkerMoves
  <2>4. \A v \in Requests : ~Does(v, s, C!Completing)'
    BY <2>2, <2>3 DEF Does, C!Idle, C!Completing
  <2>5. Number(s, {"credit"})' = 0 /\ Number(s, {"take", "hold"})' = 0
    <3>1. /\ {v \in Requests : Does(v, s, {"credit"})'} = {}
          /\ {v \in Requests : Does(v, s, {"take", "hold"})'} = {}
      BY <2>4 DEF Does, C!Completing
    <3> QED BY <3>1, FS_EmptySet DEF Number
  <2>6. Number(s, {"take", "hold"}) \in Nat /\ Len(escrow[s]) \in Nat
    BY <1>1, Counted DEF CheckoutTyped, C!TypeOK
  <2>7. PaidFor(s)'
    <3>1. Len(escrow[s]) = 0
      BY <2>2, <2>6 DEF PaidFor
    <3>2. \A v \in Requests : /\ ~Does(v, s, {"take", "hold", "complete"})'
                              /\ ~Does(v, s, {"complete"})'
      BY <2>4 DEF Does, C!Completing
    <3> QED BY <1>1, <1>2, <1>4, <2>2, <2>5, <3>1, <3>2 DEF PaidFor
  <2>8. ASSUME s \notin repeated' PROVE Once(s)'
    <3>1. Once(s)
      BY <1>1, <2>8 DEF CheckoutInv
    <3> QED BY <1>1, <1>2, <1>4, <2>1, <2>2, <2>4, <3>1 DEF Once
  <2>9. ASSUME s \notin crossed' PROVE Decided(s)'
    <3>1. ~Does(w, s, {"decide"})
      BY <1>1 DEF Does
    <3> QED BY <1>1, <2>9, <3>1, DecidingElsewhere DEF CheckoutInv, C!Idle
  <2> QED BY <2>7, <2>8, <2>9 DEF Held
<1> QED BY <1>3, <1>4

(* Who is about to insert a session, and that none is there yet.           *)
LEMMA OpeningKept ==
  ASSUME CheckoutInv, NEW w \in Requests, NEW state, C!To(w, state), state.step # "open",
         NEW s \in Sessions,
         \/ session'[s].status = session[s].status
         \/ session[s].status # "none"
         \/ Does(w, s, {"open"})
  PROVE  Opening(s)'
<1>1. worker'[w] = state /\ \A v \in Requests \ {w} : worker'[v] = worker[v]
  BY WorkerMoves DEF CheckoutInv
<1>2. \A v \in Requests : Does(v, s, {"open"})' => v # w /\ Does(v, s, {"open"})
  BY <1>1 DEF Does
<1>3. Opening(s)
  BY DEF CheckoutInv
<1> QED BY <1>2, <1>3 DEF Opening

LEMMA OpeningStays ==
  ASSUME CheckoutInv, C!Next, NEW s \in Sessions
  PROVE  Opening(s)'
<1>1. CheckoutTyped
  BY DEF CheckoutInv
<1>2. ASSUME NEW t \in Sessions, C!ComesDue(t) PROVE Opening(s)'
  <2>1. session'[s].status = session[s].status /\ UNCHANGED worker
    BY <1>1, <1>2 DEF C!ComesDue, CheckoutTyped, C!TypeOK
  <2> QED BY <2>1 DEF CheckoutInv, Opening, Does
<1>3. ASSUME NEW w \in Requests, NEW t \in Sessions, NEW method \in C!Methods,
             C!CreateCheckoutSession(w, t, method)
      PROVE  Opening(s)'
  <2> PICK state : state = [step |-> "open", session |-> t, method |-> method]
    OBVIOUS
  <2>1. /\ C!To(w, state) /\ UNCHANGED session /\ state.session = t
        /\ session[t] = C!NoSession /\ \A v \in Requests : ~Does(v, t, {"open"})
    BY <1>3 DEF C!CreateCheckoutSession, C!On, Does
  <2>2. worker'[w] = state /\ \A v \in Requests \ {w} : worker'[v] = worker[v]
    BY <1>1, <2>1, WorkerMoves
  <2> QED BY <2>1, <2>2 DEF CheckoutInv, Opening, Does, C!NoSession
<1>4. ASSUME NEW w \in Requests, C!OpenSession(w) \/ C!Expire(w) \/ C!Complete(w)
      PROVE  Opening(s)'
  <2> PICK t : t = worker[w].session
    OBVIOUS
  <2>1. /\ C!To(w, C!Idle) /\ worker[w].step \in {"open", "expire", "complete"} /\ t \in Sessions
        /\ worker[w].step # "open" => worker[w].step \in C!Completing
    BY <1>1, <1>4, WorkerFields
       DEF C!OpenSession, C!Expire, C!Complete, C!At, C!Completing, Checking, Ending
  <2>2. \A p \in Sessions \ {t} : session'[p] = session[p]
    BY <1>1, <1>4, <2>1 DEF C!OpenSession, C!Expire, C!Complete, CheckoutTyped, C!TypeOK
  <2>3. worker[w].step = "open" => Does(w, t, {"open"})
    BY DEF Does
  <2>4. worker[w].step # "open" => session[t].status # "none"
    BY <2>1 DEF CheckoutInv, PaidFor, Does
  <2>5. C!Idle.step # "open"
    BY DEF C!Idle
  <2> QED BY <2>1, <2>2, <2>3, <2>4, <2>5, OpeningKept
<1>5. ASSUME NEW w \in Requests, NEW t \in Sessions, C!LoadSession(w, t) PROVE Opening(s)'
  <2> PICK state : state = IF session[t].due THEN [step |-> "expire", session |-> t]
               ELSE [step |-> IF session[t].method = "wallet" THEN "debit" ELSE "credit",
                     session |-> t, left |-> left]
    OBVIOUS
  <2>1. C!To(w, state) /\ UNCHANGED session /\ state.step # "open"
    BY <1>5 DEF C!LoadSession, C!Begin
  <2> QED BY <2>1, OpeningKept
<1>6. ASSUME NEW w \in Requests, C!Debit(w) \/ C!Credit(w) \/ C!HoldEscrow(w) PROVE Opening(s)'
  <2>1. PICK step \in {"credit", "take", "complete"} :
          /\ C!To(w, [worker[w] EXCEPT !.step = step]) \/ C!To(w, C!Idle)
          /\ UNCHANGED session
    BY <1>6 DEF C!Debit, C!Credit, C!HoldEscrow
  <2>2. worker[w] \in Paying \cup Ending
    BY <1>1, <1>6, WorkerFields DEF C!Debit, C!Credit, C!HoldEscrow, C!At
  <2>3. [worker[w] EXCEPT !.step = step].step # "open" /\ C!Idle.step # "open"
    BY <2>2 DEF Paying, Ending, C!Idle
  <2> QED BY <2>1, <2>3, OpeningKept
<1>7. ASSUME NEW w \in Requests, C!TakeUnit(w) PROVE Opening(s)'
  <2> PICK state : state = [step |-> IF physical THEN "hold" ELSE "complete",
                            session |-> worker[w].session]
    OBVIOUS
  <2>1. C!To(w, state) /\ UNCHANGED session /\ state.step # "open"
    BY <1>7 DEF C!TakeUnit
  <2> QED BY <2>1, OpeningKept
<1>8. ASSUME NEW w \in Requests, NEW t, NEW n, NEW row, C!Take(w, t, n, row) PROVE Opening(s)'
  <2> PICK state : state = [step |-> "decide", session |-> t, n |-> n, row |-> row]
    OBVIOUS
  <2>1. C!To(w, state) /\ UNCHANGED session /\ state.step # "open"
    BY <1>8 DEF C!Take
  <2> QED BY <2>1, OpeningKept
<1>9. ASSUME NEW w \in Requests, C!DecisionSave(w) \/ C!RequestStops(w) PROVE Opening(s)'
  <2>1. C!To(w, C!Idle) /\ UNCHANGED session /\ C!Idle.step # "open"
    BY <1>9 DEF C!DecisionSave, C!RequestStops, C!Idle
  <2> QED BY <2>1, OpeningKept
<1> QED BY <1>2, <1>3, <1>4, <1>5, <1>6, <1>7, <1>8, <1>9 DEF C!Next, C!Decide, C!ShipProduct

LEMMA LoadStep ==
  ASSUME CheckoutInv, NEW w \in Requests, NEW t \in Sessions, C!LoadSession(w, t),
         NEW s \in Sessions
  PROVE  Held(s)
<1> DEFINE now == IF session[t].due THEN [step |-> "expire", session |-> t]
                  ELSE [step |-> IF session[t].method = "wallet" THEN "debit" ELSE "credit",
                        session |-> t, left |-> left]
<1>1. PICK state : state = now
  OBVIOUS
<1>2. /\ state.session = t /\ state.step \in {"expire", "debit", "credit"}
      /\ state.step = "credit" => session[t].method # "wallet"
  BY <1>1
<1>3. /\ C!To(w, state) /\ worker[w] = C!Idle /\ session[t].status = "pending"
      /\ UNCHANGED <<physical, session, debits, credits, escrow, crossed>>
      /\ repeated' = IF C!On(t, C!Completing) THEN repeated \cup {t} ELSE repeated
  BY <1>1 DEF C!LoadSession, C!Begin
<1> HIDE DEF now
<1>4. CheckoutTyped /\ worker[w].step = "idle"
  BY <1>3 DEF CheckoutInv, C!Idle
<1>5. CASE s # t
  BY <1>2, <1>3, <1>4, <1>5, FarSession
<1>6. CASE s = t
  <2>2. ~Does(w, s, {"credit"}) /\ ~Does(w, s, {"take", "hold"}) /\ ~Does(w, s, {"decide"})
          /\ ~Does(w, s, C!Completing)
    BY <1>4 DEF Does, C!Completing
  <2>3. worker'[w] = state /\ \A v \in Requests \ {w} : worker'[v] = worker[v]
    BY <1>3, <1>4, WorkerMoves
  <2>4. PaidFor(s)'
    <3>1. session[s].method = "wallet" => Number(s, {"credit"})' = Number(s, {"credit"})
      <4>1. session[s].method = "wallet" => ~(state.step \in {"credit"} /\ state.session = s)
        BY <1>2, <1>6
      <4> QED BY <1>3, <1>4, <2>2, <4>1, Counting
    <3>2. Number(s, {"take", "hold"})' = Number(s, {"take", "hold"})
      <4>1. ~(state.step \in {"take", "hold"} /\ state.session = s)
        BY <1>2
      <4> QED BY <1>3, <1>4, <2>2, <4>1, Counting
    <3>3. PaidFor(s)
      BY DEF CheckoutInv
    <3>4. \A v \in Requests : Does(v, s, {"take", "hold", "complete"})' =>
                                Does(v, s, {"take", "hold", "complete"})
      BY <1>2, <2>3 DEF Does
    <3>5. \A v \in Requests : Does(v, s, {"complete"})' => Does(v, s, {"complete"})
      BY <1>2, <2>3 DEF Does
    <3> QED BY <1>3, <1>6, <3>1, <3>2, <3>3, <3>4, <3>5 DEF PaidFor
  <2>5. ASSUME s \notin repeated' PROVE Once(s)'
    <3>1. Once(s) /\ \A v \in Requests : ~Does(v, s, C!Completing)
      BY <1>3, <1>6, <2>5 DEF CheckoutInv, C!On, Does
    <3>2. debits[s] = 0 /\ credits[s] = 0 /\ Len(escrow[s]) = 0
      BY <1>3, <1>6, <3>1 DEF Once
    <3>3. \A v \in Requests : Does(v, s, C!Completing)' => v = w
      BY <2>3, <3>1 DEF Does
    <3>4. Does(w, s, C!Completing)' /\ Sold(w, s)'
      BY <1>2, <1>3, <1>6, <2>3, <3>2 DEF Does, Sold, C!Completing
    <3> QED BY <1>3, <1>6, <3>2, <3>3, <3>4 DEF Once
  <2>6. ASSUME s \notin crossed' PROVE Decided(s)'
    BY <1>2, <1>3, <1>4, <2>2, <2>6, DecidingElsewhere DEF CheckoutInv
  <2> QED BY <2>4, <2>5, <2>6 DEF Held
<1> QED BY <1>5, <1>6

(* A step of the one request that completes a session no other completes.  *)
LEMMA OwnSession ==
  ASSUME CheckoutInv, NEW w \in Requests, NEW state, C!To(w, state), NEW s \in Sessions,
         s \notin repeated, Does(w, s, C!Completing),
         debits'[s] <= 1, credits'[s] <= 1, Len(escrow'[s]) <= 1,
         Does(w, s, C!Completing)' => session'[s].status = "pending" /\ Sold(w, s)',
         ~Does(w, s, C!Completing)' /\ session'[s].status # "completed" =>
           debits'[s] = 0 /\ credits'[s] = 0 /\ Len(escrow'[s]) = 0
  PROVE  Once(s)'
<1>1. \A v \in Requests \ {w} : worker'[v] = worker[v]
  BY WorkerMoves DEF CheckoutInv
<1>2. \A v \in Requests \ {w} : ~Does(v, s, C!Completing)'
  BY <1>1 DEF CheckoutInv, Once, Does
<1> QED BY <1>2 DEF Once

LEMMA ExpireStep ==
  ASSUME CheckoutInv, NEW w \in Requests, C!Expire(w), NEW s \in Sessions
  PROVE  Held(s)
<1> PICK t : t = worker[w].session
  OBVIOUS
<1>1. /\ t \in Sessions /\ worker[w].step = "expire" /\ C!To(w, C!Idle)
      /\ UNCHANGED <<physical, debits, credits, escrow, repeated, crossed>> /\ CheckoutTyped
  BY WorkerIsOf DEF C!Expire, C!At, C!history, CheckoutInv
<1>2. \A p \in Sessions : session'[p] = IF p = t THEN [session[t] EXCEPT !.status = "expired"]
                                        ELSE session[p]
  BY DEF C!Expire, CheckoutInv, CheckoutTyped, C!TypeOK
<1>3. CASE s # t
  BY <1>1, <1>2, <1>3, FarSession DEF C!Idle
<1>4. CASE s = t
  <2>1. session'[s].status = "expired" /\ session'[s].method = session[s].method
    BY <1>1, <1>2, <1>4 DEF CheckoutTyped, C!TypeOK
  <2>2. worker'[w] = C!Idle /\ \A v \in Requests \ {w} : worker'[v] = worker[v]
    BY <1>1, WorkerMoves
  <2>3. Does(w, s, C!Completing) /\ ~Does(w, s, {"credit"}) /\ ~Does(w, s, {"take", "hold"})
          /\ ~Does(w, s, {"decide"})
    BY <1>1, <1>4 DEF Does, C!Completing
  <2>4. /\ Number(s, {"credit"})' = Number(s, {"credit"})
        /\ Number(s, {"take", "hold"})' = Number(s, {"take", "hold"})
    BY <1>1, <2>3, Counting DEF C!Idle
  <2>5. \A v \in Requests :
          /\ Does(v, s, {"take", "hold", "complete"})' => Does(v, s, {"take", "hold", "complete"})
          /\ Does(v, s, {"complete"})' => Does(v, s, {"complete"})
    BY <2>2 DEF Does, C!Idle
  <2>6. PaidFor(s)'
    BY <1>1, <2>1, <2>4, <2>5 DEF PaidFor, CheckoutInv
  <2>7. ASSUME s \notin repeated' PROVE Once(s)'
    <3>1. Once(s) /\ Sold(w, s)
      BY <1>1, <2>3, <2>7 DEF CheckoutInv, Once
    <3>2. debits[s] = 0 /\ credits[s] = 0 /\ Len(escrow[s]) = 0
      BY <1>1, <3>1 DEF Sold
    <3>3. ~Does(w, s, C!Completing)'
      BY <2>2 DEF Does, C!Completing, C!Idle
    <3> QED BY <1>1, <2>3, <2>7, <3>2, <3>3, OwnSession
  <2>8. ASSUME s \notin crossed' PROVE Decided(s)'
    BY <1>1, <2>3, <2>8, DecidingElsewhere DEF CheckoutInv, C!Idle
  <2> QED BY <2>6, <2>7, <2>8 DEF Held
<1> QED BY <1>3, <1>4

LEMMA DebitStep ==
  ASSUME CheckoutInv, NEW w \in Requests, C!Debit(w), NEW s \in Sessions
  PROVE  Held(s)
<1> PICK t : t = worker[w].session
  OBVIOUS
<1>1. /\ t \in Sessions /\ worker[w].step = "debit" /\ CheckoutTyped
      /\ UNCHANGED <<physical, session, credits, escrow, repeated, crossed>>
  BY WorkerIsOf DEF C!Debit, C!At, C!history, CheckoutInv
<1>2. PICK state : /\ C!To(w, state)
                   /\ \/ state = C!Idle /\ debits' = debits
                      \/ /\ state = [worker[w] EXCEPT !.step = "credit"]
                         /\ debits' = [debits EXCEPT ![worker[w].session] = @ + 1]
  BY DEF C!Debit
<1>3. \/ state.step = "idle" /\ debits' = debits
      \/ /\ state.step = "credit" /\ state.session = t
         /\ debits' = [debits EXCEPT ![t] = @ + 1]
  <2>1. worker[w] \in Paying
    BY <1>1, WorkerFields
  <2>2. /\ [worker[w] EXCEPT !.step = "credit"].step = "credit"
        /\ [worker[w] EXCEPT !.step = "credit"].session = t
    BY <2>1 DEF Paying
  <2>3. CASE state = C!Idle /\ debits' = debits
    BY <2>3 DEF C!Idle
  <2>4. CASE /\ state = [worker[w] EXCEPT !.step = "credit"]
             /\ debits' = [debits EXCEPT ![worker[w].session] = @ + 1]
    <3>1. debits' = [debits EXCEPT ![t] = @ + 1]
      BY <2>4
    <3> QED BY <2>2, <2>4, <3>1
  <2> QED BY <1>2, <2>3, <2>4
<1>4. CASE s # t
  <2>1. debits'[s] = debits[s]
    BY <1>3, <1>4 DEF CheckoutInv, CheckoutTyped, C!TypeOK
  <2> QED BY <1>1, <1>2, <1>3, <1>4, <2>1, FarSession
<1>5. CASE s = t
  <2>1. /\ debits[s] \in Nat /\ credits[s] \in Nat
        /\ debits'[s] = IF state.step = "credit" THEN debits[s] + 1 ELSE debits[s]
    BY <1>1, <1>3, <1>5 DEF CheckoutTyped, C!TypeOK
  <2>2. worker'[w] = state /\ \A v \in Requests \ {w} : worker'[v] = worker[v]
    BY <1>1, <1>2, WorkerMoves
  <2>3. Does(w, s, C!Completing) /\ ~Does(w, s, {"credit"}) /\ ~Does(w, s, {"take", "hold"})
          /\ ~Does(w, s, {"decide"})
    BY <1>1, <1>5 DEF Does, C!Completing
  <2>4. /\ Number(s, {"credit"}) \in Nat
        /\ Number(s, {"credit"})' = Number(s, {"credit"})
                                      + (IF state.step = "credit" THEN 1 ELSE 0)
        /\ Number(s, {"take", "hold"})' = Number(s, {"take", "hold"})
    <3>1. /\ Number(s, {"credit"}) \in Nat /\ Number(s, {"take", "hold"}) \in Nat
          /\ (state.step \in {"credit"} /\ state.session = s) <=> state.step = "credit"
          /\ ~(state.step \in {"take", "hold"} /\ state.session = s)
      BY <1>3, <1>5, Counted
    <3>2. Number(s, {"credit"})' = Number(s, {"credit"})
                                     + (IF state.step = "credit" THEN 1 ELSE 0)
      BY <1>1, <1>2, <2>3, <3>1, Counting
    <3>3. Number(s, {"take", "hold"})' = Number(s, {"take", "hold"})
      BY <1>1, <1>2, <2>3, <3>1, Counting
    <3> QED BY <3>1, <3>2, <3>3
  <2>5. \A v \in Requests :
          /\ Does(v, s, {"take", "hold", "complete"})' => Does(v, s, {"take", "hold", "complete"})
          /\ Does(v, s, {"complete"})' => Does(v, s, {"complete"})
    BY <1>3, <2>2 DEF Does
  <2>6. PaidFor(s)'
    <3>1. PaidFor(s) /\ session[s].status # "none"
      BY <2>3 DEF CheckoutInv, PaidFor
    <3> QED BY <1>1, <2>1, <2>4, <2>5, <3>1 DEF PaidFor
  <2>7. ASSUME s \notin repeated' PROVE Once(s)'
    <3>1. Once(s) /\ Sold(w, s) /\ session[s].status = "pending"
      BY <1>1, <2>3, <2>7 DEF CheckoutInv, Once
    <3>2. debits[s] = 0 /\ credits[s] = 0 /\ Len(escrow[s]) = 0
      BY <1>1, <3>1 DEF Sold
    <3>3. Does(w, s, C!Completing)' <=> state.step = "credit"
      BY <1>3, <1>5, <2>2 DEF Does, C!Completing
    <3>4. Does(w, s, C!Completing)' => Sold(w, s)'
      BY <1>1, <2>2, <3>2, <3>3 DEF Sold
    <3> QED BY <1>1, <1>2, <2>1, <2>3, <2>7, <3>1, <3>2, <3>3, <3>4, OwnSession
  <2>8. ASSUME s \notin crossed' PROVE Decided(s)'
    BY <1>1, <1>2, <1>3, <2>3, <2>8, DecidingElsewhere DEF CheckoutInv
  <2> QED BY <2>6, <2>7, <2>8 DEF Held
<1> QED BY <1>4, <1>5

LEMMA CreditStep ==
  ASSUME CheckoutInv, NEW w \in Requests, C!Credit(w), NEW s \in Sessions
  PROVE  Held(s)
<1> PICK t : t = worker[w].session
  OBVIOUS
<1>1. /\ t \in Sessions /\ worker[w].step = "credit" /\ CheckoutTyped
      /\ C!To(w, [worker[w] EXCEPT !.step = "take"])
      /\ UNCHANGED <<physical, session, debits, escrow, repeated, crossed>>
  BY WorkerIsOf DEF C!Credit, C!At, C!history, CheckoutInv
<1>2. PICK state : state.step = "take" /\ state.session = t /\ C!To(w, state)
  <2>1. /\ [worker[w] EXCEPT !.step = "take"].step = "take"
        /\ [worker[w] EXCEPT !.step = "take"].session = t
    BY <1>1, WorkerFields DEF Paying
  <2> QED BY <1>1, <2>1
<1>3. /\ t \in Sessions /\ worker[w].step = "credit" /\ C!To(w, state) /\ CheckoutTyped
      /\ UNCHANGED <<physical, session, debits, escrow, repeated, crossed>>
  BY <1>1, <1>2
<1>4. \A p \in Sessions : credits'[p] = IF p = t THEN credits[t] + 1 ELSE credits[p]
  BY DEF C!Credit, CheckoutInv, CheckoutTyped, C!TypeOK
<1>5. CASE s # t
  BY <1>3, <1>2, <1>4, <1>5, FarSession
<1>6. CASE s = t
  <2>1. /\ debits[s] \in Nat /\ credits[s] \in Nat /\ credits'[s] = credits[s] + 1
        /\ Len(escrow[s]) \in Nat
    BY <1>3, <1>4, <1>6 DEF CheckoutTyped, C!TypeOK
  <2>2. worker'[w] = state /\ \A v \in Requests \ {w} : worker'[v] = worker[v]
    BY <1>3, WorkerMoves
  <2>3. Does(w, s, C!Completing) /\ Does(w, s, {"credit"}) /\ ~Does(w, s, {"take", "hold"})
          /\ ~Does(w, s, {"decide"})
    BY <1>3, <1>6 DEF Does, C!Completing
  <2>4. /\ Number(s, {"credit"}) \in Nat /\ Number(s, {"take", "hold"}) \in Nat
        /\ Number(s, {"credit"})' = Number(s, {"credit"}) - 1
        /\ Number(s, {"take", "hold"})' = Number(s, {"take", "hold"}) + 1
    <3>1. /\ Number(s, {"credit"}) \in Nat /\ Number(s, {"take", "hold"}) \in Nat
          /\ ~(state.step \in {"credit"} /\ state.session = s)
          /\ state.step \in {"take", "hold"} /\ state.session = s
      BY <1>2, <1>6, Counted
    <3>2. Number(s, {"credit"})' = Number(s, {"credit"}) - 1
      BY <1>3, <2>3, <3>1, Counting
    <3>3. Number(s, {"take", "hold"})' = Number(s, {"take", "hold"}) + 1
      BY <1>3, <2>3, <3>1, Counting
    <3> QED BY <3>1, <3>2, <3>3
  <2>5. \A v \in Requests : Does(v, s, {"complete"})' => Does(v, s, {"complete"})
    BY <1>2, <2>2 DEF Does
  <2>6. PaidFor(s)'
    <3>1. PaidFor(s) /\ session[s].status # "none"
      BY <2>3 DEF CheckoutInv, PaidFor
    <3> QED BY <1>3, <2>1, <2>4, <2>5, <3>1 DEF PaidFor
  <2>7. ASSUME s \notin repeated' PROVE Once(s)'
    <3>1. Once(s) /\ Sold(w, s) /\ session[s].status = "pending"
      BY <1>3, <2>3, <2>7 DEF CheckoutInv, Once
    <3>2. debits[s] <= 1 /\ credits[s] = 0 /\ Len(escrow[s]) = 0
      BY <1>3, <3>1 DEF Sold, Once
    <3>3. Does(w, s, C!Completing)' /\ Sold(w, s)'
      BY <1>3, <1>2, <1>6, <2>2, <3>2 DEF Does, C!Completing, Sold
    <3> QED BY <1>3, <2>1, <2>3, <2>7, <3>1, <3>2, <3>3, OwnSession
  <2>8. ASSUME s \notin crossed' PROVE Decided(s)'
    BY <1>3, <1>2, <2>3, <2>8, DecidingElsewhere DEF CheckoutInv
  <2> QED BY <2>6, <2>7, <2>8 DEF Held
<1> QED BY <1>5, <1>6

LEMMA TakeStep ==
  ASSUME CheckoutInv, NEW w \in Requests, C!TakeUnit(w), NEW s \in Sessions
  PROVE  Held(s)
<1> PICK t, next : t = worker[w].session /\ next = IF physical THEN "hold" ELSE "complete"
  OBVIOUS
<1> PICK state : state = [step |-> next, session |-> t]
  OBVIOUS
<1>1. /\ t \in Sessions /\ worker[w].step = "take" /\ C!To(w, state) /\ CheckoutTyped
      /\ UNCHANGED <<physical, session, debits, credits, escrow, repeated, crossed>>
  BY WorkerIsOf DEF C!TakeUnit, C!At, C!history, CheckoutInv
<1>2. /\ state.session = t /\ state.step \in {"hold", "complete"}
      /\ state.step = "hold" <=> physical
  OBVIOUS
<1>3. CASE s # t
  BY <1>1, <1>2, <1>3, FarSession
<1>4. CASE s = t
  <2>1. debits[s] \in Nat /\ credits[s] \in Nat /\ Len(escrow[s]) \in Nat
    BY <1>1, <1>4 DEF CheckoutTyped, C!TypeOK
  <2>2. worker'[w] = state /\ \A v \in Requests \ {w} : worker'[v] = worker[v]
    BY <1>1, WorkerMoves
  <2>3. Does(w, s, C!Completing) /\ ~Does(w, s, {"credit"}) /\ Does(w, s, {"take", "hold"})
          /\ ~Does(w, s, {"decide"}) /\ Does(w, s, {"take", "hold", "complete"})
    BY <1>1, <1>4 DEF Does, C!Completing
  <2>4. /\ Number(s, {"credit"}) \in Nat /\ Number(s, {"take", "hold"}) \in Nat
        /\ Number(s, {"credit"})' = Number(s, {"credit"})
        /\ Number(s, {"take", "hold"})' \in Nat
        /\ Number(s, {"take", "hold"})' <= Number(s, {"take", "hold"})
    <3>1. /\ Number(s, {"credit"}) \in Nat /\ Number(s, {"take", "hold"}) \in Nat
          /\ ~(state.step \in {"credit"} /\ state.session = s)
      BY <1>2, Counted
    <3>2. Number(s, {"credit"})' = Number(s, {"credit"})
      BY <1>1, <2>3, <3>1, Counting
    <3>3. /\ Number(s, {"take", "hold"})' \in Nat
          /\ \/ Number(s, {"take", "hold"})' = Number(s, {"take", "hold"})
             \/ Number(s, {"take", "hold"})' = Number(s, {"take", "hold"}) - 1
      BY <1>1, <2>3, Counting
    <3> QED BY <3>1, <3>2, <3>3
  <2>5. PaidFor(s) /\ session[s].status # "none" /\ credits[s] > 0
    BY <2>3 DEF CheckoutInv, PaidFor
  <2>6. Does(w, s, {"complete"})' => ~physical
    BY <1>2, <2>2 DEF Does
  <2>7. \A v \in Requests \ {w} : Does(v, s, {"complete"})' => Does(v, s, {"complete"})
    BY <2>2 DEF Does
  <2>8. PaidFor(s)'
    BY <1>1, <2>1, <2>4, <2>5, <2>6, <2>7 DEF PaidFor
  <2>9. ASSUME s \notin repeated' PROVE Once(s)'
    <3>1. Once(s) /\ Sold(w, s) /\ session[s].status = "pending"
      BY <1>1, <2>3, <2>9 DEF CheckoutInv, Once
    <3>2. debits[s] <= 1 /\ credits[s] <= 1 /\ Len(escrow[s]) = 0
      BY <1>1, <3>1 DEF Sold, Once
    <3>3. Does(w, s, C!Completing)' /\ Sold(w, s)'
      BY <1>1, <1>2, <1>4, <2>2, <3>2 DEF Does, C!Completing, Sold
    <3> QED BY <1>1, <2>1, <2>3, <2>9, <3>1, <3>2, <3>3, OwnSession
  <2>10. ASSUME s \notin crossed' PROVE Decided(s)'
    BY <1>1, <1>2, <2>3, <2>10, DecidingElsewhere DEF CheckoutInv
  <2> QED BY <2>8, <2>9, <2>10 DEF Held
<1> QED BY <1>3, <1>4

LEMMA HoldStep ==
  ASSUME CheckoutInv, NEW w \in Requests, C!HoldEscrow(w), NEW s \in Sessions
  PROVE  Held(s)
<1> PICK t : t = worker[w].session
  OBVIOUS
<1> PICK row : row = [status |-> "held", shipped |-> FALSE]
  OBVIOUS
<1>1. /\ t \in Sessions /\ worker[w].step = "hold" /\ CheckoutTyped
      /\ C!To(w, [worker[w] EXCEPT !.step = "complete"])
      /\ UNCHANGED <<physical, session, debits, credits, repeated, crossed>>
  BY WorkerIsOf DEF C!HoldEscrow, C!At, C!history, CheckoutInv
<1>2. PICK state : state.step = "complete" /\ state.session = t /\ C!To(w, state)
  <2>1. /\ [worker[w] EXCEPT !.step = "complete"].step = "complete"
        /\ [worker[w] EXCEPT !.step = "complete"].session = t
    BY <1>1, WorkerFields DEF Ending
  <2> QED BY <1>1, <2>1
<1>3. /\ t \in Sessions /\ worker[w].step = "hold" /\ C!To(w, state) /\ CheckoutTyped
      /\ UNCHANGED <<physical, session, debits, credits, repeated, crossed>>
  BY <1>1, <1>2
<1>4. \A p \in Sessions : escrow'[p] = IF p = t THEN Append(escrow[t], row) ELSE escrow[p]
  BY DEF C!HoldEscrow, CheckoutInv, CheckoutTyped, C!TypeOK
<1>5. CASE s # t
  BY <1>3, <1>2, <1>4, <1>5, FarSession
<1>6. CASE s = t
  <2>1. /\ debits[s] \in Nat /\ credits[s] \in Nat /\ escrow[s] \in Seq(C!EscrowRow)
    BY <1>3 DEF CheckoutTyped, C!TypeOK
  <2>2. /\ Len(escrow[s]) \in Nat /\ Len(escrow'[s]) = Len(escrow[s]) + 1 /\ escrow'[s] # << >>
        /\ \A n \in DOMAIN escrow[s] : escrow'[s][n] = escrow[s][n]
    <3>1. escrow'[s] = Append(escrow[s], row)
      BY <1>4, <1>6
    <3> QED BY <2>1, <3>1
  <2>3. worker'[w] = state /\ \A v \in Requests \ {w} : worker'[v] = worker[v]
    BY <1>3, WorkerMoves
  <2>4. Does(w, s, C!Completing) /\ ~Does(w, s, {"credit"}) /\ Does(w, s, {"take", "hold"})
          /\ ~Does(w, s, {"decide"}) /\ Does(w, s, {"take", "hold", "complete"})
    BY <1>3, <1>6 DEF Does, C!Completing
  <2>5. /\ Number(s, {"credit"}) \in Nat /\ Number(s, {"take", "hold"}) \in Nat
        /\ Number(s, {"credit"})' = Number(s, {"credit"})
        /\ Number(s, {"take", "hold"})' = Number(s, {"take", "hold"}) - 1
    <3>1. /\ Number(s, {"credit"}) \in Nat /\ Number(s, {"take", "hold"}) \in Nat
          /\ ~(state.step \in {"credit"} /\ state.session = s)
          /\ ~(state.step \in {"take", "hold"} /\ state.session = s)
      BY <1>2, Counted
    <3>2. Number(s, {"credit"})' = Number(s, {"credit"})
      BY <1>3, <2>4, <3>1, Counting
    <3>3. Number(s, {"take", "hold"})' = Number(s, {"take", "hold"}) - 1
      BY <1>3, <2>4, <3>1, Counting
    <3> QED BY <3>1, <3>2, <3>3
  <2>6. PaidFor(s) /\ session[s].status # "none" /\ credits[s] > 0
    BY <2>4 DEF CheckoutInv, PaidFor
  <2>7. PaidFor(s)'
    BY <1>3, <2>1, <2>2, <2>5, <2>6 DEF PaidFor
  <2>8. ASSUME s \notin repeated' PROVE Once(s)'
    <3>1. Once(s) /\ Sold(w, s) /\ session[s].status = "pending"
      BY <1>3, <2>4, <2>8 DEF CheckoutInv, Once
    <3>2. debits[s] <= 1 /\ credits[s] <= 1 /\ Len(escrow'[s]) = 1
      BY <1>3, <2>2, <3>1 DEF Sold, Once
    <3>3. Does(w, s, C!Completing)' /\ Sold(w, s)'
      BY <1>3, <1>2, <1>6, <2>3, <3>2 DEF Does, C!Completing, Sold
    <3>4. Len(escrow'[s]) <= 1 /\ debits'[s] <= 1 /\ credits'[s] <= 1
      BY <1>3, <3>2
    <3> QED BY <1>3, <2>4, <2>8, <3>1, <3>3, <3>4, OwnSession
  <2>9. ASSUME s \notin crossed' PROVE Decided(s)'
    BY <1>3, <1>2, <2>2, <2>4, <2>9, DecidingElsewhere DEF CheckoutInv
  <2> QED BY <2>7, <2>8, <2>9 DEF Held
<1> QED BY <1>5, <1>6

LEMMA CompleteStep ==
  ASSUME CheckoutInv, NEW w \in Requests, C!Complete(w), NEW s \in Sessions
  PROVE  Held(s)
<1> PICK t : t = worker[w].session
  OBVIOUS
<1>1. /\ t \in Sessions /\ worker[w].step = "complete" /\ C!To(w, C!Idle)
      /\ UNCHANGED <<physical, debits, credits, escrow, repeated, crossed>> /\ CheckoutTyped
  BY WorkerIsOf DEF C!Complete, C!At, C!history, CheckoutInv
<1>2. \A p \in Sessions : session'[p] = IF p = t THEN [session[t] EXCEPT !.status = "completed"]
                                        ELSE session[p]
  BY DEF C!Complete, CheckoutInv, CheckoutTyped, C!TypeOK
<1>3. CASE s # t
  BY <1>1, <1>2, <1>3, FarSession DEF C!Idle
<1>4. CASE s = t
  <2>1. session'[s].status = "completed" /\ session'[s].method = session[s].method
    BY <1>1, <1>2, <1>4 DEF CheckoutTyped, C!TypeOK
  <2>2. worker'[w] = C!Idle /\ \A v \in Requests \ {w} : worker'[v] = worker[v]
    BY <1>1, WorkerMoves
  <2>3. Does(w, s, C!Completing) /\ ~Does(w, s, {"credit"}) /\ ~Does(w, s, {"take", "hold"})
          /\ ~Does(w, s, {"decide"}) /\ Does(w, s, {"take", "hold", "complete"})
          /\ Does(w, s, {"complete"})
    BY <1>1, <1>4 DEF Does, C!Completing
  <2>4. /\ Number(s, {"credit"})' = Number(s, {"credit"})
        /\ Number(s, {"take", "hold"})' = Number(s, {"take", "hold"})
    BY <1>1, <2>3, Counting DEF C!Idle
  <2>5. \A v \in Requests :
          /\ Does(v, s, {"take", "hold", "complete"})' => Does(v, s, {"take", "hold", "complete"})
          /\ Does(v, s, {"complete"})' => Does(v, s, {"complete"})
    BY <2>2 DEF Does, C!Idle
  <2>6. PaidFor(s)'
    <3>1. PaidFor(s) /\ credits[s] > 0 /\ (physical => escrow[s] # << >>)
      BY <2>3 DEF CheckoutInv, PaidFor
    <3> QED BY <1>1, <2>1, <2>4, <2>5, <3>1 DEF PaidFor
  <2>7. ASSUME s \notin repeated' PROVE Once(s)'
    <3>1. Once(s)
      BY <1>1, <2>7 DEF CheckoutInv
    <3>2. ~Does(w, s, C!Completing)'
      BY <2>2 DEF Does, C!Completing, C!Idle
    <3>3. debits'[s] <= 1 /\ credits'[s] <= 1 /\ Len(escrow'[s]) <= 1
      BY <1>1, <3>1 DEF Once
    <3> QED BY <1>1, <2>1, <2>3, <2>7, <3>2, <3>3, OwnSession
  <2>8. ASSUME s \notin crossed' PROVE Decided(s)'
    BY <1>1, <2>3, <2>8, DecidingElsewhere DEF CheckoutInv, C!Idle
  <2> QED BY <2>6, <2>7, <2>8 DEF Held
<1> QED BY <1>3, <1>4

(* confirmDelivery, disputeEscrow and shipProduct.                         *)
LEMMA TakeRowStep ==
  ASSUME CheckoutInv, NEW w \in Requests, NEW t \in Sessions, NEW n \in DOMAIN escrow[t],
         NEW row, C!Take(w, t, n, row),
         escrow[t][n].status # "held" => row.status = escrow[t][n].status,
         escrow[t][n].shipped => row.shipped,
         NEW s \in Sessions
  PROVE  Held(s)
<1> PICK state : state = [step |-> "decide", session |-> t, n |-> n, row |-> row]
  OBVIOUS
<1>1. /\ C!To(w, state) /\ worker[w] = C!Idle /\ worker[w].step = "idle" /\ CheckoutTyped
      /\ UNCHANGED <<physical, session, debits, credits, escrow, repeated>>
      /\ crossed' = IF C!On(t, {"decide"}) THEN crossed \cup {t} ELSE crossed
  BY DEF C!Take, C!Idle, CheckoutInv
<1>2. state.step = "decide" /\ state.session = t /\ state.n = n /\ state.row = row
  OBVIOUS
<1>3. CASE s # t
  BY <1>1, <1>2, <1>3, FarSession
<1>4. CASE s = t
  <2>1. ~Does(w, s, C!Completing) /\ ~(state.step \in C!Completing /\ state.session = s)
    BY <1>1, <1>2 DEF Does, C!Completing
  <2>2. PaidFor(s)' /\ (s \notin repeated' => Once(s)')
    BY <1>1, <2>1, PayingElsewhere DEF CheckoutInv
  <2>3. ASSUME s \notin crossed' PROVE Decided(s)'
    <3>1. s \notin crossed /\ \A v \in Requests : ~Does(v, s, {"decide"})
      BY <1>1, <1>4, <2>3 DEF C!On, Does
    <3>2. worker'[w] = state /\ \A v \in Requests \ {w} : worker'[v] = worker[v]
      BY <1>1, WorkerMoves
    <3>3. \A v \in Requests : Does(v, s, {"decide"})' => v = w
      BY <3>1, <3>2 DEF Does
    <3>4. worker'[w].n = n /\ worker'[w].row = row
      BY <1>2, <3>2
    <3> QED BY <1>1, <1>4, <3>3, <3>4 DEF Decided
  <2> QED BY <2>2, <2>3 DEF Held
<1> QED BY <1>3, <1>4

LEMMA DecideStep ==
  ASSUME CheckoutInv, NEW w \in Requests, NEW t \in Sessions, NEW n \in DOMAIN escrow[t],
         \/ \E status \in {"released", "disputed"} : C!Decide(w, t, n, status)
         \/ C!ShipProduct(w, t, n),
         NEW s \in Sessions
  PROVE  Held(s)
<1>1. escrow[t][n] \in C!EscrowRow
  BY DEF CheckoutInv, CheckoutTyped, C!TypeOK
<1>2. ASSUME NEW status \in {"released", "disputed"}, C!Decide(w, t, n, status) PROVE Held(s)
  <2>1. /\ C!Take(w, t, n, [escrow[t][n] EXCEPT !.status = status])
        /\ escrow[t][n].status = "held"
    BY <1>2 DEF C!Decide
  <2>2. [escrow[t][n] EXCEPT !.status = status].shipped = escrow[t][n].shipped
    BY <1>1 DEF C!EscrowRow
  <2> QED BY <2>1, <2>2, TakeRowStep
<1>3. ASSUME C!ShipProduct(w, t, n) PROVE Held(s)
  <2>1. C!Take(w, t, n, [escrow[t][n] EXCEPT !.shipped = TRUE])
    BY <1>3 DEF C!ShipProduct
  <2>2. /\ [escrow[t][n] EXCEPT !.shipped = TRUE].status = escrow[t][n].status
        /\ [escrow[t][n] EXCEPT !.shipped = TRUE].shipped
    BY <1>1 DEF C!EscrowRow
  <2> QED BY <2>1, <2>2, TakeRowStep
<1> QED BY <1>2, <1>3

LEMMA DecisionSaveStep ==
  ASSUME CheckoutInv, NEW w \in Requests, C!DecisionSave(w)
  PROVE  (\A s \in Sessions : Held(s)) /\ C!FinalStep
<1> PICK t, n, row : t = worker[w].session /\ n = worker[w].n /\ row = worker[w].row
  OBVIOUS
<1>1. /\ t \in Sessions /\ worker[w].step = "decide" /\ C!To(w, C!Idle) /\ CheckoutTyped
      /\ UNCHANGED <<physical, session, debits, credits, repeated, crossed>>
      /\ n \in DOMAIN escrow[t] /\ row \in C!EscrowRow
  BY WorkerFields DEF C!DecisionSave, C!At, C!history, CheckoutInv, Deciding
<1>2. \A p \in Sessions : escrow[p] \in Seq(C!EscrowRow)
  BY <1>1 DEF CheckoutTyped, C!TypeOK
<1>3. \A p \in Sessions : escrow'[p] = IF p = t THEN [escrow[t] EXCEPT ![n] = row] ELSE escrow[p]
  BY DEF C!DecisionSave, CheckoutInv, CheckoutTyped, C!TypeOK
<1>4. /\ Len(escrow'[t]) = Len(escrow[t]) /\ DOMAIN escrow'[t] = DOMAIN escrow[t]
      /\ \A m \in DOMAIN escrow[t] : escrow'[t][m] = IF m = n THEN row ELSE escrow[t][m]
  BY <1>1, <1>2, <1>3
<1>5. worker'[w] = C!Idle /\ \A v \in Requests \ {w} : worker'[v] = worker[v]
  BY <1>1, WorkerMoves
<1>6. ASSUME NEW s \in Sessions PROVE Held(s)
  <2>1. CASE s # t
    BY <1>1, <1>3, <2>1, FarSession DEF C!Idle
  <2>2. CASE s = t
    <3>1. ~Does(w, s, C!Completing) /\ Does(w, s, {"decide"})
      BY <1>1, <2>2 DEF Does, C!Completing
    <3>2. escrow[s] # << >> => escrow'[s] # << >>
      BY <1>1, <1>2, <1>4, <2>2
    <3>3. PaidFor(s)' /\ (s \notin repeated' => Once(s)')
      BY <1>1, <1>4, <2>2, <3>1, <3>2, PayingElsewhere DEF CheckoutInv, C!Idle, C!Completing
    <3>4. ASSUME s \notin crossed' PROVE Decided(s)'
      <4>1. \A v \in Requests : ~Does(v, s, {"decide"})'
        <5>1. \A v \in Requests : Does(v, s, {"decide"}) => v = w
          BY <1>1, <3>1, <3>4 DEF CheckoutInv, Decided
        <5> QED BY <1>5, <5>1 DEF Does, C!Idle
      <4> QED BY <4>1 DEF Decided
    <3> QED BY <3>3, <3>4 DEF Held
  <2> QED BY <2>1, <2>2
<1>7. ASSUME NEW s \in Sessions \ crossed', NEW m \in DOMAIN escrow[s]
      PROVE  /\ escrow[s][m].status # "held" => escrow'[s][m].status = escrow[s][m].status
             /\ escrow[s][m].shipped => escrow'[s][m].shipped
  <2>1. CASE s # t \/ m # n
    BY <1>3, <1>4, <1>7, <2>1
  <2>2. CASE s = t /\ m = n
    <3>1. Decided(s) /\ Does(w, s, {"decide"})
      BY <1>1, <1>7, <2>2 DEF CheckoutInv, Does
    <3>2. escrow'[s][m] = row
      BY <1>4, <2>2
    <3> QED BY <1>1, <2>2, <3>1, <3>2 DEF Decided
  <2> QED BY <2>1, <2>2
<1> QED BY <1>6, <1>7 DEF C!FinalStep

LEMMA StopStep ==
  ASSUME CheckoutInv, NEW w \in Requests, C!RequestStops(w), NEW s \in Sessions
  PROVE  Held(s)
<1> PICK t : t = worker[w].session
  OBVIOUS
<1>1. /\ C!To(w, C!Idle) /\ CheckoutTyped /\ worker[w] # C!Idle
      /\ UNCHANGED <<physical, session, debits, credits, escrow, crossed>>
      /\ repeated' = IF worker[w].step \in C!Completing THEN repeated \cup {t} ELSE repeated
  BY DEF C!RequestStops, CheckoutInv
<1>2. worker'[w] = C!Idle /\ \A v \in Requests \ {w} : worker'[v] = worker[v]
  BY <1>1, WorkerMoves
<1>3. \A steps : "idle" \notin steps => ~Does(w, s, steps)'
  BY <1>2 DEF Does, C!Idle
<1>4. PaidFor(s)'
  <2>1. \A steps : "idle" \notin steps => Number(s, steps)' \in Nat /\ Number(s, steps) \in Nat
                                            /\ Number(s, steps)' <= Number(s, steps)
    BY <1>1, Counting DEF C!Idle
  <2>2. \A v \in Requests : \A steps : "idle" \notin steps => (Does(v, s, steps)' => Does(v, s, steps))
    BY <1>2, <1>3 DEF Does
  <2>3. PaidFor(s) /\ credits[s] \in Nat /\ debits[s] \in Nat /\ Len(escrow[s]) \in Nat
    BY DEF CheckoutInv, CheckoutTyped, C!TypeOK
  <2>4. /\ "idle" \notin {"credit"} /\ "idle" \notin {"take", "hold"} /\ "idle" \notin {"complete"}
        /\ "idle" \notin {"take", "hold", "complete"} /\ "idle" \notin C!Completing
    BY DEF C!Completing
  <2>5. /\ Number(s, {"credit"})' \in Nat /\ Number(s, {"credit"}) \in Nat
        /\ Number(s, {"credit"})' <= Number(s, {"credit"})
        /\ Number(s, {"take", "hold"})' \in Nat /\ Number(s, {"take", "hold"}) \in Nat
        /\ Number(s, {"take", "hold"})' <= Number(s, {"take", "hold"})
    BY <2>1, <2>4
  <2> QED BY <1>1, <2>2, <2>3, <2>4, <2>5 DEF PaidFor
<1>5. ASSUME s \notin repeated' PROVE Once(s)'
  <2>1. ~Does(w, s, C!Completing)
    BY <1>1, <1>5 DEF Does
  <2> QED BY <1>1, <1>5, <2>1, PayingElsewhere DEF CheckoutInv, C!Idle, C!Completing
<1>6. ASSUME s \notin crossed' PROVE Decided(s)'
  <2>1. Decided(s)
    BY <1>1, <1>6 DEF CheckoutInv
  <2>2. \A v \in Requests : Does(v, s, {"decide"})' =>
                              v # w /\ Does(v, s, {"decide"}) /\ worker'[v] = worker[v]
    BY <1>2, <1>3 DEF Does
  <2> QED BY <1>1, <2>1, <2>2 DEF Decided
<1> QED BY <1>4, <1>5, <1>6 DEF Held

LEMMA CheckoutStep ==
  ASSUME CheckoutInv, C!Next
  PROVE  CheckoutInv' /\ C!FinalStep
<1>1. CheckoutTyped'
  BY CheckoutStaysTyped DEF CheckoutInv
<1>2. ASSUME NEW s \in Sessions PROVE Held(s)
  BY <1>2, DueStep, CheckStep, OpenStep, LoadStep, ExpireStep, DebitStep, CreditStep, TakeStep, HoldStep,
     CompleteStep, DecideStep, DecisionSaveStep, StopStep DEF C!Next
<1>3. C!FinalStep
  <2>1. CASE \E w \in Requests : C!DecisionSave(w)
    BY <2>1, DecisionSaveStep
  <2>2. CASE \E w \in Requests : C!HoldEscrow(w)
    <3> PICK w \in Requests : C!HoldEscrow(w)
      BY <2>2
    <3> PICK row, t : row = [status |-> "held", shipped |-> FALSE] /\ t = worker[w].session
      OBVIOUS
    <3>1. \A s \in Sessions : escrow'[s] = IF s = t THEN Append(escrow[s], row) ELSE escrow[s]
      BY DEF C!HoldEscrow, CheckoutInv, CheckoutTyped, C!TypeOK
    <3>2. \A s \in Sessions : escrow[s] \in Seq(C!EscrowRow)
      BY DEF CheckoutInv, CheckoutTyped, C!TypeOK
    <3>3. ASSUME NEW s \in Sessions, NEW n \in DOMAIN escrow[s]
          PROVE  escrow'[s][n] = escrow[s][n]
      <4>1. n \in 1..Len(escrow[s])
        BY <3>2
      <4>2. Append(escrow[s], row)[n] = escrow[s][n]
        BY <3>2, <4>1
      <4> QED BY <3>1, <4>2
    <3> QED BY <3>3 DEF C!FinalStep
  <2>3. CASE UNCHANGED escrow
    BY <2>3 DEF C!FinalStep
  <2> QED
    BY <2>1, <2>2, <2>3
       DEF C!Next, C!CreateCheckoutSession, C!OpenSession, C!ComesDue, C!LoadSession, C!Begin, C!Expire, C!Debit,
           C!Credit, C!TakeUnit, C!Complete, C!Decide, C!ShipProduct, C!Take, C!RequestStops
<1>4. \A s \in Sessions : Opening(s)'
  BY OpeningStays
<1> QED BY <1>1, <1>2, <1>3, <1>4 DEF CheckoutInv, Held

LEMMA CheckoutBegin == C!Init => CheckoutInv
<1> SUFFICES ASSUME C!Init PROVE CheckoutInv
  OBVIOUS
<1>1. CheckoutTyped
  <2>1. session \in [Sessions -> [status : {"none", "pending", "completed", "expired"},
                                 method : C!Methods, due : BOOLEAN]]
    BY DEF C!Init, C!NoSession, C!Methods
  <2>2. left \in Int /\ rare \in 0..MaxCheckoutRare
    BY StockAssumption, BoundsAssumption DEF C!Init
  <2>3. /\ debits \in [Sessions -> Nat] /\ credits \in [Sessions -> Nat]
        /\ escrow \in [Sessions -> Seq(C!EscrowRow)]
    BY DEF C!Init
  <2>4. \A w \in Requests : worker[w].step = "idle"
    BY DEF C!Init, C!Idle
  <2> QED BY <2>1, <2>2, <2>3, <2>4 DEF C!Init, CheckoutTyped, C!TypeOK
<1>2. \A s : \A steps : "idle" \notin steps => {w \in Requests : Does(w, s, steps)} = {}
  BY DEF C!Init, C!Idle, Does
<1>3. \A s : \A steps : "idle" \notin steps => Number(s, steps) = 0
  BY <1>2, FS_EmptySet DEF Number
<1>4. ASSUME NEW s \in Sessions PROVE PaidFor(s) /\ Opening(s) /\ Once(s) /\ Decided(s)
  BY <1>2, <1>3 DEF C!Init, C!NoSession, PaidFor, Opening, Once, Decided, C!Completing
<1> QED BY <1>1, <1>4 DEF CheckoutInv

LEMMA CheckoutSettles == CheckoutInv => C!SettledOnce /\ C!CreditIsPaidFor
<1> SUFFICES ASSUME CheckoutInv, NEW s \in Sessions
             PROVE  /\ session[s].method = "wallet" => credits[s] <= debits[s]
                    /\ Len(escrow[s]) <= credits[s]
                    /\ session[s].status = "completed" =>
                         credits[s] > 0 /\ (physical => escrow[s] # << >>)
                    /\ s \notin repeated =>
                         /\ debits[s] <= 1 /\ credits[s] <= 1 /\ Len(escrow[s]) <= 1
                         /\ session[s].status = "expired" => debits[s] = 0 /\ credits[s] = 0
  BY DEF C!SettledOnce, C!CreditIsPaidFor
<1>1. /\ PaidFor(s) /\ credits[s] \in Nat /\ debits[s] \in Nat /\ Len(escrow[s]) \in Nat
      /\ Number(s, {"credit"}) \in Nat /\ Number(s, {"take", "hold"}) \in Nat
  BY Counted DEF CheckoutInv, CheckoutTyped, C!TypeOK
<1>2. /\ session[s].method = "wallet" => credits[s] <= debits[s]
      /\ Len(escrow[s]) <= credits[s]
  BY <1>1 DEF PaidFor
<1>3. s \notin repeated => Once(s)
  BY DEF CheckoutInv
<1> QED BY <1>1, <1>2, <1>3 DEF PaidFor, Once

(***************************************************************************)
(* What is left of the product, and what was sold (Checkout).              *)
(***************************************************************************)

(* A request that has read the stock and not written it; one that has.     *)
Loaded == {"debit", "credit", "take"}
Past == {"hold", "complete"}

(* Sessions whose unit is taken.                                           *)
Gone == {s \in Sessions : \/ session[s].status = "completed"
                          \/ \E w \in Requests : Does(w, s, Past)}

CreditsCover ==
  /\ credits \in [Sessions -> Nat] /\ left \in Int
  /\ FirstStock - left <= Total(credits, Sessions)
  /\ \A w \in Requests :
       /\ worker[w].step \in Loaded => worker[w].left \in Int
       /\ worker[w].step \in {"debit", "credit"} =>
            FirstStock - worker[w].left <= Total(credits, Sessions)
       /\ worker[w].step = "take" =>
            (FirstStock - worker[w].left) + 1 <= Total(credits, Sessions)

SalesCounted ==
  ~overlapped /\ repeated = {} =>
    /\ left = FirstStock - Cardinality(Gone)
    /\ \A w \in Requests : worker[w].step \in Loaded =>
         /\ worker[w].left = left
         /\ \A v \in Requests : worker[v].step \in Loaded => v = w

(* A session that is open or on its way.                                   *)
Live(s) == session[s].status = "pending" \/ \E w \in Requests : Does(w, s, {"open"})

OneSession ==
  ~crowded /\ repeated = {} =>
    /\ left >= 0
    /\ \A s, t \in Sessions : Live(s) /\ Live(t) => s = t
    /\ \A s \in Sessions : Live(s) =>
         left > 0 \/ \E w \in Requests : Does(w, s, Past)
    /\ \A w \in Requests : worker[w].step \in Loaded => worker[w].left = left

SalesInv == CreditsCover /\ SalesCounted /\ OneSession

LEMMA CreditsAreTotal ==
  ASSUME credits \in [Sessions -> Nat]
  PROVE  C!MapThenSumSet(LAMBDA s : credits[s], Sessions) = Total(credits, Sessions)
<1> DEFINE G(t) == [r \in SUBSET Sessions |->
                      IF r = {} THEN 0
                      ELSE LET x == CHOOSE x \in r : TRUE
                           IN  credits[x] + t[r \ {x}]]
<1>1. IsFiniteSet(Sessions) /\ \A s \in Sessions : credits[s] \in Nat
  BY IdsFinite
<1>2. C!MapThenSumSet(LAMBDA s : credits[s], Sessions) = (CHOOSE t : t = G(t))[Sessions]
  BY DEF C!MapThenSumSet, C!MapThenFoldSet
<1>3. ASSUME NEW t PROVE AddsUp(t, credits, Sessions) <=> t = G(t)
  <2>1. [r \in SUBSET Sessions |-> IF r = {} THEN 0 ELSE credits[First(r)] + t[r \ {First(r)}]] = G(t)
    BY DEF First
  <2> QED BY <2>1 DEF AddsUp
<1>4. \E t : t = G(t)
  <2>1. PICK t : AddsUp(t, credits, Sessions)
    BY <1>1, SumsExist
  <2> HIDE DEF G
  <2>2. t = G(t)
    BY <1>3, <2>1
  <2> QED BY <2>2
<1>5. PICK u : u = CHOOSE t : t = G(t)
  OBVIOUS
<1>6. u = G(u)
  BY <1>4, <1>5
<1>7. u[Sessions] = Total(credits, Sessions)
  BY <1>1, <1>3, <1>6, SumsAreTotals
<1> QED BY <1>2, <1>5, <1>7

LEMMA CreditsKept ==
  ASSUME CheckoutTyped, CreditsCover, NEW w \in Requests, NEW state, C!To(w, state),
         UNCHANGED <<left, credits>>,
         state.step \in Loaded =>
           /\ state.step # "take"
           /\ \/ state.left = left
              \/ worker[w].step \in {"debit", "credit"} /\ state.left = worker[w].left
  PROVE  CreditsCover'
<1>1. worker'[w] = state /\ \A v \in Requests \ {w} : worker'[v] = worker[v]
  BY WorkerMoves
<1>2. Total(credits, Sessions)' = Total(credits, Sessions)
  OBVIOUS
<1> QED BY <1>1, <1>2 DEF CreditsCover, Loaded

(* Steps that neither take a unit nor end a session.                       *)
LEMMA GoneStays ==
  ASSUME CheckoutTyped, NEW w \in Requests, NEW state, C!To(w, state),
         \A s \in Sessions : /\ session'[s].status = "completed" <=> session[s].status = "completed"
                             /\ Does(w, s, Past) <=> (state.step \in Past /\ state.session = s)
  PROVE  Gone' = Gone /\ \A s \in Sessions : \A v \in Requests : Does(v, s, Past)' <=> Does(v, s, Past)
<1>1. worker'[w] = state /\ \A v \in Requests \ {w} : worker'[v] = worker[v]
  BY WorkerMoves
<1>2. \A s \in Sessions : \A v \in Requests : Does(v, s, Past)' <=> Does(v, s, Past)
  BY <1>1 DEF Does
<1> QED BY <1>2 DEF Gone

LEMMA CountedKept ==
  ASSUME CheckoutTyped, SalesCounted, OneSession, NEW w \in Requests, NEW state, C!To(w, state),
         UNCHANGED left, overlapped => overlapped', crowded => crowded', repeated \subseteq repeated',
         \A s \in Sessions : /\ session'[s].status = "completed" <=> session[s].status = "completed"
                             /\ session'[s].status = "pending" => session[s].status = "pending"
                             /\ Does(w, s, Past) <=> (state.step \in Past /\ state.session = s),
         state.step # "open",
         state.step \in Loaded => worker[w].step \in Loaded /\ state.left = worker[w].left
  PROVE  SalesCounted' /\ OneSession'
<1>1. worker'[w] = state /\ \A v \in Requests \ {w} : worker'[v] = worker[v]
  BY WorkerMoves
<1>2. Gone' = Gone /\ \A s \in Sessions : \A v \in Requests : Does(v, s, Past)' <=> Does(v, s, Past)
  BY GoneStays
<1>3. repeated' = {} => repeated = {}
  OBVIOUS
<1>4. \A v \in Requests : worker'[v].step \in Loaded =>
        worker[v].step \in Loaded /\ worker'[v].left = worker[v].left
  BY <1>1
<1>5. SalesCounted'
  BY <1>2, <1>3, <1>4 DEF SalesCounted
<1>6. OneSession'
  <2>1. \A s \in Sessions : Live(s)' => Live(s)
    BY <1>1 DEF Live, Does
  <2> QED BY <1>2, <1>3, <1>4, <2>1 DEF OneSession
<1> QED BY <1>5, <1>6

(* A request on a session that is not repeated is alone with it.           *)
LEMMA AloneWithIt ==
  ASSUME CheckoutInv, repeated = {}, NEW w \in Requests, worker[w].step \in C!Completing
  PROVE  /\ worker[w].session \in Sessions /\ session[worker[w].session].status = "pending"
         /\ \A v \in Requests : Does(v, worker[w].session, C!Completing) => v = w
<1>1. worker[w].session \in Sessions
  BY WorkerIsOf DEF CheckoutInv, C!Completing
<1>2. Once(worker[w].session)
  BY <1>1 DEF CheckoutInv
<1>3. Does(w, worker[w].session, C!Completing)
  BY DEF Does
<1> QED BY <1>1, <1>2, <1>3 DEF Once

LEMMA CheckKeepsSales ==
  ASSUME CheckoutInv, SalesInv, NEW w \in Requests, NEW s \in Sessions, NEW method \in C!Methods,
         C!CreateCheckoutSession(w, s, method)
  PROVE  SalesInv'
<1> PICK state : state = [step |-> "open", session |-> s, method |-> method]
  OBVIOUS
<1>1. /\ CheckoutTyped /\ worker[w] = C!Idle /\ C!To(w, state) /\ left > 0
      /\ crowded' = (crowded \/ \E t \in Sessions : session[t].status = "pending"
                                                    \/ C!On(t, {"open"}))
      /\ UNCHANGED <<left, credits, session, repeated, overlapped>>
  BY DEF C!CreateCheckoutSession, CheckoutInv
<1>2. worker'[w] = state /\ \A v \in Requests \ {w} : worker'[v] = worker[v]
  BY <1>1, WorkerMoves
<1>3. state.step = "open" /\ state.session = s /\ state.step \notin Loaded
  BY DEF Loaded
<1>4. CreditsCover'
  BY <1>1, <1>3, CreditsKept DEF SalesInv
<1>5. Gone' = Gone
  <2>1. \A t \in Sessions : Does(w, t, Past) <=> (state.step \in Past /\ state.session = t)
    BY <1>1, <1>3 DEF Does, Past, C!Idle
  <2> QED BY <1>1, <2>1, GoneStays
<1>6. \A v \in Requests : worker'[v].step \in Loaded => worker'[v] = worker[v]
  BY <1>2, <1>3
<1>7. SalesCounted'
  BY <1>1, <1>5, <1>6 DEF SalesInv, SalesCounted
<1>8. OneSession'
  <2> SUFFICES ASSUME ~crowded', repeated' = {} PROVE OneSession'
    BY DEF OneSession
  <2>1. ~crowded /\ \A t \in Sessions : ~Live(t)
    BY <1>1 DEF Live, C!On, Does
  <2>2. left' > 0 /\ left' >= 0
    BY <1>1 DEF SalesInv, CreditsCover
  <2>3. \A t \in Sessions : Live(t)' => t = s
    BY <1>1, <1>2, <1>3, <2>1 DEF Live, Does
  <2>4. \A v \in Requests : worker'[v].step \in Loaded => worker'[v].left = left'
    BY <1>1, <1>6, <2>1 DEF SalesInv, OneSession
  <2> QED BY <2>2, <2>3, <2>4 DEF OneSession
<1> QED BY <1>4, <1>7, <1>8 DEF SalesInv

LEMMA OpenKeepsSales ==
  ASSUME CheckoutInv, SalesInv, NEW w \in Requests, C!OpenSession(w)
  PROVE  SalesInv'
<1> PICK s : s = worker[w].session
  OBVIOUS
<1>1. /\ CheckoutTyped /\ worker[w].step = "open" /\ C!To(w, C!Idle)
      /\ UNCHANGED <<left, credits, repeated, crowded, overlapped>>
  BY DEF C!OpenSession, C!At, C!history, CheckoutInv
<1>2. s \in Sessions
  BY <1>1, WorkerFields DEF Checking
<1>3. /\ session'[s].status = "pending"
      /\ \A t \in Sessions \ {s} : session'[t] = session[t]
  BY <1>1, <1>2 DEF C!OpenSession, CheckoutTyped, C!TypeOK
<1>4. session[s].status = "none"
  BY <1>1, <1>2 DEF CheckoutInv, Opening, Does
<1>5. worker'[w] = C!Idle /\ \A v \in Requests \ {w} : worker'[v] = worker[v]
  BY <1>1, WorkerMoves
<1>6. CreditsCover'
  BY <1>1, CreditsKept DEF C!Idle, Loaded, SalesInv
<1>7. Gone' = Gone /\ \A t \in Sessions : \A v \in Requests : Does(v, t, Past)' <=> Does(v, t, Past)
  <2>1. \A t \in Sessions : Does(w, t, Past) <=> (C!Idle.step \in Past /\ C!Idle.session = t)
    BY <1>1 DEF Does, Past, C!Idle
  <2>2. \A t \in Sessions : session'[t].status = "completed" <=> session[t].status = "completed"
    BY <1>3, <1>4
  <2> QED BY <1>1, <2>1, <2>2, GoneStays
<1>8. \A v \in Requests : worker'[v].step \in Loaded => worker'[v] = worker[v]
  BY <1>5 DEF C!Idle, Loaded
<1>9. SalesCounted'
  BY <1>1, <1>7, <1>8 DEF SalesInv, SalesCounted
<1>10. OneSession'
  <2>1. ASSUME NEW t \in Sessions, Live(t)' PROVE Live(t)
    <3>1. CASE t = s
      BY <1>1, <3>1 DEF Live, Does
    <3>2. CASE t # s
      BY <1>3, <1>5, <2>1, <3>2 DEF Live, Does, C!Idle
    <3> QED BY <3>1, <3>2
  <2> QED BY <1>1, <1>7, <1>8, <2>1 DEF SalesInv, OneSession
<1> QED BY <1>6, <1>9, <1>10 DEF SalesInv

LEMMA DueKeepsSales ==
  ASSUME CheckoutInv, SalesInv, NEW s \in Sessions, C!ComesDue(s)
  PROVE  SalesInv'
<1>1. /\ session' = [session EXCEPT ![s].due = TRUE]
      /\ UNCHANGED <<left, credits, worker, repeated, crowded, overlapped>>
  BY DEF C!ComesDue, C!history
<1>2. \A t \in Sessions : session'[t].status = session[t].status
  BY <1>1 DEF CheckoutInv, CheckoutTyped, C!TypeOK
<1>3. CreditsCover'
  BY <1>1 DEF SalesInv, CreditsCover
<1>4. Gone' = Gone /\ \A t \in Sessions, w \in Requests : Does(w, t, Past)' <=> Does(w, t, Past)
  BY <1>1, <1>2 DEF Gone, Does
<1>5. SalesCounted'
  BY <1>1, <1>4 DEF SalesInv, SalesCounted
<1>6. OneSession'
  <2>1. \A t \in Sessions : Live(t)' <=> Live(t)
    BY <1>1, <1>2 DEF Live, Does
  <2> QED BY <1>1, <1>4, <2>1 DEF SalesInv, OneSession
<1> QED BY <1>3, <1>5, <1>6 DEF SalesInv

LEMMA LoadKeepsSales ==
  ASSUME CheckoutInv, SalesInv, NEW w \in Requests, NEW s \in Sessions, C!LoadSession(w, s)
  PROVE  SalesInv'
<1> PICK state : state = IF session[s].due THEN [step |-> "expire", session |-> s]
             ELSE [step |-> IF session[s].method = "wallet" THEN "debit" ELSE "credit",
                   session |-> s, left |-> left]
  OBVIOUS
<1>1. /\ worker[w] = C!Idle /\ C!To(w, state) /\ UNCHANGED <<left, session, credits, crowded>>
      /\ repeated' = {} => repeated = {}
      /\ overlapped' = (overlapped \/ \E t \in Sessions : C!On(t, Loaded))
  BY DEF C!LoadSession, C!Begin, Loaded
<1>2. /\ state.step \in {"expire", "debit", "credit"}
      /\ state.step \in Loaded => state.left = left
  BY DEF Loaded
<1>3. CheckoutTyped
  BY DEF CheckoutInv
<1>4. CreditsCover'
  BY <1>1, <1>2, <1>3, CreditsKept DEF SalesInv
<1>5. \A t \in Sessions : Does(w, t, Past) <=> (state.step \in Past /\ state.session = t)
  BY <1>1, <1>2 DEF Does, C!Idle, Past
<1>6. Gone' = Gone /\ \A t \in Sessions : \A v \in Requests : Does(v, t, Past)' <=> Does(v, t, Past)
  BY <1>1, <1>3, <1>5, GoneStays
<1>7. worker'[w] = state /\ \A v \in Requests \ {w} : worker'[v] = worker[v]
  BY <1>1, <1>3, WorkerMoves
<1>8. SalesCounted'
  <2> SUFFICES ASSUME ~overlapped', repeated' = {} PROVE SalesCounted'
    BY DEF SalesCounted
  <2>1. ~overlapped /\ \A t \in Sessions : ~C!On(t, Loaded)
    BY <1>1
  <2>2. \A v \in Requests : worker[v].step \notin Loaded
    <3>1. ASSUME NEW v \in Requests, worker[v].step \in Loaded PROVE worker[v].session \in Sessions
      BY <1>3, <3>1, WorkerFields DEF Loaded, Paying
    <3> QED BY <2>1, <3>1 DEF C!On
  <2>3. left' = left /\ left = FirstStock - Cardinality(Gone)
    BY <1>1, <2>1 DEF SalesInv, SalesCounted
  <2> QED BY <1>2, <1>6, <1>7, <2>2, <2>3 DEF SalesCounted
<1>9. OneSession'
  <2>1. \A t \in Sessions : Live(t)' => Live(t)
    BY <1>1, <1>2, <1>7 DEF Live, Does
  <2> QED BY <1>1, <1>2, <1>6, <1>7, <2>1 DEF SalesInv, OneSession
<1> QED BY <1>4, <1>8, <1>9 DEF SalesInv

(* A request that moves on without a unit, without credit and without      *)
(* completing anything.                                                    *)
LEMMA PlainKeepsSales ==
  ASSUME CheckoutInv, SalesInv, NEW w \in Requests, NEW state, C!To(w, state),
         UNCHANGED <<left, credits>>,
         overlapped => overlapped', crowded => crowded', repeated \subseteq repeated',
         \A s \in Sessions : /\ session'[s].status = "completed" <=> session[s].status = "completed"
                             /\ session'[s].status = "pending" => session[s].status = "pending"
                             /\ Does(w, s, Past) <=> (state.step \in Past /\ state.session = s),
         state.step # "open",
         state.step \in Loaded =>
           /\ worker[w].step \in {"debit", "credit"} /\ state.step # "take"
           /\ state.left = worker[w].left
  PROVE  SalesInv'
<1>1. CheckoutTyped /\ CreditsCover /\ SalesCounted /\ OneSession
  BY DEF CheckoutInv, SalesInv
<1>2. CreditsCover'
  BY <1>1, CreditsKept
<1>3. state.step \in Loaded => worker[w].step \in Loaded /\ state.left = worker[w].left
  BY DEF Loaded
<1>4. SalesCounted' /\ OneSession'
  BY <1>1, <1>3, CountedKept
<1> QED BY <1>2, <1>4 DEF SalesInv

LEMMA ExpireKeepsSales ==
  ASSUME CheckoutInv, SalesInv, NEW w \in Requests, C!Expire(w)
  PROVE  SalesInv'
<1>1. CheckoutTyped /\ worker[w].step = "expire" /\ C!To(w, C!Idle)
      /\ session' = [session EXCEPT ![worker[w].session].status = "expired"]
      /\ UNCHANGED <<left, credits, repeated, crowded, overlapped>>
  BY DEF C!Expire, C!At, C!history, CheckoutInv
<1>2. CreditsCover'
  BY <1>1, CreditsKept DEF C!Idle, Loaded, SalesInv
<1>3. ASSUME repeated = {} PROVE SalesInv'
  <2>1. worker[w].session \in Sessions /\ session[worker[w].session].status = "pending"
    BY <1>1, <1>3, AloneWithIt DEF C!Completing
  <2>2. \A s \in Sessions : /\ session'[s].status = "completed" <=> session[s].status = "completed"
                            /\ session'[s].status = "pending" => session[s].status = "pending"
    BY <1>1, <2>1 DEF CheckoutTyped, C!TypeOK
  <2>3. \A s \in Sessions : Does(w, s, Past) <=> (C!Idle.step \in Past /\ C!Idle.session = s)
    BY <1>1 DEF Does, Past, C!Idle
  <2> QED BY <1>1, <2>2, <2>3, PlainKeepsSales DEF C!Idle, Loaded
<1>4. ASSUME repeated # {} PROVE SalesInv'
  BY <1>1, <1>2, <1>4 DEF SalesInv, SalesCounted, OneSession
<1> QED BY <1>3, <1>4

LEMMA CreditKeepsSales ==
  ASSUME CheckoutInv, SalesInv, NEW w \in Requests, C!Credit(w)
  PROVE  SalesInv'
<1> PICK state : state = [worker[w] EXCEPT !.step = "take"]
  OBVIOUS
<1> PICK s : s = worker[w].session
  OBVIOUS
<1>1. /\ CheckoutTyped /\ worker[w].step = "credit" /\ C!To(w, state)
      /\ credits' = [credits EXCEPT ![s] = credits[s] + 1]
      /\ UNCHANGED <<left, session, repeated, crowded, overlapped>>
  BY DEF C!Credit, C!At, C!history, CheckoutInv
<1>2. s \in Sessions /\ worker[w] \in Paying
  BY <1>1, WorkerFields DEF Paying
<1>3. state.step = "take" /\ state.left = worker[w].left /\ state.session = s /\ state.left \in Int
  BY <1>2 DEF Paying
<1>4. worker'[w] = state /\ \A v \in Requests \ {w} : worker'[v] = worker[v]
  BY <1>1, WorkerMoves
<1>5. credits \in [Sessions -> Nat] /\ credits' \in [Sessions -> Nat]
  BY <1>1, <1>2 DEF SalesInv, CreditsCover
<1>6. PICK f, g : f = credits /\ g = credits'
  OBVIOUS
<1>7. f \in [Sessions -> Nat] /\ g \in [Sessions -> Nat] /\ \A t \in Sessions \ {s} : g[t] = f[t]
  BY <1>1, <1>2, <1>5, <1>6
<1>8. /\ Total(f, Sessions) \in Nat /\ Total(g, Sessions) \in Nat
      /\ Total(g, Sessions) = (Total(f, Sessions) - f[s]) + g[s]
  BY <1>2, <1>7, IdsFinite, TotalChanges
<1>9. f[s] \in Nat /\ g[s] = f[s] + 1
  BY <1>1, <1>2, <1>5, <1>6
<1>10. /\ Total(credits, Sessions) \in Nat
       /\ Total(credits, Sessions)' = Total(credits, Sessions) + 1
  <2>1. Total(credits, Sessions) = Total(f, Sessions)
    BY <1>6
  <2>2. Total(credits, Sessions)' = Total(g, Sessions)
    BY <1>6
  <2> QED BY <1>8, <1>9, <2>1, <2>2
<1>11. CreditsCover'
  <2>1. FirstStock - left' <= Total(credits, Sessions)'
    BY <1>1, <1>10, StockAssumption DEF SalesInv, CreditsCover
  <2>2. ASSUME NEW v \in Requests
        PROVE  /\ worker'[v].step \in Loaded => worker'[v].left \in Int
               /\ worker'[v].step \in {"debit", "credit"} =>
                    FirstStock - worker'[v].left <= Total(credits, Sessions)'
               /\ worker'[v].step = "take" =>
                    (FirstStock - worker'[v].left) + 1 <= Total(credits, Sessions)'
    <3>1. CASE v = w
      <4>1. FirstStock - worker[w].left <= Total(credits, Sessions)
        BY <1>1 DEF SalesInv, CreditsCover
      <4>2. PICK n \in Int : n = worker[w].left
        BY <1>3
      <4>3. (FirstStock - n) + 1 <= Total(credits, Sessions)'
        BY <1>10, <4>1, <4>2, StockAssumption
      <4>4. worker'[v].step = "take" /\ worker'[v].left = n
        BY <1>3, <1>4, <3>1, <4>2
      <4> QED BY <4>3, <4>4
    <3>2. CASE v # w
      <4>1. worker'[v] = worker[v]
        BY <1>4, <3>2
      <4>2. /\ worker[v].step \in Loaded => worker[v].left \in Int
            /\ worker[v].step \in {"debit", "credit"} =>
                 FirstStock - worker[v].left <= Total(credits, Sessions)
            /\ worker[v].step = "take" =>
                 (FirstStock - worker[v].left) + 1 <= Total(credits, Sessions)
        BY DEF SalesInv, CreditsCover
      <4>3. worker[v].step \in {"debit", "credit", "take"} => worker[v].left \in Int
        BY <4>2 DEF Loaded
      <4> QED BY <1>10, <4>1, <4>2, <4>3, StockAssumption
    <3> QED BY <3>1, <3>2
  <2> QED BY <1>1, <1>5, <2>1, <2>2 DEF CreditsCover, SalesInv
<1>12. \A t \in Sessions : Does(w, t, Past) <=> (state.step \in Past /\ state.session = t)
  BY <1>1, <1>3 DEF Does, Past
<1>13. SalesCounted' /\ OneSession'
  BY <1>1, <1>3, <1>12, CountedKept DEF SalesInv, Loaded
<1> QED BY <1>11, <1>13 DEF SalesInv

LEMMA TakeKeepsSales ==
  ASSUME CheckoutInv, SalesInv, NEW w \in Requests, C!TakeUnit(w)
  PROVE  SalesInv'
<1> PICK state : state = [step |-> IF physical THEN "hold" ELSE "complete",
                          session |-> worker[w].session]
  OBVIOUS
<1> PICK s : s = worker[w].session
  OBVIOUS
<1>1. /\ CheckoutTyped /\ worker[w].step = "take" /\ C!To(w, state)
      /\ left' = worker[w].left - 1
      /\ UNCHANGED <<session, credits, repeated, crowded, overlapped>>
  BY DEF C!TakeUnit, C!At, C!history, CheckoutInv
<1>2. s \in Sessions /\ worker[w].left \in Int
  BY <1>1, WorkerFields DEF Paying
<1>3. state.step \in Past /\ state.session = s /\ state.step \notin Loaded
  BY DEF Past, Loaded
<1>4. worker'[w] = state /\ \A v \in Requests \ {w} : worker'[v] = worker[v]
  BY <1>1, WorkerMoves
<1>5. \A v \in Requests : worker'[v].step \in Loaded => v # w /\ worker'[v] = worker[v]
  BY <1>3, <1>4
<1>6. CreditsCover'
  <2>1. Total(credits, Sessions)' = Total(credits, Sessions)
    BY <1>1
  <2>2. (FirstStock - worker[w].left) + 1 <= Total(credits, Sessions)
    BY <1>1 DEF SalesInv, CreditsCover
  <2>3. Total(credits, Sessions) \in Nat
    BY IdsFinite, UnitsFinite DEF SalesInv, CreditsCover
  <2>4. left' \in Int /\ FirstStock - left' <= Total(credits, Sessions)
    BY <1>1, <1>2, <2>2, <2>3, StockAssumption
  <2>5. \A v \in Requests :
          /\ worker'[v].step \in Loaded => worker'[v].left \in Int
          /\ worker'[v].step \in {"debit", "credit"} =>
               FirstStock - worker'[v].left <= Total(credits, Sessions)
          /\ worker'[v].step = "take" =>
               (FirstStock - worker'[v].left) + 1 <= Total(credits, Sessions)
    BY <1>5 DEF SalesInv, CreditsCover, Loaded
  <2> QED BY <1>1, <2>1, <2>4, <2>5 DEF SalesInv, CreditsCover
<1>7. ASSUME repeated = {}
      PROVE  /\ session[s].status = "pending" /\ \A v \in Requests : ~Does(v, s, Past)
             /\ \A v \in Requests : worker'[v].step \in Loaded =>
                  /\ worker[v].session \in Sessions /\ worker[v].session # s
                  /\ session[worker[v].session].status = "pending"
  <2>1. session[s].status = "pending" /\ \A v \in Requests : Does(v, s, C!Completing) => v = w
    BY <1>1, <1>7, AloneWithIt DEF C!Completing
  <2>2. \A v \in Requests : ~Does(v, s, Past)
    BY <1>1, <2>1 DEF Does, Past, C!Completing
  <2>3. ASSUME NEW v \in Requests, worker'[v].step \in Loaded
        PROVE  /\ worker[v].session \in Sessions /\ worker[v].session # s
               /\ session[worker[v].session].status = "pending"
    <3>1. v # w /\ worker[v].step \in C!Completing
      BY <1>5, <2>3 DEF Loaded, C!Completing
    <3>2. worker[v].session \in Sessions /\ session[worker[v].session].status = "pending"
      BY <1>7, <3>1, AloneWithIt
    <3>3. worker[v].session # s
      BY <2>1, <3>1 DEF Does
    <3> QED BY <3>2, <3>3
  <2> QED BY <2>1, <2>2, <2>3
<1>8. SalesCounted'
  <2> SUFFICES ASSUME ~overlapped', repeated' = {} PROVE SalesCounted'
    BY DEF SalesCounted
  <2>1. ~overlapped /\ repeated = {}
    BY <1>1
  <2>2. /\ left = FirstStock - Cardinality(Gone) /\ worker[w].left = left
        /\ \A v \in Requests : worker[v].step \in Loaded => v = w
    BY <1>1, <2>1 DEF SalesInv, SalesCounted, Loaded
  <2>3. s \notin Gone
    BY <1>7, <2>1 DEF Gone
  <2>4. Gone' = Gone \cup {s}
    <3>1. \A t \in Sessions : t # s => (\A v \in Requests : Does(v, t, Past)' <=> Does(v, t, Past))
      BY <1>1, <1>3, <1>4 DEF Does, Past
    <3>2. Does(w, s, Past)'
      BY <1>3, <1>4 DEF Does
    <3> QED BY <1>1, <1>2, <3>1, <3>2 DEF Gone
  <2>5. IsFiniteSet(Gone)
    BY IdsFinite, FS_Subset DEF Gone
  <2>6. Cardinality(Gone)' = Cardinality(Gone) + 1 /\ Cardinality(Gone) \in Nat
    BY <2>3, <2>4, <2>5, FS_AddElement, FS_CardinalityType
  <2>7. left' = FirstStock - Cardinality(Gone)'
    BY <1>1, <1>2, <2>2, <2>6, StockAssumption
  <2>8. \A v \in Requests : worker'[v].step \notin Loaded
    BY <1>5, <2>2
  <2> QED BY <2>7, <2>8 DEF SalesCounted
<1>9. OneSession'
  <2> SUFFICES ASSUME ~crowded', repeated' = {} PROVE OneSession'
    BY DEF OneSession
  <2>1. ~crowded /\ repeated = {}
    BY <1>1
  <2>2. /\ \A r, t \in Sessions : Live(r) /\ Live(t) => r = t
        /\ Live(s) /\ \A v \in Requests : worker'[v].step \in Loaded => Live(worker[v].session)
        /\ left > 0 \/ \E v \in Requests : Does(v, s, Past)
        /\ worker[w].left = left
    BY <1>1, <1>2, <1>7, <2>1 DEF SalesInv, OneSession, Loaded, Live
  <2>3. left' >= 0
    BY <1>1, <1>2, <1>7, <2>1, <2>2
  <2>4. \A v \in Requests : worker'[v].step \notin Loaded
    BY <1>2, <1>7, <2>1, <2>2
  <2>5. \A t \in Sessions : Live(t)' => t = s
    <3>1. \A t \in Sessions : Live(t)' => Live(t)
      BY <1>1, <1>4 DEF Live, Does
    <3> QED BY <1>2, <2>2, <3>1
  <2>6. Does(w, s, Past)'
    BY <1>3, <1>4 DEF Does
  <2> QED BY <2>3, <2>4, <2>5, <2>6 DEF OneSession
<1> QED BY <1>6, <1>8, <1>9 DEF SalesInv

LEMMA CompleteKeepsSales ==
  ASSUME CheckoutInv, SalesInv, NEW w \in Requests, C!Complete(w)
  PROVE  SalesInv'
<1> PICK s : s = worker[w].session
  OBVIOUS
<1>1. /\ CheckoutTyped /\ worker[w].step = "complete" /\ C!To(w, C!Idle)
      /\ session' = [session EXCEPT ![s].status = "completed"]
      /\ UNCHANGED <<left, credits, repeated, crowded, overlapped>>
  BY DEF C!Complete, C!At, C!history, CheckoutInv
<1>2. s \in Sessions
  BY <1>1, WorkerFields DEF Ending
<1>3. /\ session'[s].status = "completed"
      /\ \A t \in Sessions \ {s} : session'[t] = session[t]
  BY <1>1, <1>2 DEF CheckoutTyped, C!TypeOK
<1>4. worker'[w] = C!Idle /\ \A v \in Requests \ {w} : worker'[v] = worker[v]
  BY <1>1, WorkerMoves
<1>5. CreditsCover'
  BY <1>1, CreditsKept DEF C!Idle, Loaded, SalesInv
<1>6. \A t \in Sessions \ {s} : \A v \in Requests : Does(v, t, Past)' <=> Does(v, t, Past)
  BY <1>1, <1>4 DEF Does, C!Idle, Past
<1>7. Gone' = Gone
  <2>1. s \in Gone /\ s \in Gone'
    BY <1>1, <1>2, <1>3 DEF Gone, Does, Past
  <2>2. \A t \in Sessions \ {s} : t \in Gone' <=> t \in Gone
    BY <1>3, <1>6 DEF Gone
  <2>3. Gone \subseteq Sessions /\ Gone' \subseteq Sessions
    BY DEF Gone
  <2> QED BY <2>1, <2>2, <2>3
<1>8. \A v \in Requests : worker'[v].step \in Loaded => worker'[v] = worker[v]
  BY <1>4 DEF C!Idle, Loaded
<1>9. SalesCounted'
  BY <1>1, <1>7, <1>8 DEF SalesInv, SalesCounted
<1>10. OneSession'
  <2>1. ASSUME NEW t \in Sessions, Live(t)' PROVE t # s /\ Live(t)
    <3>1. session[s].status # "none"
      BY <1>1, <1>2 DEF CheckoutInv, PaidFor, Does, C!Completing
    <3>2. \A v \in Requests : ~Does(v, s, {"open"})'
      BY <1>2, <1>4, <3>1 DEF CheckoutInv, Opening, Does, C!Idle
    <3>3. t # s
      BY <1>3, <2>1, <3>2 DEF Live
    <3> QED BY <1>3, <1>4, <2>1, <3>3 DEF Live, Does, C!Idle
  <2> QED BY <1>1, <1>6, <1>8, <2>1 DEF SalesInv, OneSession
<1> QED BY <1>5, <1>9, <1>10 DEF SalesInv

LEMMA SalesStep ==
  ASSUME CheckoutInv, SalesInv, C!Next
  PROVE  SalesInv'
<1>1. CheckoutTyped
  BY DEF CheckoutInv
<1>2. ASSUME NEW w \in Requests, C!Debit(w) PROVE SalesInv'
  <2>1. /\ worker[w].step = "debit"
        /\ UNCHANGED <<left, session, credits, repeated, crowded, overlapped>>
        /\ C!To(w, [worker[w] EXCEPT !.step = "credit"]) \/ C!To(w, C!Idle)
    BY <1>2 DEF C!Debit, C!At, C!history
  <2>2. worker[w] \in Paying
    BY <1>1, <2>1, WorkerFields
  <2>3. CASE C!To(w, [worker[w] EXCEPT !.step = "credit"])
    <3> PICK state : state = [worker[w] EXCEPT !.step = "credit"]
      OBVIOUS
    <3>1. state.step = "credit" /\ state.left = worker[w].left
      BY <2>2 DEF Paying
    <3>2. \A s \in Sessions : Does(w, s, Past) <=> (state.step \in Past /\ state.session = s)
      BY <2>1, <3>1 DEF Does, Past
    <3> QED BY <2>1, <2>3, <3>1, <3>2, PlainKeepsSales
  <2>4. CASE C!To(w, C!Idle)
    <3>1. \A s \in Sessions : Does(w, s, Past) <=> (C!Idle.step \in Past /\ C!Idle.session = s)
      BY <2>1 DEF Does, Past, C!Idle
    <3>2. C!Idle.step \notin Loaded /\ C!Idle.step # "open"
      BY DEF C!Idle, Loaded
    <3> QED BY <2>1, <2>4, <3>1, <3>2, PlainKeepsSales
  <2> QED BY <2>1, <2>3, <2>4
<1>3. ASSUME NEW w \in Requests, C!HoldEscrow(w) PROVE SalesInv'
  <2>1. /\ worker[w].step = "hold" /\ C!To(w, [worker[w] EXCEPT !.step = "complete"])
        /\ UNCHANGED <<left, session, credits, repeated, crowded, overlapped>>
    BY <1>3 DEF C!HoldEscrow, C!At, C!history
  <2>2. worker[w] \in Ending
    BY <1>1, <2>1, WorkerFields
  <2> PICK state : state = [worker[w] EXCEPT !.step = "complete"]
    OBVIOUS
  <2>3. state.step = "complete" /\ state.session = worker[w].session
    BY <2>2 DEF Ending
  <2>4. \A s \in Sessions : Does(w, s, Past) <=> (state.step \in Past /\ state.session = s)
    BY <2>1, <2>3 DEF Does, Past
  <2>5. state.step \notin Loaded /\ state.step # "open"
    BY <2>3 DEF Loaded
  <2> QED BY <2>1, <2>4, <2>5, PlainKeepsSales
<1>4. ASSUME NEW w \in Requests, NEW s \in Sessions, NEW n \in DOMAIN escrow[s],
             (\E status \in {"released", "disputed"} : C!Decide(w, s, n, status)) \/ C!ShipProduct(w, s, n)
      PROVE  SalesInv'
  <2>1. PICK row : C!Take(w, s, n, row)
    BY <1>4 DEF C!Decide, C!ShipProduct
  <2> PICK state : state = [step |-> "decide", session |-> s, n |-> n, row |-> row]
    OBVIOUS
  <2>2. /\ worker[w] = C!Idle /\ C!To(w, state)
        /\ UNCHANGED <<left, session, credits, repeated, crowded, overlapped>>
    BY <2>1 DEF C!Take
  <2>3. \A t \in Sessions : Does(w, t, Past) <=> (state.step \in Past /\ state.session = t)
    BY <2>2 DEF Does, Past, C!Idle
  <2>4. state.step \notin Loaded /\ state.step # "open"
    BY DEF Loaded
  <2> QED BY <2>2, <2>3, <2>4, PlainKeepsSales
<1>5. ASSUME NEW w \in Requests, C!DecisionSave(w) PROVE SalesInv'
  <2>1. /\ worker[w].step = "decide" /\ C!To(w, C!Idle)
        /\ UNCHANGED <<left, session, credits, repeated, crowded, overlapped>>
    BY <1>5 DEF C!DecisionSave, C!At, C!history
  <2>2. \A s \in Sessions : Does(w, s, Past) <=> (C!Idle.step \in Past /\ C!Idle.session = s)
    BY <2>1 DEF Does, Past, C!Idle
  <2>3. C!Idle.step \notin Loaded /\ C!Idle.step # "open"
    BY DEF C!Idle, Loaded
  <2> QED BY <2>1, <2>2, <2>3, PlainKeepsSales
<1>6. ASSUME NEW w \in Requests, C!RequestStops(w) PROVE SalesInv'
  <2>1. /\ C!To(w, C!Idle) /\ UNCHANGED <<left, session, credits, crowded, overlapped>>
        /\ repeated' = IF worker[w].step \in C!Completing THEN repeated \cup {worker[w].session}
                       ELSE repeated
    BY <1>6 DEF C!RequestStops
  <2>2. C!Idle.step \notin Loaded /\ C!Idle.step # "open"
    BY DEF C!Idle, Loaded
  <2>3. CASE worker[w].step \in C!Completing
    <3>1. CreditsCover'
      BY <1>1, <2>1, <2>2, CreditsKept DEF SalesInv
    <3>2. repeated' # {}
      BY <2>1, <2>3
    <3> QED BY <3>1, <3>2 DEF SalesInv, SalesCounted, OneSession
  <2>4. CASE worker[w].step \notin C!Completing
    <3>1. \A s \in Sessions : Does(w, s, Past) <=> (C!Idle.step \in Past /\ C!Idle.session = s)
      BY <2>4 DEF Does, Past, C!Idle, C!Completing
    <3> QED BY <2>1, <2>2, <2>4, <3>1, PlainKeepsSales
  <2> QED BY <2>3, <2>4
<1> QED BY <1>2, <1>3, <1>4, <1>5, <1>6, CheckKeepsSales, OpenKeepsSales, DueKeepsSales,
           LoadKeepsSales,
           ExpireKeepsSales, CreditKeepsSales, TakeKeepsSales, CompleteKeepsSales DEF C!Next

LEMMA SalesBegin == C!Init => SalesInv
<1> SUFFICES ASSUME C!Init PROVE SalesInv
  OBVIOUS
<1>1. credits = [s \in Sessions |-> 0] /\ left = FirstStock /\ \A w \in Requests : worker[w].step = "idle"
  BY DEF C!Init, C!Idle
<1>2. Total(credits, Sessions) = 0
  BY <1>1, TotalOfZeros
<1>3. \A s \in Sessions : session[s].status = "none"
  BY DEF C!Init, C!NoSession
<1>4. Gone = {}
  BY <1>1, <1>3 DEF Gone, Does, Past
<1>5. CreditsCover
  BY <1>1, <1>2, StockAssumption DEF CreditsCover, Loaded
<1>6. SalesCounted
  <2>1. Cardinality(Gone) = 0
    BY <1>4, FS_EmptySet
  <2> QED BY <1>1, <2>1, StockAssumption DEF SalesCounted, Loaded
<1>7. OneSession
  BY <1>1, <1>3, StockAssumption DEF OneSession, Loaded, Live, Does
<1> QED BY <1>5, <1>6, <1>7 DEF SalesInv

LEMMA QuietSales ==
  ASSUME SalesInv, UNCHANGED paid
  PROVE  SalesInv'
<1>1. UNCHANGED <<left, session, credits, worker, repeated, crowded, overlapped>>
  BY DEF paid
<1>2. Total(credits, Sessions)' = Total(credits, Sessions)
  BY <1>1
<1>3. Gone' = Gone /\ \A s \in Sessions, w \in Requests : Does(w, s, Past)' <=> Does(w, s, Past)
  BY <1>1 DEF Gone, Does
<1>4. CreditsCover'
  BY <1>1, <1>2 DEF SalesInv, CreditsCover
<1>5. SalesCounted'
  BY <1>1, <1>3 DEF SalesInv, SalesCounted
<1>6. OneSession'
  <2>1. \A s \in Sessions : Live(s)' <=> Live(s)
    BY <1>1 DEF Live, Does
  <2> QED BY <1>1, <1>3, <2>1 DEF SalesInv, OneSession
<1> QED BY <1>4, <1>5, <1>6 DEF SalesInv

LEMMA SalesHold == SalesInv => C!StockCountsSales
<1> SUFFICES ASSUME SalesInv PROVE C!StockCountsSales
  OBVIOUS
<1>1. repeated = {} /\ ~overlapped /\ (\A s \in Sessions : ~C!On(s, C!Completing))
        => left = FirstStock - Cardinality({s \in Sessions : session[s].status = "completed"})
  <2> SUFFICES ASSUME repeated = {}, ~overlapped, \A s \in Sessions : ~C!On(s, C!Completing)
               PROVE  left = FirstStock - Cardinality({s \in Sessions : session[s].status = "completed"})
    OBVIOUS
  <2>1. Gone = {s \in Sessions : session[s].status = "completed"}
    BY DEF Gone, Does, Past, C!On, C!Completing
  <2> QED BY <2>1 DEF SalesInv, SalesCounted
<1>2. repeated = {} /\ ~crowded => left >= 0
  BY DEF SalesInv, OneSession
<1>3. C!MapThenSumSet(LAMBDA s : credits[s], Sessions) = Total(credits, Sessions)
  BY CreditsAreTotal DEF SalesInv, CreditsCover
<1>4. FirstStock - left <= Total(credits, Sessions)
  BY DEF SalesInv, CreditsCover
<1> PICK sold : sold = {s \in Sessions : session[s].status = "completed"}
  OBVIOUS
<1>5. C!Cardinality(sold) = Cardinality(sold)
  BY SameCount
<1> QED BY <1>1, <1>2, <1>3, <1>4, <1>5 DEF C!StockCountsSales

(***************************************************************************)
(* Returns.                                                                *)
(***************************************************************************)

Updates(w, n) == asker[w].step = "update" /\ asker[w].n = n

ReturnsTyped ==
  /\ R!TypeOK
  /\ \A w \in Requests : asker[w].step = "update" =>
       asker[w].n \in DOMAIN return /\ asker[w].status # "requested"

(* A row that one update at a time has in hand.                            *)
Unswayed(n) ==
  /\ \A v, w \in Requests : Updates(v, n) /\ Updates(w, n) => v = w
  /\ \A w \in Requests : Updates(w, n) => asker[w].status \in R!Transitions[return[n]]

(* The order, when one request for its return at a time is under way.      *)
Undoubled ==
  /\ \A v, w \in Requests : asker[v].step = "create" /\ asker[w].step = "create" => v = w
  /\ \A w \in Requests : asker[w].step = "create" => R!Open = {}
  /\ \A m, n \in R!Open : m = n

ReturnsInv ==
  /\ ReturnsTyped
  /\ ~doubled => Undoubled
  /\ \A n \in DOMAIN return \ swayed : Unswayed(n)

LEMMA AskerFields ==
  ASSUME ReturnsTyped, NEW w \in Requests
  PROVE  /\ asker[w].step \in {"idle", "create", "update"}
         /\ asker[w].step = "update" =>
              /\ asker[w] \in [step : {"update"}, n : 1..MaxReturns, status : R!Statuses]
              /\ asker[w].n \in DOMAIN return /\ asker[w].status # "requested"
BY DEF ReturnsTyped, R!TypeOK, R!Idle

LEMMA AskerMoves ==
  ASSUME ReturnsTyped, NEW w \in Requests, NEW state, R!To(w, state)
  PROVE  asker'[w] = state /\ \A v \in Requests \ {w} : asker'[v] = asker[v]
BY DEF ReturnsTyped, R!TypeOK, R!To

LEMMA AskersTyped ==
  ASSUME ReturnsTyped, NEW w \in Requests, NEW state, R!To(w, state),
         \/ state = R!Idle \/ state = [step |-> "create"]
         \/ /\ state \in [step : {"update"}, n : 1..MaxReturns, status : R!Statuses]
            /\ state.n \in DOMAIN return' /\ state.status # "requested",
         DOMAIN return \subseteq DOMAIN return'
  PROVE  /\ asker' \in [Requests -> {R!Idle, [step |-> "create"]}
                     \cup [step : {"update"}, n : 1..MaxReturns, status : R!Statuses]]
         /\ \A v \in Requests : asker'[v].step = "update" =>
              asker'[v].n \in DOMAIN return' /\ asker'[v].status # "requested"
<1>1. asker' \in [Requests -> {R!Idle, [step |-> "create"]}
                     \cup [step : {"update"}, n : 1..MaxReturns, status : R!Statuses]]
  BY DEF ReturnsTyped, R!TypeOK, R!To
<1>2. ASSUME NEW v \in Requests, asker'[v].step = "update"
      PROVE  asker'[v].n \in DOMAIN return' /\ asker'[v].status # "requested"
  <2>1. CASE v = w
    BY <1>2, <2>1, AskerMoves DEF R!Idle
  <2>2. CASE v # w
    BY <1>2, <2>2, AskerMoves, AskerFields
  <2> QED BY <2>1, <2>2
<1> QED BY <1>1, <1>2

LEMMA CreateFindStep ==
  ASSUME ReturnsInv, NEW w \in Requests, R!CreateFind(w)
  PROVE  ReturnsInv' /\ R!ReturnStep
<1> PICK state : state = [step |-> "create"]
  OBVIOUS
<1>1. /\ R!To(w, state) /\ R!Open = {} /\ UNCHANGED <<return, swayed>> /\ ReturnsTyped
      /\ doubled' = (doubled \/ \E v \in Requests : asker[v].step = "create")
      /\ state.step = "create"
  BY DEF R!CreateFind, ReturnsInv
<1>2. asker'[w] = state /\ \A v \in Requests \ {w} : asker'[v] = asker[v]
  BY <1>1, AskerMoves
<1>3. ReturnsTyped'
  <2>1. /\ asker' \in [Requests -> {R!Idle, [step |-> "create"]}
                     \cup [step : {"update"}, n : 1..MaxReturns, status : R!Statuses]]
        /\ \A v \in Requests : asker'[v].step = "update" =>
             asker'[v].n \in DOMAIN return' /\ asker'[v].status # "requested"
    BY <1>1, AskersTyped
  <2>2. doubled' \in BOOLEAN
    BY <1>1 DEF ReturnsTyped, R!TypeOK
  <2> QED BY <1>1, <2>1, <2>2 DEF ReturnsTyped, R!TypeOK
<1>4. ASSUME ~doubled' PROVE Undoubled'
  <2>1. R!Open' = R!Open
    BY <1>1 DEF R!Open
  <2>2. \A v \in Requests : asker'[v].step = "create" => v = w
    BY <1>1, <1>2, <1>4
  <2> QED BY <1>1, <2>1, <2>2 DEF Undoubled
<1>5. ASSUME NEW n \in DOMAIN return \ swayed PROVE Unswayed(n)'
  BY <1>1, <1>2 DEF ReturnsInv, Unswayed, Updates
<1> QED BY <1>1, <1>3, <1>4, <1>5 DEF ReturnsInv, R!ReturnStep

LEMMA CreateSaveStep ==
  ASSUME ReturnsInv, NEW w \in Requests, R!CreateSave(w)
  PROVE  ReturnsInv' /\ R!ReturnStep
<1>1. /\ R!To(w, R!Idle) /\ return' = Append(return, "requested") /\ asker[w].step = "create"
      /\ UNCHANGED <<doubled, swayed>> /\ ReturnsTyped /\ return \in Seq(R!Statuses)
      /\ Len(return) < MaxReturns
  BY DEF R!CreateSave, ReturnsInv, ReturnsTyped, R!TypeOK
<1>2. asker'[w] = R!Idle /\ \A v \in Requests \ {w} : asker'[v] = asker[v]
  BY <1>1, AskerMoves
<1>3. "requested" \in R!Statuses
  BY DEF R!Statuses, R!Transitions
<1>4. /\ return' \in Seq(R!Statuses) /\ Len(return') = Len(return) + 1
      /\ DOMAIN return' = 1..(Len(return) + 1) /\ DOMAIN return = 1..Len(return)
      /\ Len(return) \in Nat
  BY <1>1, <1>3
<1>5. \A n \in DOMAIN return : return'[n] = return[n]
  BY <1>1, <1>4
<1>6. ReturnsTyped'
  <2>1. /\ asker' \in [Requests -> {R!Idle, [step |-> "create"]}
                     \cup [step : {"update"}, n : 1..MaxReturns, status : R!Statuses]]
        /\ \A v \in Requests : asker'[v].step = "update" =>
             asker'[v].n \in DOMAIN return' /\ asker'[v].status # "requested"
    <3>1. DOMAIN return \subseteq DOMAIN return'
      BY <1>4
    <3> QED BY <1>1, <3>1, AskersTyped
  <2>2. Len(return') <= MaxReturns
    BY <1>1, <1>4, BoundsAssumption
  <2> QED BY <1>1, <1>4, <2>1, <2>2 DEF ReturnsTyped, R!TypeOK
<1>7. ASSUME ~doubled' PROVE Undoubled'
  <2>1. R!Open = {} /\ \A v \in Requests : asker[v].step = "create" => v = w
    BY <1>1, <1>7 DEF ReturnsInv, Undoubled
  <2>2. \A v \in Requests : asker'[v].step # "create"
    BY <1>2, <2>1 DEF R!Idle
  <2>3. R!Open' \subseteq {Len(return) + 1}
    BY <1>4, <1>5, <2>1 DEF R!Open
  <2> QED BY <2>2, <2>3 DEF Undoubled
<1>8. ASSUME NEW n \in DOMAIN return' \ swayed' PROVE Unswayed(n)'
  <2>1. \A v \in Requests : Updates(v, n)' =>
          v # w /\ asker'[v] = asker[v] /\ Updates(v, n) /\ n \in DOMAIN return
    BY <1>2, AskerFields, <1>1 DEF Updates, R!Idle
  <2>2. n \in DOMAIN return => Unswayed(n) /\ return'[n] = return[n]
    BY <1>1, <1>5, <1>8 DEF ReturnsInv
  <2> QED BY <2>1, <2>2 DEF Unswayed
<1> QED BY <1>5, <1>6, <1>7, <1>8 DEF ReturnsInv, R!ReturnStep

LEMMA UpdateLoadStep ==
  ASSUME ReturnsInv, NEW w \in Requests, NEW m \in DOMAIN return, NEW status \in R!Statuses,
         R!UpdateLoad(w, m, status)
  PROVE  ReturnsInv' /\ R!ReturnStep
<1> PICK state : state = [step |-> "update", n |-> m, status |-> status]
  OBVIOUS
<1>1. /\ R!To(w, state) /\ status \in R!Transitions[return[m]] /\ asker[w] = R!Idle
      /\ UNCHANGED <<return, doubled>> /\ ReturnsTyped
      /\ swayed' = IF R!Updating(m) # {} THEN swayed \cup {m} ELSE swayed
      /\ state.step = "update" /\ state.n = m /\ state.status = status
  BY DEF R!UpdateLoad, ReturnsInv
<1>2. asker'[w] = state /\ \A v \in Requests \ {w} : asker'[v] = asker[v]
  BY <1>1, AskerMoves
<1>3. return \in Seq(R!Statuses) /\ m \in 1..MaxReturns
  BY <1>1, BoundsAssumption DEF ReturnsTyped, R!TypeOK
<1>4. status # "requested"
  BY <1>1, <1>3 DEF R!Transitions, R!Statuses
<1>5. ReturnsTyped'
  <2>1. /\ asker' \in [Requests -> {R!Idle, [step |-> "create"]}
                     \cup [step : {"update"}, n : 1..MaxReturns, status : R!Statuses]]
        /\ \A v \in Requests : asker'[v].step = "update" =>
             asker'[v].n \in DOMAIN return' /\ asker'[v].status # "requested"
    BY <1>1, <1>3, <1>4, AskersTyped
  <2>2. swayed' \subseteq 1..MaxReturns
    BY <1>1, <1>3 DEF ReturnsTyped, R!TypeOK
  <2> QED BY <1>1, <2>1, <2>2 DEF ReturnsTyped, R!TypeOK
<1>6. ASSUME ~doubled' PROVE Undoubled'
  <2>1. R!Open' = R!Open /\ Undoubled
    BY <1>1, <1>6 DEF R!Open, ReturnsInv
  <2>2. \A v \in Requests : asker'[v].step = "create" => asker[v].step = "create"
    BY <1>1, <1>2
  <2> QED BY <2>1, <2>2 DEF Undoubled
<1>7. ASSUME NEW n \in DOMAIN return' \ swayed' PROVE Unswayed(n)'
  <2>1. n \in DOMAIN return \ swayed /\ Unswayed(n)
    BY <1>1, <1>7 DEF ReturnsInv
  <2>2. CASE n # m
    BY <1>1, <1>2, <2>1, <2>2 DEF Unswayed, Updates, R!Idle
  <2>3. CASE n = m
    <3>1. \A v \in Requests : ~Updates(v, m)
      BY <1>1, <1>7, <2>3 DEF R!Updating, Updates
    <3>2. \A v \in Requests : Updates(v, m)' => v = w
      BY <1>2, <3>1 DEF Updates
    <3> QED BY <1>1, <1>2, <2>3, <3>2 DEF Unswayed
  <2> QED BY <2>2, <2>3
<1> QED BY <1>1, <1>5, <1>6, <1>7 DEF ReturnsInv, R!ReturnStep

LEMMA UpdateSaveStep ==
  ASSUME ReturnsInv, NEW w \in Requests, R!UpdateSave(w)
  PROVE  ReturnsInv' /\ R!ReturnStep
<1> PICK m, status : m = asker[w].n /\ status = asker[w].status
  OBVIOUS
<1>1. /\ R!To(w, R!Idle) /\ return' = [return EXCEPT ![m] = status]
      /\ UNCHANGED <<doubled, swayed>> /\ ReturnsTyped /\ asker[w].step = "update"
      /\ m \in DOMAIN return /\ status \in R!Statuses /\ status # "requested"
      /\ return \in Seq(R!Statuses)
  BY AskerFields DEF R!UpdateSave, ReturnsInv, ReturnsTyped, R!TypeOK
<1>2. asker'[w] = R!Idle /\ \A v \in Requests \ {w} : asker'[v] = asker[v]
  BY <1>1, AskerMoves
<1>3. /\ return' \in Seq(R!Statuses) /\ Len(return') = Len(return)
      /\ DOMAIN return' = DOMAIN return
      /\ \A n \in DOMAIN return : return'[n] = IF n = m THEN status ELSE return[n]
  BY <1>1
<1>4. ReturnsTyped'
  <2>1. /\ asker' \in [Requests -> {R!Idle, [step |-> "create"]}
                     \cup [step : {"update"}, n : 1..MaxReturns, status : R!Statuses]]
        /\ \A v \in Requests : asker'[v].step = "update" =>
             asker'[v].n \in DOMAIN return' /\ asker'[v].status # "requested"
    BY <1>1, <1>3, AskersTyped
  <2> QED BY <1>1, <1>3, <2>1 DEF ReturnsTyped, R!TypeOK
<1>5. ASSUME ~doubled' PROVE Undoubled'
  <2>1. R!Open' \subseteq R!Open /\ Undoubled
    BY <1>1, <1>3, <1>5 DEF R!Open, ReturnsInv
  <2>2. \A v \in Requests : asker'[v].step = "create" => asker[v].step = "create"
    BY <1>2 DEF R!Idle
  <2> QED BY <2>1, <2>2 DEF Undoubled
<1>6. ASSUME NEW n \in DOMAIN return' \ swayed' PROVE Unswayed(n)'
  <2>1. n \in DOMAIN return \ swayed /\ Unswayed(n)
    BY <1>1, <1>3, <1>6 DEF ReturnsInv
  <2>2. \A v \in Requests : Updates(v, n)' => v # w /\ Updates(v, n) /\ asker'[v] = asker[v]
    BY <1>2 DEF Updates, R!Idle
  <2>3. n = m => \A v \in Requests : ~Updates(v, n)'
    BY <1>1, <2>1, <2>2 DEF Unswayed, Updates
  <2> QED BY <1>3, <2>1, <2>2, <2>3 DEF Unswayed
<1>7. ASSUME NEW n \in DOMAIN return, n \notin swayed', n = m
      PROVE  status \in R!Transitions[return[n]]
  BY <1>1, <1>7 DEF ReturnsInv, Unswayed, Updates
<1> QED BY <1>3, <1>4, <1>5, <1>6, <1>7 DEF ReturnsInv, R!ReturnStep

LEMMA ReturnStops ==
  ASSUME ReturnsInv, NEW w \in Requests, R!Stops(w)
  PROVE  ReturnsInv' /\ R!ReturnStep
<1>1. R!To(w, R!Idle) /\ UNCHANGED <<return, doubled, swayed>> /\ ReturnsTyped
  BY DEF R!Stops, ReturnsInv
<1>2. asker'[w] = R!Idle /\ \A v \in Requests \ {w} : asker'[v] = asker[v]
  BY <1>1, AskerMoves
<1>3. ReturnsTyped'
  <2>1. /\ asker' \in [Requests -> {R!Idle, [step |-> "create"]}
                     \cup [step : {"update"}, n : 1..MaxReturns, status : R!Statuses]]
        /\ \A v \in Requests : asker'[v].step = "update" =>
             asker'[v].n \in DOMAIN return' /\ asker'[v].status # "requested"
    BY <1>1, AskersTyped
  <2> QED BY <1>1, <2>1 DEF ReturnsTyped, R!TypeOK
<1>4. ASSUME ~doubled' PROVE Undoubled'
  <2>1. R!Open' = R!Open /\ Undoubled
    BY <1>1, <1>4 DEF R!Open, ReturnsInv
  <2>2. \A v \in Requests : asker'[v].step = "create" => asker[v].step = "create"
    BY <1>2 DEF R!Idle
  <2> QED BY <2>1, <2>2 DEF Undoubled
<1>5. ASSUME NEW n \in DOMAIN return \ swayed PROVE Unswayed(n)'
  <2>1. \A v \in Requests : Updates(v, n)' => v # w /\ Updates(v, n) /\ asker'[v] = asker[v]
    BY <1>2 DEF Updates, R!Idle
  <2> QED BY <1>1, <2>1 DEF ReturnsInv, Unswayed
<1> QED BY <1>1, <1>3, <1>4, <1>5 DEF ReturnsInv, R!ReturnStep

LEMMA ReturnsStep ==
  ASSUME ReturnsInv, R!Next
  PROVE  ReturnsInv' /\ R!ReturnStep
BY CreateFindStep, CreateSaveStep, UpdateLoadStep, UpdateSaveStep, ReturnStops DEF R!Next

LEMMA ReturnsBegin == R!Init => ReturnsInv
<1> SUFFICES ASSUME R!Init PROVE ReturnsInv
  OBVIOUS
<1>1. \A w \in Requests : asker[w].step = "idle"
  BY DEF R!Init, R!Idle
<1>2. R!TypeOK
  <2>1. return \in Seq(R!Statuses) /\ Len(return) = 0
    BY DEF R!Init
  <2>2. Len(return) <= MaxReturns
    BY <2>1, BoundsAssumption
  <2> QED BY <2>1, <2>2 DEF R!Init, R!TypeOK
<1> QED BY <1>1, <1>2 DEF R!Init, R!Open, ReturnsInv, ReturnsTyped, Undoubled

LEMMA OneOpen == ReturnsInv => R!OneOpenRequest
BY DEF ReturnsInv, Undoubled, R!OneOpenRequest

(***************************************************************************)
(* Purchases.                                                              *)
(***************************************************************************)

(* What a deal holds at each of its steps, once its debit is made.         *)
Holds(d) ==
  IF deal[d].step = "credit" /\ deal[d].kind = "tip" THEN P!Price
  ELSE IF deal[d].step = "fee" /\ deal[d].kind = "tip" THEN P!Price - P!Share
  ELSE IF deal[d].step \in {"transfer", "refund"} /\ deal[d].kind = "payout" THEN P!Share
  ELSE 0

Passes(d) ==
  d \notin timedOut =>
    IF d \in stopped THEN deal[d].step = "done" /\ held[d] >= 0 ELSE held[d] = Holds(d)

PurchasesInv == P!TypeOK /\ \A d \in Deals : Passes(d)

DealRow == [kind : P!Kinds, step : P!Steps, seen : Nat, list : SUBSET Deals]

LEMMA GoTypes ==
  ASSUME P!TypeOK, NEW d \in Deals, NEW step \in P!Steps, P!Go(d, step)
  PROVE  /\ deal' \in [Deals -> DealRow]
         /\ deal'[d].step = step /\ deal'[d].kind = deal[d].kind
         /\ \A e \in Deals \ {d} : deal'[e] = deal[e]
<1>1. deal \in [Deals -> DealRow]
  BY DEF P!TypeOK, DealRow
<1> PICK row : row = [deal[d] EXCEPT !.step = step]
  OBVIOUS
<1>2. row \in DealRow /\ row.step = step /\ row.kind = deal[d].kind
  BY <1>1 DEF DealRow
<1>3. deal' = [deal EXCEPT ![d] = row]
  BY <1>1 DEF P!Go
<1> QED BY <1>1, <1>2, <1>3

(* A deal that a step of another leaves as it is.                          *)
LEMMA OtherDeals ==
  ASSUME PurchasesInv, NEW d \in Deals,
         \A e \in Deals \ {d} : deal'[e] = deal[e] /\ held'[e] = held[e],
         \A e \in Deals \ {d} : (e \in stopped' <=> e \in stopped) /\ (e \in timedOut' <=> e \in timedOut),
         Passes(d)'
  PROVE  \A e \in Deals : Passes(e)'
<1>1. ASSUME NEW e \in Deals, e # d PROVE Passes(e)'
  BY <1>1 DEF PurchasesInv, Passes, Holds
<1> QED BY <1>1

LEMMA TakeFrom ==
  ASSUME PurchasesInv, NEW d \in Deals, NEW p \in {"fan", "creator", "platform"},
         NEW amount \in Nat, NEW next \in P!Steps, P!Take(d, p, amount, next),
         deal[d].step = "debit",
         \/ deal[d].kind = "tip" /\ next = "credit" /\ amount = P!Price
         \/ deal[d].kind = "payout" /\ next = "transfer" /\ amount = P!Share
  PROVE  PurchasesInv'
<1>1. P!TypeOK /\ Passes(d) /\ held[d] \in Int /\ wallet[p] \in Nat
  BY DEF PurchasesInv, P!TypeOK
<1>2. d \notin timedOut => d \notin stopped /\ held[d] = 0
  BY <1>1 DEF Passes, Holds
<1>3. UNCHANGED <<P!counted, rare, stopped, timedOut, jammed>>
  BY DEF P!Take
<1>4. CASE wallet[p] >= amount
  <2>1. /\ wallet' = [wallet EXCEPT ![p] = @ - amount]
        /\ held' = [held EXCEPT ![d] = @ + amount]
        /\ P!Go(d, next)
    BY <1>4 DEF P!Take
  <2>2. wallet[p] - amount \in Nat /\ held[d] + amount \in Int
    BY <1>1, <1>4
  <2>3. wallet' \in [{"fan", "creator", "platform"} -> Nat] /\ held' \in [Deals -> Int]
    BY <1>1, <2>1, <2>2 DEF P!TypeOK
  <2>4. /\ held'[d] = held[d] + amount
        /\ \A e \in Deals \ {d} : held'[e] = held[e]
    BY <1>1, <2>1 DEF P!TypeOK
  <2>5. Passes(d)'
    BY <1>1, <1>2, <1>3, <2>1, <2>4, GoTypes DEF Passes, Holds, P!Price, P!Share
  <2>6. \A e \in Deals : Passes(e)'
    BY <1>1, <1>3, <2>1, <2>4, <2>5, GoTypes, OtherDeals
  <2> QED BY <1>1, <1>3, <2>1, <2>3, <2>6, GoTypes DEF PurchasesInv, P!TypeOK, P!counted, DealRow
<1>5. CASE ~(wallet[p] >= amount)
  <2>1. P!Go(d, "done") /\ UNCHANGED <<wallet, held>>
    BY <1>5 DEF P!Take
  <2>2. "done" \in P!Steps
    BY DEF P!Steps
  <2>3. Passes(d)'
    BY <1>1, <1>2, <1>3, <2>1, <2>2, GoTypes DEF Passes, Holds
  <2>4. \A e \in Deals : Passes(e)'
    BY <1>1, <1>3, <2>1, <2>2, <2>3, GoTypes, OtherDeals
  <2> QED BY <1>1, <1>3, <2>1, <2>2, <2>4, GoTypes DEF PurchasesInv, P!TypeOK, P!counted, DealRow
<1> QED BY <1>4, <1>5

LEMMA GiveTo ==
  ASSUME PurchasesInv, NEW d \in Deals, NEW p \in {"fan", "creator", "platform"},
         NEW amount \in Nat, NEW next \in P!Steps, P!Give(d, p, amount, next),
         \/ P!At(d, "tip", "credit") /\ next = "fee" /\ amount = P!Share
         \/ P!At(d, "tip", "fee") /\ next = "done" /\ amount = P!Price - P!Share
         \/ P!At(d, "payout", "refund") /\ next = "done" /\ amount = P!Share
  PROVE  PurchasesInv'
<1>1. P!TypeOK /\ Passes(d) /\ held[d] \in Int /\ wallet[p] \in Nat
  BY DEF PurchasesInv, P!TypeOK
<1>2. d \notin timedOut => d \notin stopped /\ held[d] = Holds(d)
  BY <1>1 DEF Passes, P!At
<1>3. /\ wallet' = [wallet EXCEPT ![p] = @ + amount]
      /\ held' = [held EXCEPT ![d] = @ - amount]
      /\ P!Go(d, next) /\ UNCHANGED <<P!counted, rare, stopped, timedOut, jammed>>
  BY DEF P!Give
<1>4. wallet[p] + amount \in Nat /\ held[d] - amount \in Int
  BY <1>1
<1>5. wallet' \in [{"fan", "creator", "platform"} -> Nat] /\ held' \in [Deals -> Int]
  BY <1>1, <1>3, <1>4 DEF P!TypeOK
<1>6. /\ held'[d] = held[d] - amount
      /\ \A e \in Deals \ {d} : held'[e] = held[e]
  BY <1>1, <1>3 DEF P!TypeOK
<1>7. Passes(d)'
  BY <1>1, <1>2, <1>3, <1>6, GoTypes DEF Passes, Holds, P!At, P!Price, P!Share
<1>8. \A e \in Deals : Passes(e)'
  BY <1>1, <1>3, <1>6, <1>7, GoTypes, OtherDeals
<1> QED BY <1>1, <1>3, <1>5, <1>8, GoTypes DEF PurchasesInv, P!TypeOK, P!counted, DealRow

(* A step that takes nothing and gives nothing.                            *)
LEMMA GoesOn ==
  ASSUME PurchasesInv, NEW d \in Deals, UNCHANGED <<held, stopped, timedOut>>,
         deal'[d].kind = deal[d].kind,
         \A e \in Deals \ {d} : deal'[e] = deal[e],
         deal[d].kind \in {"sticker", "donation"}, deal[d].step # "done"
  PROVE  \A e \in Deals : Passes(e)'
<1>1. Passes(d)
  BY DEF PurchasesInv
<1>2. Passes(d)'
  BY <1>1 DEF Passes, Holds
<1> QED BY <1>2, OtherDeals

LEMMA StartStep ==
  ASSUME PurchasesInv, NEW d \in Deals, NEW kind \in P!Kinds, P!Start(d, kind)
  PROVE  PurchasesInv'
<1> PICK step : step = IF kind \in {"tip", "payout"} THEN "debit" ELSE "load"
  OBVIOUS
<1> PICK row : row = [P!NotMade EXCEPT !.kind = kind, !.step = step]
  OBVIOUS
<1>1. row \in DealRow /\ row.step \in {"debit", "load"}
  BY DEF DealRow, P!NotMade, P!Kinds, P!Steps
<1>2. /\ deal[d] = P!NotMade /\ deal' = [deal EXCEPT ![d] = row]
      /\ jammed' \in {jammed, jammed \cup {kind}}
      /\ UNCHANGED <<wallet, held, P!counted, rare, stopped, timedOut>>
  BY DEF P!Start
<1>3. deal' \in [Deals -> DealRow] /\ deal'[d] = row /\ \A e \in Deals \ {d} : deal'[e] = deal[e]
  BY <1>1, <1>2 DEF PurchasesInv, P!TypeOK, DealRow
<1>4. Passes(d)'
  BY <1>1, <1>2, <1>3 DEF PurchasesInv, Passes, Holds, P!NotMade
<1>5. \A e \in Deals : Passes(e)'
  BY <1>2, <1>3, <1>4, OtherDeals
<1>6. jammed' \subseteq P!Kinds
  BY <1>2 DEF PurchasesInv, P!TypeOK
<1> QED BY <1>2, <1>3, <1>5, <1>6 DEF PurchasesInv, P!TypeOK, P!counted, DealRow

LEMMA TransferStep ==
  ASSUME PurchasesInv, NEW d \in Deals, NEW outcome \in {"sent", "refused", "lost"},
         P!Transfer(d, outcome)
  PROVE  PurchasesInv'
<1> PICK next \in {"done", "refund"} : next = IF outcome = "sent" THEN "done" ELSE "refund"
  OBVIOUS
<1>1. /\ P!At(d, "payout", "transfer") /\ P!Go(d, next)
      /\ held' = IF outcome = "refused" THEN held ELSE [held EXCEPT ![d] = @ - P!Share]
      /\ UNCHANGED <<wallet, P!counted, stopped, jammed>>
      /\ next \in P!Steps
  BY DEF P!Transfer, P!Steps
<1>2. /\ P!TypeOK /\ Passes(d) /\ held[d] \in Int
      /\ d \notin timedOut => d \notin stopped /\ held[d] = P!Share
  BY <1>1 DEF PurchasesInv, P!TypeOK, Passes, Holds, P!At
<1>3. /\ held' \in [Deals -> Int]
      /\ held'[d] = IF outcome = "refused" THEN held[d] ELSE held[d] - P!Share
      /\ \A e \in Deals \ {d} : held'[e] = held[e]
  <2>1. held[d] - P!Share \in Int
    BY <1>2 DEF P!Share
  <2> QED BY <1>1, <1>2, <2>1 DEF P!TypeOK
<1>4. /\ rare' \in 0..MaxPurchaseRare
      /\ timedOut' = IF outcome = "lost" THEN timedOut \cup {d} ELSE timedOut
  BY <1>2, BoundsAssumption DEF P!Transfer, P!Rare, P!TypeOK
<1>5. /\ deal' \in [Deals -> DealRow] /\ deal'[d].step = next /\ deal'[d].kind = "payout"
      /\ \A e \in Deals \ {d} : deal'[e] = deal[e]
  BY <1>1, <1>2, GoTypes DEF P!At
<1>6. Passes(d)'
  BY <1>1, <1>2, <1>3, <1>4, <1>5 DEF Passes, Holds, P!Share
<1>7. \A e \in Deals : Passes(e)'
  BY <1>1, <1>3, <1>4, <1>5, <1>6, OtherDeals
<1>8. timedOut' \subseteq Deals
  BY <1>2, <1>4 DEF P!TypeOK
<1> QED BY <1>1, <1>2, <1>3, <1>4, <1>5, <1>7, <1>8 DEF PurchasesInv, P!TypeOK, P!counted, DealRow

LEMMA StickerStep ==
  ASSUME PurchasesInv, NEW d \in Deals,
         \/ P!StickerLoad(d) \/ P!StickerRequest(d) \/ P!StickerCount(d) \/ P!StickerGrant(d)
         \/ \E answered \in BOOLEAN : P!StickerIntend(d, answered)
  PROVE  PurchasesInv'
<1>1. P!TypeOK /\ deal \in [Deals -> DealRow] /\ P!Steps = P!Steps \cup {"done", "count"}
  BY DEF PurchasesInv, P!TypeOK, DealRow, P!Steps
<1>2. deal[d].kind = "sticker" /\ deal[d].step # "done" /\ UNCHANGED <<held, stopped, timedOut>>
  BY DEF P!StickerLoad, P!StickerRequest, P!StickerCount, P!StickerGrant, P!StickerIntend, P!At,
         P!counted
<1>3. CASE P!StickerLoad(d)
  <2> PICK row : row = [deal[d] EXCEPT !.seen = sticker.sales, !.step = "intend"]
    OBVIOUS
  <2>1. row \in DealRow /\ row.kind = deal[d].kind
    <3>1. sticker.sales \in Nat /\ deal[d] \in DealRow /\ "intend" \in P!Steps
      BY <1>1 DEF P!TypeOK, P!Steps
    <3> QED BY <3>1 DEF DealRow
  <2>2. deal' = [deal EXCEPT ![d] = row]
    BY <1>1, <1>3 DEF P!StickerLoad
  <2>3. /\ deal' \in [Deals -> DealRow] /\ deal'[d].kind = deal[d].kind
        /\ \A e \in Deals \ {d} : deal'[e] = deal[e]
    BY <1>1, <2>1, <2>2
  <2>4. \A e \in Deals : Passes(e)'
    BY <1>2, <2>3, GoesOn
  <2> QED BY <1>1, <1>3, <2>3, <2>4 DEF P!StickerLoad, PurchasesInv, P!TypeOK, P!counted, DealRow
<1>4. ASSUME NEW answered \in BOOLEAN, P!StickerIntend(d, answered) PROVE PurchasesInv'
  <2>1. PICK step \in P!Steps : P!Go(d, step)
    BY <1>4 DEF P!StickerIntend, P!Steps
  <2>2. \A e \in Deals : Passes(e)'
    BY <1>1, <1>2, <2>1, GoTypes, GoesOn
  <2>3. intents' \in Nat
    BY <1>1, <1>4 DEF P!StickerIntend, P!TypeOK
  <2> QED BY <1>1, <1>4, <2>1, <2>2, <2>3, GoTypes
          DEF P!StickerIntend, PurchasesInv, P!TypeOK, DealRow
<1>5. CASE P!StickerRequest(d)
  <2>1. PICK step \in P!Steps : P!Go(d, step)
    BY <1>5 DEF P!StickerRequest, P!Steps
  <2>2. \A e \in Deals : Passes(e)'
    BY <1>1, <1>2, <2>1, GoTypes, GoesOn
  <2>3. wallet' \in [{"fan", "creator", "platform"} -> Nat] /\ payouts' \in Nat
    <3>1. CASE UNCHANGED <<wallet, payouts>>
      BY <1>1, <3>1 DEF P!TypeOK
    <3>2. CASE /\ ~(wallet["creator"] < P!Share)
               /\ wallet' = [wallet EXCEPT !["creator"] = @ - P!Share]
               /\ payouts' = payouts + 1
      <4>1. wallet["creator"] - P!Share \in Nat
        BY <1>1, <3>2 DEF P!TypeOK, P!Share
      <4> QED BY <1>1, <3>2, <4>1 DEF P!TypeOK
    <3> QED BY <1>5, <3>1, <3>2 DEF P!StickerRequest
  <2> QED BY <1>1, <1>5, <2>1, <2>2, <2>3, GoTypes
          DEF P!StickerRequest, PurchasesInv, P!TypeOK, DealRow
<1>6. CASE P!StickerCount(d)
  <2>1. P!Go(d, "grant") /\ "grant" \in P!Steps
    BY <1>6 DEF P!StickerCount, P!Steps
  <2>2. \A e \in Deals : Passes(e)'
    BY <1>1, <1>2, <2>1, GoTypes, GoesOn
  <2>3. sticker' \in [sales : Nat, owned : Nat]
    <3>1. deal[d].seen + 1 \in Nat
      BY <1>1 DEF DealRow
    <3> QED BY <1>1, <1>6, <3>1 DEF P!StickerCount, P!TypeOK
  <2> QED BY <1>1, <1>6, <2>1, <2>2, <2>3, GoTypes
          DEF P!StickerCount, PurchasesInv, P!TypeOK, DealRow
<1>7. CASE P!StickerGrant(d)
  <2>1. P!Go(d, "done") /\ "done" \in P!Steps
    BY <1>7 DEF P!StickerGrant, P!Steps
  <2>2. \A e \in Deals : Passes(e)'
    BY <1>1, <1>2, <2>1, GoTypes, GoesOn
  <2>3. sticker' \in [sales : Nat, owned : Nat]
    BY <1>1, <1>7 DEF P!StickerGrant, P!TypeOK
  <2> QED BY <1>1, <1>7, <2>1, <2>2, <2>3, GoTypes
          DEF P!StickerGrant, PurchasesInv, P!TypeOK, DealRow
<1> QED BY <1>3, <1>4, <1>5, <1>6, <1>7

LEMMA DonationStep ==
  ASSUME PurchasesInv, NEW d \in Deals,
         \/ P!DonationLoad(d) \/ P!DonationSum(d) \/ P!DonationInsert(d)
         \/ \E answered \in BOOLEAN : P!DonationIntend(d, answered)
  PROVE  PurchasesInv'
<1>1. P!TypeOK /\ deal \in [Deals -> DealRow]
  BY DEF PurchasesInv, P!TypeOK, DealRow
<1>2. deal[d].kind = "donation" /\ deal[d].step # "done" /\ UNCHANGED <<held, stopped, timedOut>>
  BY DEF P!DonationLoad, P!DonationSum, P!DonationInsert, P!DonationIntend, P!At, P!counted
<1>3. CASE P!DonationLoad(d)
  <2> PICK row : row = [deal[d] EXCEPT !.seen = fundraiser.amount, !.list = fundraiser.attached,
                                       !.step = "intend"]
    OBVIOUS
  <2>1. row \in DealRow /\ row.kind = deal[d].kind
    <3>1. /\ fundraiser.amount \in Nat /\ fundraiser.attached \in SUBSET Deals
          /\ deal[d] \in DealRow /\ "intend" \in P!Steps
      BY <1>1 DEF P!TypeOK, P!Steps
    <3> QED BY <3>1 DEF DealRow
  <2>2. deal' = [deal EXCEPT ![d] = row]
    BY <1>1, <1>3 DEF P!DonationLoad
  <2>3. /\ deal' \in [Deals -> DealRow] /\ deal'[d].kind = deal[d].kind
        /\ \A e \in Deals \ {d} : deal'[e] = deal[e]
    BY <1>1, <2>1, <2>2
  <2>4. \A e \in Deals : Passes(e)'
    BY <1>2, <2>3, GoesOn
  <2> QED BY <1>1, <1>3, <2>3, <2>4 DEF P!DonationLoad, PurchasesInv, P!TypeOK, P!counted, DealRow
<1>4. ASSUME NEW answered \in BOOLEAN, P!DonationIntend(d, answered) PROVE PurchasesInv'
  <2>1. PICK step \in P!Steps : P!Go(d, step)
    BY <1>4 DEF P!DonationIntend, P!Steps
  <2>2. \A e \in Deals : Passes(e)'
    BY <1>1, <1>2, <2>1, GoTypes, GoesOn
  <2> QED BY <1>1, <1>4, <2>1, <2>2, GoTypes
          DEF P!DonationIntend, PurchasesInv, P!TypeOK, P!counted, DealRow
<1>5. CASE P!DonationSum(d)
  <2>1. P!Go(d, "insert") /\ "insert" \in P!Steps
    BY <1>5 DEF P!DonationSum, P!Steps
  <2>2. \A e \in Deals : Passes(e)'
    BY <1>1, <1>2, <2>1, GoTypes, GoesOn
  <2>3. fundraiser' \in [amount : Nat, attached : SUBSET Deals]
    <3>1. deal[d].seen + 1 \in Nat /\ deal[d].list \in SUBSET Deals
      BY <1>1 DEF DealRow
    <3> QED BY <1>1, <1>5, <3>1 DEF P!DonationSum, P!TypeOK
  <2> QED BY <1>1, <1>5, <2>1, <2>2, <2>3, GoTypes
          DEF P!DonationSum, PurchasesInv, P!TypeOK, DealRow
<1>6. CASE P!DonationInsert(d)
  <2>1. P!Go(d, "done") /\ "done" \in P!Steps
    BY <1>6 DEF P!DonationInsert, P!Steps
  <2>2. \A e \in Deals : Passes(e)'
    BY <1>1, <1>2, <2>1, GoTypes, GoesOn
  <2>3. fundraiser' \in [amount : Nat, attached : SUBSET Deals] /\ donations' \subseteq Deals
    <3>1. fundraiser.attached \cup {d} \in SUBSET Deals
      BY <1>1 DEF P!TypeOK
    <3> QED BY <1>1, <1>6, <3>1 DEF P!DonationInsert, P!TypeOK
  <2> QED BY <1>1, <1>6, <2>1, <2>2, <2>3, GoTypes
          DEF P!DonationInsert, PurchasesInv, P!TypeOK, DealRow
<1> QED BY <1>3, <1>4, <1>5, <1>6

LEMMA DealStopsStep ==
  ASSUME PurchasesInv, NEW d \in Deals, P!DealStops(d)
  PROVE  PurchasesInv'
<1>1. /\ P!TypeOK /\ Passes(d) /\ P!Go(d, "done") /\ "done" \in P!Steps
      /\ stopped' = stopped \cup {d} /\ deal[d].step \notin {"none", "done"}
      /\ UNCHANGED <<wallet, held, P!counted, timedOut, jammed>>
  BY DEF P!DealStops, PurchasesInv, P!Steps
<1>2. rare' \in 0..MaxPurchaseRare
  BY <1>1, BoundsAssumption DEF P!DealStops, P!Rare, P!TypeOK
<1>3. Passes(d)'
  BY <1>1, GoTypes DEF Passes, Holds, P!Price, P!Share
<1>4. \A e \in Deals : Passes(e)'
  BY <1>1, <1>3, GoTypes, OtherDeals
<1>5. stopped' \subseteq Deals
  BY <1>1 DEF P!TypeOK
<1> QED BY <1>1, <1>2, <1>4, <1>5, GoTypes DEF PurchasesInv, P!TypeOK, P!counted, DealRow

LEMMA PurchasesStep ==
  ASSUME PurchasesInv, P!Next
  PROVE  PurchasesInv'
<1> PICK d \in Deals :
      \/ \E kind \in P!Kinds : P!Start(d, kind)
      \/ P!TipDebit(d) \/ P!PayoutDebit(d)
      \/ P!TipCredit(d) \/ P!TipFee(d) \/ P!Refund(d)
      \/ \E outcome \in {"sent", "refused", "lost"} : P!Transfer(d, outcome)
      \/ P!StickerLoad(d) \/ P!StickerRequest(d) \/ P!StickerCount(d) \/ P!StickerGrant(d)
      \/ P!DonationLoad(d) \/ P!DonationSum(d) \/ P!DonationInsert(d)
      \/ \E answered \in BOOLEAN : P!StickerIntend(d, answered) \/ P!DonationIntend(d, answered)
      \/ P!DealStops(d)
  BY DEF P!Next
<1>1. P!Price \in Nat /\ P!Share \in Nat /\ P!Price - P!Share \in Nat
  BY DEF P!Price, P!Share
<1>2. {"credit", "transfer", "fee", "done"} \subseteq P!Steps
  BY DEF P!Steps
<1>3. CASE P!TipDebit(d) \/ P!PayoutDebit(d)
  BY <1>1, <1>2, <1>3, TakeFrom DEF P!TipDebit, P!PayoutDebit, P!At
<1>4. CASE P!TipCredit(d) \/ P!TipFee(d) \/ P!Refund(d)
  BY <1>1, <1>2, <1>4, GiveTo DEF P!TipCredit, P!TipFee, P!Refund
<1> QED BY <1>3, <1>4, StartStep, TransferStep, StickerStep, DonationStep, DealStopsStep

LEMMA PurchasesBegin == P!Init => PurchasesInv
<1> SUFFICES ASSUME P!Init PROVE PurchasesInv
  OBVIOUS
<1>1. wallet \in [{"fan", "creator", "platform"} -> Nat]
  <2>1. Wallets["fan"] \in Nat /\ Wallets["creator"] \in Nat
    BY WalletsAssumption
  <2> QED BY <2>1 DEF P!Init
<1>2. deal \in [Deals -> DealRow]
  BY DEF P!Init, P!NotMade, DealRow, P!Kinds, P!Steps
<1>3. \A d \in Deals : Passes(d)
  BY DEF P!Init, P!NotMade, Passes, Holds
<1> QED BY <1>1, <1>2, <1>3, BoundsAssumption DEF P!Init, PurchasesInv, P!TypeOK, DealRow

LEMMA MoneyComes == PurchasesInv => P!MoneyArrives
<1> SUFFICES ASSUME PurchasesInv, NEW d \in Deals
             PROVE  /\ d \notin timedOut => held[d] >= 0
                    /\ deal[d].step = "done" /\ d \notin stopped \cup timedOut => held[d] = 0
  BY DEF P!MoneyArrives
<1>1. Holds(d) >= 0 /\ (deal[d].step = "done" => Holds(d) = 0)
  BY DEF Holds, P!Price, P!Share
<1> QED BY <1>1 DEF PurchasesInv, Passes

(***************************************************************************)
(* Sales of a sticker and donations to a fundraiser (Purchases).           *)
(***************************************************************************)

Doing(d, kind, steps) == deal[d].kind = kind /\ deal[d].step \in steps
Making(kind, steps) == Cardinality({d \in Deals : Doing(d, kind, steps)})

(* No two deals of the kind overlapped, and none stopped half way.         *)
Unspoilt(kind) == kind \notin jammed /\ \A d \in stopped : deal[d].kind # kind

StickersPaid ==
  /\ sticker.owned \in Nat /\ intents \in Nat /\ payouts \in Nat
  /\ sticker.owned + Making("sticker", {"count", "grant"}) <= payouts
  /\ payouts + Making("sticker", {"request"}) <= intents

StickersCounted ==
  Unspoilt("sticker") =>
    /\ \A d, e \in P!UnderWay("sticker") : d = e
    /\ P!UnderWay("sticker") = {} => sticker.sales = sticker.owned /\ sticker.owned <= 1
    /\ \A d \in P!UnderWay("sticker") :
         /\ sticker.owned = 0
         /\ sticker.sales = IF deal[d].step = "grant" THEN 1 ELSE 0
         /\ deal[d].step \in {"intend", "request", "count"} => deal[d].seen = 0

DonationsKnown ==
  /\ donations \subseteq Deals /\ fundraiser.attached \subseteq donations
  /\ \A d \in Deals : deal[d].kind = "donation" => deal[d].list \subseteq donations
  /\ \A d \in donations : deal[d].step = "done"

DonationsCounted ==
  Unspoilt("donation") =>
    /\ \A d, e \in P!UnderWay("donation") : d = e
    /\ fundraiser.attached = donations
    /\ P!UnderWay("donation") = {} => fundraiser.amount = Cardinality(donations)
    /\ \A d \in P!UnderWay("donation") :
         /\ fundraiser.amount = Cardinality(donations) + (IF deal[d].step = "insert" THEN 1 ELSE 0)
         /\ deal[d].step \in {"intend", "sum"} =>
              deal[d].seen = fundraiser.amount /\ deal[d].list = donations

CountsInv == StickersPaid /\ StickersCounted /\ DonationsKnown /\ DonationsCounted

(* How a step of a deal changes a number of deals.                         *)
LEMMA DealsCounting ==
  ASSUME NEW d \in Deals, \A e \in Deals \ {d} : deal'[e] = deal[e], NEW kind, NEW steps
  PROVE  /\ Making(kind, steps) \in Nat /\ Making(kind, steps)' \in Nat
         /\ (Doing(d, kind, steps)' <=> Doing(d, kind, steps)) =>
              Making(kind, steps)' = Making(kind, steps)
         /\ Doing(d, kind, steps)' /\ ~Doing(d, kind, steps) =>
              Making(kind, steps)' = Making(kind, steps) + 1
         /\ ~Doing(d, kind, steps)' /\ Doing(d, kind, steps) =>
              Making(kind, steps)' = Making(kind, steps) - 1
<1> DEFINE S == {e \in Deals : Doing(e, kind, steps)}
           T == {e \in Deals : Doing(e, kind, steps)'}
<1>1. \A e \in Deals \ {d} : e \in T <=> e \in S
  BY DEF Doing
<1>2. (d \in T <=> Doing(d, kind, steps)') /\ (d \in S <=> Doing(d, kind, steps))
  OBVIOUS
<1>3. S \subseteq Deals /\ T \subseteq Deals /\ IsFiniteSet(S) /\ IsFiniteSet(T)
  BY IdsFinite, FS_Subset
<1>4. Making(kind, steps) = Cardinality(S) /\ Making(kind, steps)' = Cardinality(T)
  BY DEF Making
<1> HIDE DEF S, T
<1>5. Cardinality(S) \in Nat /\ Cardinality(T) \in Nat
  BY <1>3, FS_CardinalityType
<1>6. CASE d \in S <=> d \in T
  <2>1. S = T
    BY <1>1, <1>3, <1>6
  <2> QED BY <1>2, <1>4, <1>5, <1>6, <2>1
<1>7. CASE d \in S /\ d \notin T
  <2>1. T = S \ {d}
    BY <1>1, <1>3, <1>7
  <2>2. Cardinality(T) = Cardinality(S) - 1
    BY <1>3, <1>7, <2>1, FS_RemoveElement
  <2> QED BY <1>2, <1>4, <1>5, <1>7, <2>2
<1>8. CASE d \notin S /\ d \in T
  <2>1. T = S \cup {d}
    BY <1>1, <1>3, <1>8
  <2>2. Cardinality(T) = Cardinality(S) + 1
    BY <1>3, <1>8, <2>1, FS_AddElement
  <2> QED BY <1>2, <1>4, <1>5, <1>8, <2>2
<1> QED BY <1>6, <1>7, <1>8

(* A step of a deal of another kind.                                       *)
LEMMA FarFromStickers ==
  ASSUME NEW d \in Deals, \A e \in Deals \ {d} : deal'[e] = deal[e], stopped \subseteq Deals,
         deal[d].kind # "sticker", deal'[d].kind # "sticker",
         UNCHANGED <<sticker, intents, payouts>>, jammed \subseteq jammed', stopped \subseteq stopped',
         StickersPaid, StickersCounted
  PROVE  StickersPaid' /\ StickersCounted'
<1>1. \A steps : Making("sticker", steps)' = Making("sticker", steps)
  <2> SUFFICES ASSUME NEW steps PROVE Making("sticker", steps)' = Making("sticker", steps)
    OBVIOUS
  <2>1. Doing(d, "sticker", steps)' <=> Doing(d, "sticker", steps)
    BY DEF Doing
  <2> QED BY <2>1, DealsCounting
<1>2. P!UnderWay("sticker")' = P!UnderWay("sticker")
  BY DEF P!UnderWay
<1>3. \A e \in P!UnderWay("sticker") : deal'[e] = deal[e]
  BY DEF P!UnderWay
<1>4. Unspoilt("sticker")' => Unspoilt("sticker")
  BY DEF Unspoilt
<1>5. StickersPaid'
  BY <1>1 DEF StickersPaid
<1>6. StickersCounted'
  BY <1>2, <1>3, <1>4 DEF StickersCounted
<1> QED BY <1>5, <1>6

LEMMA FarFromDonations ==
  ASSUME NEW d \in Deals, \A e \in Deals \ {d} : deal'[e] = deal[e], stopped \subseteq Deals,
         deal[d].kind # "donation", deal'[d].kind # "donation", deal[d].step # "done",
         UNCHANGED <<fundraiser, donations>>, jammed \subseteq jammed', stopped \subseteq stopped',
         DonationsKnown, DonationsCounted
  PROVE  DonationsKnown' /\ DonationsCounted'
<1>1. P!UnderWay("donation")' = P!UnderWay("donation")
  BY DEF P!UnderWay
<1>2. \A e \in P!UnderWay("donation") : deal'[e] = deal[e]
  BY DEF P!UnderWay
<1>3. Unspoilt("donation")' => Unspoilt("donation")
  BY DEF Unspoilt
<1>4. Cardinality(donations)' = Cardinality(donations)
  OBVIOUS
<1>5. DonationsKnown'
  BY DEF DonationsKnown
<1>6. DonationsCounted'
  BY <1>1, <1>2, <1>3, <1>4 DEF DonationsCounted
<1> QED BY <1>5, <1>6

LEMMA StartKeepsCounts ==
  ASSUME PurchasesInv, CountsInv, NEW d \in Deals, NEW kind \in P!Kinds, P!Start(d, kind)
  PROVE  CountsInv'
<1>1. /\ deal[d] = P!NotMade /\ (kind = "sticker" => sticker.owned = 0)
      /\ deal' = [deal EXCEPT ![d] =
           [P!NotMade EXCEPT !.kind = kind,
                             !.step = IF kind \in {"tip", "payout"} THEN "debit" ELSE "load"]]
      /\ jammed' = IF P!UnderWay(kind) # {} THEN jammed \cup {kind} ELSE jammed
      /\ UNCHANGED <<intents, payouts, sticker, fundraiser, donations, stopped>>
  BY DEF P!Start, P!counted
<1>2. /\ deal'[d].kind = kind /\ deal'[d].list = {}
      /\ deal'[d].step = IF kind \in {"tip", "payout"} THEN "debit" ELSE "load"
      /\ \A e \in Deals \ {d} : deal'[e] = deal[e]
  BY <1>1 DEF PurchasesInv, P!TypeOK, P!NotMade
<1>3. /\ deal[d].kind = "tip" /\ deal[d].step = "none" /\ stopped \subseteq Deals
      /\ jammed \subseteq jammed'
  BY <1>1 DEF P!NotMade, PurchasesInv, P!TypeOK
<1>4. CASE kind # "sticker" /\ kind # "donation"
  BY <1>1, <1>2, <1>3, <1>4, FarFromStickers, FarFromDonations DEF CountsInv
<1>5. CASE kind = "sticker"
  <2>1. DonationsKnown' /\ DonationsCounted'
    BY <1>1, <1>2, <1>3, <1>5, FarFromDonations DEF CountsInv
  <2>2. \A steps \in {{"count", "grant"}, {"request"}} :
          Making("sticker", steps)' = Making("sticker", steps)
    <3> SUFFICES ASSUME NEW steps \in {{"count", "grant"}, {"request"}}
                 PROVE  Making("sticker", steps)' = Making("sticker", steps)
      OBVIOUS
    <3>1. ~Doing(d, "sticker", steps)' /\ ~Doing(d, "sticker", steps)
      BY <1>2, <1>3, <1>5 DEF Doing
    <3> QED BY <1>2, <3>1, DealsCounting
  <2>3. StickersPaid'
    BY <1>1, <2>2 DEF CountsInv, StickersPaid
  <2>4. StickersCounted'
    <3> SUFFICES ASSUME Unspoilt("sticker")' PROVE StickersCounted'
      BY DEF StickersCounted
    <3>1. P!UnderWay("sticker") = {} /\ "sticker" \notin jammed
      BY <1>1, <1>5 DEF Unspoilt
    <3>2. Unspoilt("sticker")
      BY <1>1, <1>2, <1>3, <3>1 DEF Unspoilt
    <3>3. sticker'.sales = 0 /\ sticker'.owned = 0
      BY <1>1, <1>5, <3>1, <3>2 DEF CountsInv, StickersCounted
    <3>4. P!UnderWay("sticker")' = {d}
      BY <1>2, <1>5, <3>1 DEF P!UnderWay
    <3> QED BY <1>2, <1>5, <3>3, <3>4 DEF StickersCounted
  <2> QED BY <2>1, <2>3, <2>4 DEF CountsInv
<1>6. CASE kind = "donation"
  <2>1. StickersPaid' /\ StickersCounted'
    BY <1>1, <1>2, <1>3, <1>6, FarFromStickers DEF CountsInv
  <2>2. DonationsKnown'
    BY <1>1, <1>2, <1>3, <1>6 DEF CountsInv, DonationsKnown
  <2>3. DonationsCounted'
    <3> SUFFICES ASSUME Unspoilt("donation")' PROVE DonationsCounted'
      BY DEF DonationsCounted
    <3>1. P!UnderWay("donation") = {} /\ "donation" \notin jammed
      BY <1>1, <1>6 DEF Unspoilt
    <3>2. Unspoilt("donation")
      BY <1>1, <1>2, <1>3, <3>1 DEF Unspoilt
    <3>3. P!UnderWay("donation")' = {d}
      BY <1>2, <1>6, <3>1 DEF P!UnderWay
    <3>4. fundraiser'.attached = donations' /\ fundraiser'.amount = Cardinality(donations)'
      BY <1>1, <3>1, <3>2 DEF CountsInv, DonationsCounted
    <3>5. Cardinality(donations)' \in Nat
      BY <1>1, IdsFinite, FS_Subset, FS_CardinalityType DEF CountsInv, DonationsKnown
    <3> QED BY <1>2, <1>6, <3>3, <3>4, <3>5 DEF DonationsCounted
  <2> QED BY <2>1, <2>2, <2>3 DEF CountsInv
<1> QED BY <1>4, <1>5, <1>6

LEMMA GoKeeps ==
  ASSUME PurchasesInv, NEW d \in Deals, NEW step, P!Go(d, step)
  PROVE  /\ deal'[d].step = step /\ deal'[d].kind = deal[d].kind
         /\ deal'[d].seen = deal[d].seen /\ deal'[d].list = deal[d].list
         /\ \A e \in Deals \ {d} : deal'[e] = deal[e]
<1>1. deal \in [Deals -> DealRow]
  BY DEF PurchasesInv, P!TypeOK, DealRow
<1> PICK row : row = [deal[d] EXCEPT !.step = step]
  OBVIOUS
<1>2. /\ row.step = step /\ row.kind = deal[d].kind /\ row.seen = deal[d].seen
      /\ row.list = deal[d].list
  BY <1>1 DEF DealRow
<1>3. deal' = [deal EXCEPT ![d] = row]
  BY DEF P!Go
<1> QED BY <1>1, <1>2, <1>3

(* Tips and payouts.                                                       *)
LEMMA MoneyKeepsCounts ==
  ASSUME PurchasesInv, CountsInv, NEW d \in Deals, NEW step, P!Go(d, step),
         deal[d].kind \in {"tip", "payout"}, deal[d].step # "done",
         UNCHANGED <<P!counted, stopped, jammed>>
  PROVE  CountsInv'
<1>1. deal'[d].kind = deal[d].kind /\ \A e \in Deals \ {d} : deal'[e] = deal[e]
  BY GoKeeps
<1>2. stopped \subseteq Deals
  BY DEF PurchasesInv, P!TypeOK
<1>3. UNCHANGED <<intents, payouts, sticker, fundraiser, donations>>
  BY DEF P!counted
<1> QED BY <1>1, <1>2, <1>3, FarFromStickers, FarFromDonations DEF CountsInv

(* A sticker's deal in hand, when all is calm but for it.                  *)
LEMMA OneSticker ==
  ASSUME CountsInv, NEW d \in Deals, deal[d].kind = "sticker", deal[d].step \notin {"none", "done"},
         Unspoilt("sticker")
  PROVE  /\ P!UnderWay("sticker") = {d} /\ sticker.owned = 0
         /\ sticker.sales = IF deal[d].step = "grant" THEN 1 ELSE 0
         /\ deal[d].step \in {"intend", "request", "count"} => deal[d].seen = 0
<1>1. d \in P!UnderWay("sticker")
  BY DEF P!UnderWay
<1> QED BY <1>1 DEF CountsInv, StickersCounted

LEMMA StickerKeepsCounts ==
  ASSUME PurchasesInv, CountsInv, NEW d \in Deals,
         \/ P!StickerLoad(d) \/ P!StickerRequest(d) \/ P!StickerCount(d) \/ P!StickerGrant(d)
         \/ \E answered \in BOOLEAN : P!StickerIntend(d, answered)
  PROVE  CountsInv'
<1>1. /\ deal[d].kind = "sticker" /\ deal[d].step \in {"load", "intend", "request", "count", "grant"}
      /\ UNCHANGED <<fundraiser, donations, stopped, jammed>>
  BY DEF P!StickerLoad, P!StickerRequest, P!StickerCount, P!StickerGrant, P!StickerIntend, P!At, P!counted
<1>2. stopped \subseteq Deals /\ sticker \in [sales : Nat, owned : Nat] /\ intents \in Nat /\ payouts \in Nat
  BY DEF PurchasesInv, P!TypeOK
<1>3. SUFFICES /\ deal'[d].kind = "sticker"
               /\ \A e \in Deals \ {d} : deal'[e] = deal[e]
               /\ StickersPaid' /\ StickersCounted'
  <2>1. deal[d].kind # "donation" /\ deal[d].step # "done"
    BY <1>1
  <2> QED BY <1>1, <1>2, <1>3, <2>1, FarFromDonations DEF CountsInv
<1> DEFINE N == Making("sticker", {"count", "grant"})
           M == Making("sticker", {"request"})
<1>4. sticker.owned + N <= payouts /\ payouts + M <= intents
  BY DEF CountsInv, StickersPaid
<1>5. ASSUME deal'[d].kind = "sticker", \A e \in Deals \ {d} : deal'[e] = deal[e]
      PROVE  /\ Unspoilt("sticker")' => Unspoilt("sticker")
             /\ Unspoilt("sticker")' => P!UnderWay("sticker")' =
                  (IF deal'[d].step \in {"none", "done"} THEN {} ELSE {d})
             /\ N \in Nat /\ N' \in Nat /\ M \in Nat /\ M' \in Nat
             /\ (deal'[d].step \in {"count", "grant"} <=> deal[d].step \in {"count", "grant"}) => N' = N
             /\ (deal'[d].step = "request" <=> deal[d].step = "request") => M' = M
             /\ deal'[d].step \in {"count", "grant"} /\ deal[d].step \notin {"count", "grant"} => N' = N + 1
             /\ deal'[d].step = "request" /\ deal[d].step # "request" => M' = M + 1
             /\ deal'[d].step \notin {"count", "grant"} /\ deal[d].step \in {"count", "grant"} => N' = N - 1
             /\ deal'[d].step # "request" /\ deal[d].step = "request" => M' = M - 1
  <2>1. Unspoilt("sticker")' => Unspoilt("sticker")
    BY <1>1, <1>2, <1>5 DEF Unspoilt
  <2>2. Unspoilt("sticker")' => P!UnderWay("sticker")' =
                  (IF deal'[d].step \in {"none", "done"} THEN {} ELSE {d})
    <3>1. Unspoilt("sticker") => P!UnderWay("sticker") = {d}
      BY <1>1, OneSticker
    <3> QED BY <1>5, <2>1, <3>1 DEF P!UnderWay
  <2>3. \A steps : /\ Doing(d, "sticker", steps) <=> deal[d].step \in steps
                   /\ Doing(d, "sticker", steps)' <=> deal'[d].step \in steps
    BY <1>1, <1>5 DEF Doing
  <2>4. /\ N \in Nat /\ N' \in Nat
        /\ (deal'[d].step \in {"count", "grant"} <=> deal[d].step \in {"count", "grant"}) => N' = N
        /\ deal'[d].step \in {"count", "grant"} /\ deal[d].step \notin {"count", "grant"} => N' = N + 1
        /\ deal'[d].step \notin {"count", "grant"} /\ deal[d].step \in {"count", "grant"} => N' = N - 1
    BY <1>5, <2>3, DealsCounting
  <2>5. /\ M \in Nat /\ M' \in Nat
        /\ (deal'[d].step = "request" <=> deal[d].step = "request") => M' = M
        /\ deal'[d].step = "request" /\ deal[d].step # "request" => M' = M + 1
        /\ deal'[d].step # "request" /\ deal[d].step = "request" => M' = M - 1
    BY <1>5, <2>3, DealsCounting
  <2> QED BY <2>1, <2>2, <2>4, <2>5
<1> HIDE DEF N, M
<1>6. StickersPaid' <=> /\ sticker'.owned \in Nat /\ intents' \in Nat /\ payouts' \in Nat
                        /\ sticker'.owned + N' <= payouts' /\ payouts' + M' <= intents'
  BY DEF StickersPaid, N, M
<1>7. Unspoilt("sticker") =>
        /\ sticker.owned = 0
        /\ sticker.sales = IF deal[d].step = "grant" THEN 1 ELSE 0
        /\ deal[d].step \in {"intend", "request", "count"} => deal[d].seen = 0
  BY <1>1, OneSticker
<1>8. CASE P!StickerLoad(d)
  <2>1. deal[d].step = "load" /\ UNCHANGED <<intents, payouts, sticker>>
        /\ deal' = [deal EXCEPT ![d].seen = sticker.sales, ![d].step = "intend"]
    BY <1>8 DEF P!StickerLoad, P!At, P!counted
  <2>2. /\ deal'[d].kind = "sticker" /\ deal'[d].step = "intend" /\ deal'[d].seen = sticker.sales
        /\ \A e \in Deals \ {d} : deal'[e] = deal[e]
    <3>1. deal \in [Deals -> DealRow]
      BY DEF PurchasesInv, P!TypeOK, DealRow
    <3> QED BY <1>1, <2>1, <3>1 DEF DealRow
  <2>3. StickersPaid'
    BY <1>2, <1>4, <1>5, <1>6, <2>1, <2>2
  <2>4. StickersCounted'
    BY <1>5, <1>7, <2>1, <2>2, ZenonT(60) DEF StickersCounted
  <2> QED BY <2>2, <2>3, <2>4
<1>9. ASSUME NEW answered \in BOOLEAN, P!StickerIntend(d, answered)
      PROVE  /\ deal'[d].kind = "sticker"
             /\ \A e \in Deals \ {d} : deal'[e] = deal[e]
             /\ StickersPaid' /\ StickersCounted'
  <2>1. /\ deal[d].step = "intend" /\ UNCHANGED <<payouts, sticker>>
        /\ P!Go(d, IF answered THEN "request" ELSE "done")
        /\ intents' = IF answered THEN intents + 1 ELSE intents
    BY <1>9 DEF P!StickerIntend, P!At
  <2>2. /\ deal'[d].kind = "sticker" /\ deal'[d].step = (IF answered THEN "request" ELSE "done")
        /\ deal'[d].seen = deal[d].seen /\ \A e \in Deals \ {d} : deal'[e] = deal[e]
    BY <1>1, <2>1, GoKeeps
  <2>3. StickersPaid'
    <3>1. CASE answered
      BY <1>2, <1>4, <1>5, <1>6, <2>1, <2>2, <3>1
    <3>2. CASE ~answered
      BY <1>2, <1>4, <1>5, <1>6, <2>1, <2>2, <3>2
    <3> QED BY <3>1, <3>2
  <2>4. StickersCounted'
    <3>1. CASE answered
      BY <1>5, <1>7, <2>1, <2>2, <3>1 DEF StickersCounted
    <3>2. CASE ~answered
      BY <1>5, <1>7, <2>1, <2>2, <3>2 DEF StickersCounted
    <3> QED BY <3>1, <3>2
  <2> QED BY <2>2, <2>3, <2>4
<1>10. CASE P!StickerRequest(d)
  <2>1. /\ deal[d].step = "request" /\ UNCHANGED <<intents, sticker>>
        /\ \/ P!Go(d, "done") /\ payouts' = payouts
           \/ P!Go(d, "count") /\ payouts' = payouts + 1
    BY <1>10 DEF P!StickerRequest, P!At
  <2>2. CASE P!Go(d, "done") /\ payouts' = payouts
    <3>1. /\ deal'[d].kind = "sticker" /\ deal'[d].step = "done"
          /\ \A e \in Deals \ {d} : deal'[e] = deal[e]
      BY <1>1, <2>2, GoKeeps
    <3>2. StickersPaid'
      BY <1>2, <1>4, <1>5, <1>6, <2>1, <2>2, <3>1
    <3>3. StickersCounted'
      BY <1>5, <1>7, <2>1, <3>1 DEF StickersCounted
    <3> QED BY <3>1, <3>2, <3>3
  <2>3. CASE P!Go(d, "count") /\ payouts' = payouts + 1
    <3>1. /\ deal'[d].kind = "sticker" /\ deal'[d].step = "count" /\ deal'[d].seen = deal[d].seen
          /\ \A e \in Deals \ {d} : deal'[e] = deal[e]
      BY <1>1, <2>3, GoKeeps
    <3>2. StickersPaid'
      BY <1>2, <1>4, <1>5, <1>6, <2>1, <2>3, <3>1
    <3>3. StickersCounted'
      BY <1>5, <1>7, <2>1, <3>1 DEF StickersCounted
    <3> QED BY <3>1, <3>2, <3>3
  <2> QED BY <2>1, <2>2, <2>3
<1>11. CASE P!StickerCount(d)
  <2>1. /\ deal[d].step = "count" /\ UNCHANGED <<intents, payouts>> /\ P!Go(d, "grant")
        /\ sticker' = [sticker EXCEPT !.sales = deal[d].seen + 1]
    BY <1>11 DEF P!StickerCount, P!At
  <2>2. /\ deal'[d].kind = "sticker" /\ deal'[d].step = "grant"
        /\ \A e \in Deals \ {d} : deal'[e] = deal[e]
    BY <1>1, <2>1, GoKeeps
  <2>3. sticker'.owned = sticker.owned /\ sticker'.sales = deal[d].seen + 1
    BY <1>2, <2>1
  <2>4. StickersPaid'
    BY <1>2, <1>4, <1>5, <1>6, <2>1, <2>2, <2>3
  <2>5. StickersCounted'
    BY <1>5, <1>7, <2>1, <2>2, <2>3 DEF StickersCounted
  <2> QED BY <2>2, <2>4, <2>5
<1>12. CASE P!StickerGrant(d)
  <2>1. /\ deal[d].step = "grant" /\ UNCHANGED <<intents, payouts>> /\ P!Go(d, "done")
        /\ sticker' = [sticker EXCEPT !.owned = @ + 1]
    BY <1>12 DEF P!StickerGrant, P!At
  <2>2. /\ deal'[d].kind = "sticker" /\ deal'[d].step = "done"
        /\ \A e \in Deals \ {d} : deal'[e] = deal[e]
    BY <1>1, <2>1, GoKeeps
  <2>3. sticker'.owned = sticker.owned + 1 /\ sticker'.sales = sticker.sales
    BY <1>2, <2>1
  <2>4. StickersPaid'
    BY <1>2, <1>4, <1>5, <1>6, <2>1, <2>2, <2>3
  <2>5. StickersCounted'
    BY <1>5, <1>7, <2>1, <2>2, <2>3 DEF StickersCounted
  <2> QED BY <2>2, <2>4, <2>5
<1> QED BY <1>8, <1>9, <1>10, <1>11, <1>12

LEMMA OneDonation ==
  ASSUME CountsInv, NEW d \in Deals, deal[d].kind = "donation", deal[d].step \notin {"none", "done"},
         Unspoilt("donation")
  PROVE  /\ P!UnderWay("donation") = {d} /\ fundraiser.attached = donations
         /\ fundraiser.amount = Cardinality(donations) + (IF deal[d].step = "insert" THEN 1 ELSE 0)
         /\ deal[d].step \in {"intend", "sum"} =>
              deal[d].seen = fundraiser.amount /\ deal[d].list = donations
<1>1. d \in P!UnderWay("donation")
  BY DEF P!UnderWay
<1> QED BY <1>1 DEF CountsInv, DonationsCounted

LEMMA DonationKeepsCounts ==
  ASSUME PurchasesInv, CountsInv, NEW d \in Deals,
         \/ P!DonationLoad(d) \/ P!DonationSum(d) \/ P!DonationInsert(d)
         \/ \E answered \in BOOLEAN : P!DonationIntend(d, answered)
  PROVE  CountsInv'
<1>1. /\ deal[d].kind = "donation" /\ deal[d].step \in {"load", "intend", "sum", "insert"}
      /\ UNCHANGED <<intents, payouts, sticker, stopped, jammed>>
  BY DEF P!DonationLoad, P!DonationSum, P!DonationInsert, P!DonationIntend, P!At, P!counted
<1>2. stopped \subseteq Deals /\ fundraiser \in [amount : Nat, attached : SUBSET Deals]
  BY DEF PurchasesInv, P!TypeOK
<1>3. SUFFICES /\ deal'[d].kind = "donation"
               /\ \A e \in Deals \ {d} : deal'[e] = deal[e]
               /\ DonationsKnown' /\ DonationsCounted'
  <2>1. deal[d].kind # "sticker"
    BY <1>1
  <2> QED BY <1>1, <1>2, <1>3, <2>1, FarFromStickers DEF CountsInv
<1>4. ASSUME deal'[d].kind = "donation", \A e \in Deals \ {d} : deal'[e] = deal[e]
      PROVE  /\ Unspoilt("donation")' => Unspoilt("donation")
             /\ Unspoilt("donation")' => P!UnderWay("donation")' =
                  (IF deal'[d].step \in {"none", "done"} THEN {} ELSE {d})
  <2>1. Unspoilt("donation")' => Unspoilt("donation")
    BY <1>1, <1>2, <1>4 DEF Unspoilt
  <2>2. Unspoilt("donation") => P!UnderWay("donation") = {d}
    BY <1>1, OneDonation
  <2> QED BY <1>4, <2>1, <2>2 DEF P!UnderWay
<1>5. /\ donations \subseteq Deals /\ fundraiser.attached \subseteq donations
      /\ \A e \in Deals : deal[e].kind = "donation" => deal[e].list \subseteq donations
      /\ \A e \in donations : deal[e].step = "done"
  BY DEF CountsInv, DonationsKnown
<1>6. IsFiniteSet(donations) /\ Cardinality(donations) \in Nat
  BY <1>5, IdsFinite, FS_Subset, FS_CardinalityType
<1>7. d \notin donations
  BY <1>1, <1>5
<1>8. Unspoilt("donation") =>
        /\ fundraiser.attached = donations
        /\ fundraiser.amount = Cardinality(donations) + (IF deal[d].step = "insert" THEN 1 ELSE 0)
        /\ deal[d].step \in {"intend", "sum"} =>
              deal[d].seen = fundraiser.amount /\ deal[d].list = donations
  BY <1>1, OneDonation
<1>9. CASE P!DonationLoad(d)
  <2>1. deal[d].step = "load" /\ UNCHANGED <<fundraiser, donations>>
        /\ deal' = [deal EXCEPT ![d].seen = fundraiser.amount, ![d].list = fundraiser.attached,
                                ![d].step = "intend"]
    BY <1>9 DEF P!DonationLoad, P!At, P!counted
  <2>2. /\ deal'[d].kind = "donation" /\ deal'[d].step = "intend"
        /\ deal'[d].seen = fundraiser.amount /\ deal'[d].list = fundraiser.attached
        /\ \A e \in Deals \ {d} : deal'[e] = deal[e]
    <3>1. deal \in [Deals -> DealRow]
      BY DEF PurchasesInv, P!TypeOK, DealRow
    <3> QED BY <1>1, <2>1, <3>1 DEF DealRow
  <2>3. DonationsKnown'
    BY <1>5, <1>7, <2>1, <2>2 DEF DonationsKnown
  <2>4. Cardinality(donations)' = Cardinality(donations)
    BY <2>1
  <2>5. DonationsCounted'
    BY <1>4, <1>6, <1>8, <2>1, <2>2, <2>4, ZenonT(60) DEF DonationsCounted
  <2> QED BY <2>2, <2>3, <2>5
<1>10. ASSUME NEW answered \in BOOLEAN, P!DonationIntend(d, answered)
       PROVE  /\ deal'[d].kind = "donation"
              /\ \A e \in Deals \ {d} : deal'[e] = deal[e]
              /\ DonationsKnown' /\ DonationsCounted'
  <2>1. /\ deal[d].step = "intend" /\ UNCHANGED <<fundraiser, donations>>
        /\ P!Go(d, IF answered THEN "sum" ELSE "done")
    BY <1>10 DEF P!DonationIntend, P!At, P!counted
  <2>2. /\ deal'[d].kind = "donation" /\ deal'[d].step = (IF answered THEN "sum" ELSE "done")
        /\ deal'[d].seen = deal[d].seen /\ deal'[d].list = deal[d].list
        /\ \A e \in Deals \ {d} : deal'[e] = deal[e]
    BY <1>1, <2>1, GoKeeps
  <2>3. DonationsKnown'
    BY <1>1, <1>5, <1>7, <2>1, <2>2 DEF DonationsKnown
  <2>4. Cardinality(donations)' = Cardinality(donations)
    BY <2>1
  <2>5. DonationsCounted'
    <3>1. CASE answered
      BY <1>4, <1>6, <1>8, <2>1, <2>2, <2>4, <3>1 DEF DonationsCounted
    <3>2. CASE ~answered
      BY <1>4, <1>6, <1>8, <2>1, <2>2, <2>4, <3>2 DEF DonationsCounted
    <3> QED BY <3>1, <3>2
  <2> QED BY <2>2, <2>3, <2>5
<1>11. CASE P!DonationSum(d)
  <2>1. /\ deal[d].step = "sum" /\ UNCHANGED donations /\ P!Go(d, "insert")
        /\ fundraiser' = [amount |-> deal[d].seen + 1, attached |-> deal[d].list]
    BY <1>11 DEF P!DonationSum, P!At
  <2>2. /\ deal'[d].kind = "donation" /\ deal'[d].step = "insert" /\ deal'[d].list = deal[d].list
        /\ \A e \in Deals \ {d} : deal'[e] = deal[e]
    BY <1>1, <2>1, GoKeeps
  <2>3. fundraiser'.amount = deal[d].seen + 1 /\ fundraiser'.attached = deal[d].list
    BY <2>1
  <2>4. DonationsKnown'
    BY <1>1, <1>5, <1>7, <2>1, <2>2, <2>3 DEF DonationsKnown
  <2>5. Cardinality(donations)' = Cardinality(donations)
    BY <2>1
  <2>6. DonationsCounted'
    BY <1>4, <1>6, <1>8, <2>1, <2>2, <2>3, <2>5 DEF DonationsCounted
  <2> QED BY <2>2, <2>4, <2>6
<1>12. CASE P!DonationInsert(d)
  <2>1. /\ deal[d].step = "insert" /\ P!Go(d, "done") /\ donations' = donations \cup {d}
        /\ fundraiser' = [fundraiser EXCEPT !.attached = @ \cup {d}]
    BY <1>12 DEF P!DonationInsert, P!At
  <2>2. /\ deal'[d].kind = "donation" /\ deal'[d].step = "done" /\ deal'[d].list = deal[d].list
        /\ \A e \in Deals \ {d} : deal'[e] = deal[e]
    BY <1>1, <2>1, GoKeeps
  <2>3. fundraiser'.amount = fundraiser.amount /\ fundraiser'.attached = fundraiser.attached \cup {d}
    BY <1>2, <2>1
  <2>4. DonationsKnown'
    BY <1>1, <1>5, <1>7, <2>1, <2>2, <2>3 DEF DonationsKnown
  <2>5. Cardinality(donations)' = Cardinality(donations) + 1
    BY <1>6, <1>7, <2>1, FS_AddElement
  <2>6. DonationsCounted'
    BY <1>4, <1>6, <1>8, <2>1, <2>2, <2>3, <2>5 DEF DonationsCounted
  <2> QED BY <2>2, <2>4, <2>6
<1> QED BY <1>9, <1>10, <1>11, <1>12

LEMMA StopKeepsCounts ==
  ASSUME PurchasesInv, CountsInv, NEW d \in Deals, P!DealStops(d)
  PROVE  CountsInv'
<1>1. /\ deal[d].step \notin {"none", "done"} /\ P!Go(d, "done") /\ stopped' = stopped \cup {d}
      /\ UNCHANGED <<intents, payouts, sticker, fundraiser, donations, jammed>>
  BY DEF P!DealStops, P!counted
<1>2. /\ deal'[d].step = "done" /\ deal'[d].kind = deal[d].kind /\ deal'[d].list = deal[d].list
      /\ \A e \in Deals \ {d} : deal'[e] = deal[e]
  BY <1>1, GoKeeps
<1>3. stopped \subseteq Deals
  BY DEF PurchasesInv, P!TypeOK
<1>4. StickersPaid'
  <2>1. ~Doing(d, "sticker", {"count", "grant"})' /\ ~Doing(d, "sticker", {"request"})'
    BY <1>2 DEF Doing
  <2>2. /\ Making("sticker", {"count", "grant"})' <= Making("sticker", {"count", "grant"})
        /\ Making("sticker", {"count", "grant"}) \in Nat /\ Making("sticker", {"count", "grant"})' \in Nat
    BY <1>2, <2>1, DealsCounting
  <2>3. /\ Making("sticker", {"request"})' <= Making("sticker", {"request"})
        /\ Making("sticker", {"request"}) \in Nat /\ Making("sticker", {"request"})' \in Nat
    BY <1>2, <2>1, DealsCounting
  <2> QED BY <1>1, <2>2, <2>3 DEF CountsInv, StickersPaid
<1>5. StickersCounted'
  <2>1. CASE deal[d].kind = "sticker"
    BY <1>1, <1>2, <2>1 DEF StickersCounted, Unspoilt
  <2>2. CASE deal[d].kind # "sticker"
    BY <1>1, <1>2, <1>3, <2>2, FarFromStickers DEF CountsInv
  <2> QED BY <2>1, <2>2
<1>6. DonationsKnown'
  BY <1>1, <1>2 DEF CountsInv, DonationsKnown
<1>7. DonationsCounted'
  <2>1. CASE deal[d].kind = "donation"
    BY <1>1, <1>2, <2>1 DEF DonationsCounted, Unspoilt
  <2>2. CASE deal[d].kind # "donation"
    BY <1>1, <1>2, <1>3, <2>2, FarFromDonations DEF CountsInv
  <2> QED BY <2>1, <2>2
<1> QED BY <1>4, <1>5, <1>6, <1>7 DEF CountsInv

LEMMA CountsStep ==
  ASSUME PurchasesInv, CountsInv, P!Next
  PROVE  CountsInv'
<1> PICK d \in Deals :
      \/ \E kind \in P!Kinds : P!Start(d, kind)
      \/ P!TipDebit(d) \/ P!PayoutDebit(d)
      \/ P!TipCredit(d) \/ P!TipFee(d) \/ P!Refund(d)
      \/ \E outcome \in {"sent", "refused", "lost"} : P!Transfer(d, outcome)
      \/ P!StickerLoad(d) \/ P!StickerRequest(d) \/ P!StickerCount(d) \/ P!StickerGrant(d)
      \/ P!DonationLoad(d) \/ P!DonationSum(d) \/ P!DonationInsert(d)
      \/ \E answered \in BOOLEAN : P!StickerIntend(d, answered) \/ P!DonationIntend(d, answered)
      \/ P!DealStops(d)
  BY DEF P!Next
<1>1. CASE P!TipDebit(d) \/ P!PayoutDebit(d)
  <2>1. /\ deal[d].kind \in {"tip", "payout"} /\ deal[d].step # "done"
        /\ \E step : P!Go(d, step)
        /\ UNCHANGED <<P!counted, stopped, jammed>>
    BY <1>1 DEF P!TipDebit, P!PayoutDebit, P!At, P!Take
  <2> QED BY <2>1, MoneyKeepsCounts
<1>2. CASE P!TipCredit(d) \/ P!TipFee(d) \/ P!Refund(d)
  <2>1. /\ deal[d].kind \in {"tip", "payout"} /\ deal[d].step # "done"
        /\ \E step : P!Go(d, step)
        /\ UNCHANGED <<P!counted, stopped, jammed>>
    BY <1>2 DEF P!TipCredit, P!TipFee, P!Refund, P!At, P!Give
  <2> QED BY <2>1, MoneyKeepsCounts
<1>3. ASSUME NEW outcome \in {"sent", "refused", "lost"}, P!Transfer(d, outcome) PROVE CountsInv'
  <2>1. /\ deal[d].kind = "payout" /\ deal[d].step # "done"
        /\ P!Go(d, IF outcome = "sent" THEN "done" ELSE "refund")
        /\ UNCHANGED <<P!counted, stopped, jammed>>
    BY <1>3 DEF P!Transfer, P!At
  <2> QED BY <2>1, MoneyKeepsCounts
<1> QED BY <1>1, <1>2, <1>3, StartKeepsCounts, StickerKeepsCounts, DonationKeepsCounts, StopKeepsCounts

LEMMA CountsBegin == P!Init => CountsInv
<1> SUFFICES ASSUME P!Init PROVE CountsInv
  OBVIOUS
<1>1. /\ \A d \in Deals : deal[d].kind = "tip" /\ deal[d].step = "none" /\ deal[d].list = {}
      /\ intents = 0 /\ payouts = 0 /\ sticker = [sales |-> 0, owned |-> 0]
      /\ fundraiser = [amount |-> 0, attached |-> {}] /\ donations = {}
  BY DEF P!Init, P!NotMade
<1>2. \A steps : Making("sticker", steps) = 0
  <2> SUFFICES ASSUME NEW steps PROVE Making("sticker", steps) = 0
    OBVIOUS
  <2>1. {d \in Deals : Doing(d, "sticker", steps)} = {}
    BY <1>1 DEF Doing
  <2> QED BY <2>1, FS_EmptySet DEF Making
<1>3. P!UnderWay("sticker") = {} /\ P!UnderWay("donation") = {}
  BY <1>1 DEF P!UnderWay
<1>4. Cardinality(donations) = 0
  BY <1>1, FS_EmptySet
<1>5. StickersPaid /\ StickersCounted
  BY <1>1, <1>2, <1>3 DEF StickersPaid, StickersCounted
<1>6. DonationsKnown /\ DonationsCounted
  BY <1>1, <1>3, <1>4 DEF DonationsKnown, DonationsCounted
<1> QED BY <1>5, <1>6 DEF CountsInv

LEMMA QuietCounts ==
  ASSUME CountsInv, UNCHANGED bought
  PROVE  CountsInv'
<1>1. UNCHANGED <<deal, intents, payouts, sticker, fundraiser, donations, stopped, jammed>>
  BY DEF bought
<1>2. \A steps : Making("sticker", steps)' = Making("sticker", steps)
  BY <1>1 DEF Making, Doing
<1>3. \A kind : /\ P!UnderWay(kind)' = P!UnderWay(kind)
                /\ Unspoilt(kind)' <=> Unspoilt(kind)
  BY <1>1 DEF P!UnderWay, Unspoilt
<1>4. StickersPaid' /\ StickersCounted'
  BY <1>1, <1>2, <1>3 DEF CountsInv, StickersPaid, StickersCounted
<1>5. Cardinality(donations)' = Cardinality(donations)
  BY <1>1
<1>6. DonationsKnown' /\ DonationsCounted'
  BY <1>1, <1>3, <1>5 DEF CountsInv, DonationsKnown, DonationsCounted
<1> QED BY <1>4, <1>6 DEF CountsInv

LEMMA CountsHold == CountsInv => P!StickerSoldOnce /\ P!DonationsAddUp
<1> SUFFICES ASSUME CountsInv PROVE P!StickerSoldOnce /\ P!DonationsAddUp
  OBVIOUS
<1>1. \A kind : P!Calm(kind) => Unspoilt(kind) /\ P!UnderWay(kind) = {}
  BY DEF P!Calm, Unspoilt
<1>2. sticker.owned <= payouts /\ payouts <= intents
  <2>1. \A steps : Making("sticker", steps) \in Nat
    <3> SUFFICES ASSUME NEW steps PROVE Making("sticker", steps) \in Nat
      OBVIOUS
    <3>1. IsFiniteSet({d \in Deals : Doing(d, "sticker", steps)})
      BY IdsFinite, FS_Subset
    <3> QED BY <3>1, FS_CardinalityType DEF Making
  <2>2. Making("sticker", {"count", "grant"}) \in Nat /\ Making("sticker", {"request"}) \in Nat
    BY <2>1
  <2> QED BY <2>2 DEF CountsInv, StickersPaid
<1>3. P!StickerSoldOnce
  BY <1>1, <1>2 DEF CountsInv, StickersCounted, P!StickerSoldOnce
<1>4. P!Cardinality(donations) = Cardinality(donations)
  BY SameCount
<1>5. P!DonationsAddUp
  BY <1>1, <1>4 DEF CountsInv, DonationsKnown, DonationsCounted, P!DonationsAddUp
<1> QED BY <1>3, <1>5

(***************************************************************************)
(* The whole: in each behaviour one of the four moves, and the others stay *)
(* as they began.                                                          *)
(***************************************************************************)

MarketInv ==
  /\ channel \in {"orders", "returns", "checkout", "purchases"}
  /\ IF channel = "orders" THEN OrdersInv ELSE I!OrderFollowsShipment
  /\ IF channel = "returns" THEN ReturnsInv ELSE R!OneOpenRequest
  /\ IF channel = "checkout" THEN CheckoutInv ELSE C!SettledOnce /\ C!CreditIsPaidFor
  /\ IF channel = "purchases" THEN PurchasesInv ELSE P!MoneyArrives
  /\ StockInv /\ SalesInv /\ CountsInv

ForwardOnly == I!ForwardStep /\ C!FinalStep /\ R!ReturnStep

LEMMA MarketBegins == Init => MarketInv
BY OrdersBegin, OrdersFollow, ReturnsBegin, OneOpen, CheckoutBegin, CheckoutSettles,
   PurchasesBegin, MoneyComes, StockBegins, SalesBegin, CountsBegin
   DEF Init, MarketInv

LEMMA QuietOrders ==
  ASSUME UNCHANGED ordered
  PROVE  (I!OrderFollowsShipment => I!OrderFollowsShipment') /\ I!ForwardStep
BY DEF ordered, I!OrderFollowsShipment, I!ForwardStep, I!InHand, I!Follows, I!Idle

LEMMA QuietReturns ==
  ASSUME UNCHANGED returned
  PROVE  (R!OneOpenRequest => R!OneOpenRequest') /\ R!ReturnStep
BY DEF returned, R!OneOpenRequest, R!ReturnStep, R!Open

LEMMA QuietCheckout ==
  ASSUME UNCHANGED paid
  PROVE  /\ C!SettledOnce /\ C!CreditIsPaidFor => (C!SettledOnce /\ C!CreditIsPaidFor)'
         /\ C!FinalStep
BY DEF paid, C!SettledOnce, C!CreditIsPaidFor, C!FinalStep

LEMMA QuietPurchases ==
  ASSUME UNCHANGED bought
  PROVE  P!MoneyArrives => P!MoneyArrives'
BY DEF bought, P!MoneyArrives

LEMMA MarketStep ==
  ASSUME MarketInv, Next
  PROVE  MarketInv' /\ ForwardOnly
<1>1. channel' = channel
  BY DEF Next
<1>2. CASE channel = "orders" /\ I!Next /\ UNCHANGED <<paid, bought, returned>>
  <2>1. OrdersInv' /\ I!ForwardStep
    BY <1>2, OrdersStep DEF MarketInv
  <2>2. StockInv' /\ SalesInv' /\ CountsInv'
    BY <1>2, StockStep, QuietSales, QuietCounts DEF MarketInv, OrdersInv
  <2> QED BY <1>1, <1>2, <2>1, <2>2, QuietReturns, QuietCheckout, QuietPurchases
          DEF MarketInv, ForwardOnly
<1>3. CASE channel = "checkout" /\ C!Next /\ UNCHANGED <<ordered, bought, returned>>
  <2>1. CheckoutInv' /\ C!FinalStep
    BY <1>3, CheckoutStep DEF MarketInv
  <2>2. StockInv' /\ SalesInv' /\ CountsInv'
    BY <1>3, QuietStock, SalesStep, QuietCounts DEF MarketInv
  <2> QED BY <1>1, <1>3, <2>1, <2>2, QuietOrders, QuietReturns, QuietPurchases
          DEF MarketInv, ForwardOnly
<1>4. CASE channel = "purchases" /\ P!Next /\ UNCHANGED <<ordered, paid, returned>>
  <2>1. PurchasesInv'
    BY <1>4, PurchasesStep DEF MarketInv
  <2>2. StockInv' /\ SalesInv' /\ CountsInv'
    BY <1>4, QuietStock, QuietSales, CountsStep DEF MarketInv
  <2> QED BY <1>1, <1>4, <2>1, <2>2, QuietOrders, QuietReturns, QuietCheckout
          DEF MarketInv, ForwardOnly
<1>5. CASE channel = "returns" /\ R!Next /\ UNCHANGED <<rare, ordered, paid, bought>>
  <2>1. ReturnsInv' /\ R!ReturnStep
    BY <1>5, ReturnsStep DEF MarketInv
  <2>2. StockInv' /\ SalesInv' /\ CountsInv'
    BY <1>5, QuietStock, QuietSales, QuietCounts DEF MarketInv
  <2> QED BY <1>1, <1>5, <2>1, <2>2, QuietOrders, QuietCheckout, QuietPurchases
          DEF MarketInv, ForwardOnly
<1> QED BY <1>2, <1>3, <1>4, <1>5 DEF Next

LEMMA MarketStutter ==
  ASSUME MarketInv, UNCHANGED vars
  PROVE  MarketInv'
<1>1. UNCHANGED <<channel, rare, ordered, paid, bought, returned>>
  BY DEF vars
<1>2. OrdersInv => OrdersInv'
  BY <1>1 DEF ordered, OrdersInv, OrdersTyped, CallKnows, Undisturbed, Settled, CallReads, Has,
              I!TypeOK
<1>3. ReturnsInv => ReturnsInv'
  BY <1>1 DEF returned, ReturnsInv, ReturnsTyped, Undoubled, Unswayed, Updates, R!TypeOK, R!Open
<1>4. CheckoutInv => CheckoutInv'
  <2>1. \A w, s, steps : Does(w, s, steps)' <=> Does(w, s, steps)
    BY <1>1 DEF paid, Does
  <2>2. \A s, steps : Number(s, steps)' = Number(s, steps)
    BY <1>1, <2>1 DEF paid, Number, Does
  <2>3. CheckoutTyped => CheckoutTyped'
    BY <1>1 DEF paid, CheckoutTyped, C!TypeOK
  <2>4. ASSUME NEW s \in Sessions, PaidFor(s)
        PROVE  PaidFor(s)'
    BY <1>1, <2>1, <2>2, <2>4 DEF paid, PaidFor
  <2>5. ASSUME NEW s \in Sessions, Once(s)
        PROVE  Once(s)'
    BY <1>1, <2>1, <2>5 DEF paid, Once, Sold
  <2>6. ASSUME NEW s \in Sessions, Decided(s)
        PROVE  Decided(s)'
    BY <1>1, <2>1, <2>6 DEF paid, Decided
  <2>7. ASSUME NEW s \in Sessions, Opening(s)
        PROVE  Opening(s)'
    BY <1>1, <2>1, <2>7 DEF paid, Opening
  <2> QED BY <1>1, <2>3, <2>4, <2>5, <2>6, <2>7 DEF paid, CheckoutInv
<1>5. PurchasesInv => PurchasesInv'
  BY <1>1 DEF bought, PurchasesInv, Passes, Holds, P!TypeOK
<1>6. StockInv' /\ SalesInv' /\ CountsInv'
  BY <1>1, QuietStock, QuietSales, QuietCounts DEF MarketInv
<1> QED BY <1>1, <1>2, <1>3, <1>4, <1>5, <1>6, QuietOrders, QuietReturns, QuietCheckout, QuietPurchases
        DEF MarketInv

LEMMA MarketInvariant == Spec => []MarketInv
<1>1. MarketInv /\ [Next]_vars => MarketInv'
  BY MarketStep, MarketStutter
<1> QED BY MarketBegins, <1>1, PTL DEF Spec

(* Every row and request has its type, whatever overlaps or stops, for     *)
(* orders of any sign: among others the variant's stock, the warehouse's   *)
(* and its reserved units are never below zero, and no wallet is           *)
(* overdrawn.  Of products.stock it says no such thing: see StockIsCounted. *)
THEOREM MarketTypes == Spec => []TypeOK
<1>1. MarketInv => TypeOK
  BY DEF MarketInv, TypeOK, OrdersInv, OrdersTyped, ReturnsInv, ReturnsTyped, CheckoutInv,
         CheckoutTyped, PurchasesInv
<1> QED BY <1>1, MarketInvariant, PTL

(* An order that no two calls had in hand at once, and that no call left   *)
(* behind, has one shipment at most, and its status follows the            *)
(* shipment's (fulfillOrder, createShipment, updateShipment).              *)
THEOREM OrdersFollowShipments == Spec => []OrderFollowsShipment
<1>1. MarketInv => OrderFollowsShipment
  BY OrdersFollow DEF MarketInv, OrderFollowsShipment
<1> QED BY <1>1, MarketInvariant, PTL

(* No unit stays reserved that neither a customer holds nor a negative     *)
(* order's fulfilment put there, and what customers hold is in the         *)
(* warehouse but for the reserved units that fulfilments took, to the      *)
(* unit, unless an upsert wrote a stale count (reserveStock,               *)
(* releaseReservation, fulfillOrder, upsertStock): for every number of     *)
(* requests and reservations, and for quantities of any sign.              *)
THEOREM ReservedStaysHeld == Spec => []ReservedIsHeld
<1>1. MarketInv => ReservedIsHeld
  BY StockHolds DEF MarketInv, ReservedIsHeld
<1> QED BY <1>1, MarketInvariant, PTL

(* What was ordered and can be ordered is within the variant's stock and   *)
(* what negative orders added to it; a product's stock falls by what was   *)
(* sold, never by more than was credited, and is below zero only if one    *)
(* session was checked for while another was on its way or open; a sticker *)
(* is paid for, sold and owned once; a fundraiser's amount is that of its  *)
(* donations: each unless the writers of the number overlapped, one        *)
(* stopped half way, or a session was completed twice.                     *)
THEOREM StockStaysCounted == Spec => []StockIsCounted
<1>1. MarketInv => StockIsCounted
  BY StockHolds, SalesHold, CountsHold DEF MarketInv, StockIsCounted
<1> QED BY <1>1, MarketInvariant, PTL

(* A checkout session is settled once unless two requests completed it or  *)
(* one stopped, the seller is credited no more than the buyer was debited, *)
(* tips and payouts arrive or come back, and an order has one open request *)
(* for its return.                                                         *)
THEOREM MarketSettlesOnce == Spec => []SettledOnce
<1>1. MarketInv => SettledOnce
  BY OneOpen, CheckoutSettles, MoneyComes DEF MarketInv, SettledOnce
<1> QED BY <1>1, MarketInvariant, PTL

(* Shipments and returns keep to their tables of transitions and stay at   *)
(* their ends, a decision on an escrow is final and what was shipped stays *)
(* shipped: for rows that no two calls had in hand at once.                *)
THEOREM MarketDecisionsStay == Spec => DecisionsAreFinal
<1>1. MarketInv /\ [Next]_vars => [I!ForwardStep /\ C!FinalStep /\ R!ReturnStep]_vars
  BY MarketStep DEF ForwardOnly
<1> QED BY <1>1, MarketInvariant, PTL DEF Spec, DecisionsAreFinal
=============================================================================
