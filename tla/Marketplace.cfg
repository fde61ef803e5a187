\* Two requests at once; two reservations and one order of a variant with two
\* units, three returns of it; two checkout sessions of a product with one unit;
\* three purchases, payouts or donations.
SPECIFICATION Spec
CONSTANTS
    Requests = {q1, q2}
    Reservations = {v1, v2}
    Orders = {o1}
    Sizes <- SomeSizes
    MaxStock = 2
    MaxMinted = 2
    MaxInventoryRare = 1
    Sessions = {s1, s2}
    Funds = 2
    FirstStock = 1
    MaxCheckoutRare = 2
    Deals = {d1, d2, d3}
    Wallets <- FirstWallets
    MaxPurchaseRare = 2
    MaxReturns = 3
SYMMETRY Symmetry
INVARIANTS TypeOK ReservedIsHeld StockIsCounted OrderFollowsShipment SettledOnce
PROPERTY DecisionsAreFinal
CHECK_DEADLOCK FALSE
