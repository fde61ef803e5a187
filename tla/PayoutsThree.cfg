\* One payout, three handlers at a time, two faults.
CONSTANTS
    Payouts = {p1}
    Workers = {w1, w2, w3}
    NoPayout = NoPayout
    ConnectEnabled = TRUE
    Funds = 1
    MaxTransfers = 2
    MaxFaults = 2
SPECIFICATION Spec
SYMMETRY Interchangeable
INVARIANTS TypeOK MoneyMovesOnce
PROPERTIES DecisionsStay ImplementsEscrow
