\* Reconciliation under fairness, one fault.
CONSTANTS
    Payouts = {p1}
    Workers = {w1, w2}
    NoPayout = NoPayout
    ConnectEnabled = TRUE
    Funds = 1
    MaxTransfers = 1
    MaxFaults = 1
SPECIFICATION FairSpec
PROPERTY SettledIsReconciled
