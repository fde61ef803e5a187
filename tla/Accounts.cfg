\* Three accounts, two requests at a time, four of them.
SPECIFICATION AccountsSpec
CONSTANTS
    u1 = u1
    u2 = u2
    u3 = u3
    Users = {u1, u2, u3}
    Workers = {w1, w2}
    Addresses = {a1}
    None = None
    Deltas <- HalfCents
    MaxBalance = 8
    MaxEntries = 2
    Lists = {"blocked", "muted"}
    Private = {u1}
    Requests = {r1}
    Pairs <- Triangle
    First <- Beginnings
    MaxCalls = 4
SYMMETRY Interchangeable
INVARIANTS AccountsTypeOK  BalanceWasRecorded BlockSevers LinksAsAsked
CHECK_DEADLOCK FALSE
