\* One payment, two handlers at a time, two faults, up to two partial refunds;
\* no symmetry, because a liveness property is checked.
SPECIFICATION FairSpec
CONSTANTS
    Payments = {p1}
    Workers = {w1, w2}
    NoPayment = NoPayment
    Gross = 2
    MaxRaces = 2
    MaxFaults = 2
INVARIANTS TypeOK FulfilledOnce BooksAgree
PROPERTIES NeverRegresses SucceededIsCredited
CHECK_DEADLOCK FALSE
