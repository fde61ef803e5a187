\* One instance of other software, two accounts on it, two workers, one fault,
\* one block and one redrive by an operator.
SPECIFICATION Spec
CONSTANTS
    d1 = d1
    d2 = d2
    a1 = a1
    a2 = a2
    Domains = {d1}
    Zynkra = {}
    Actors = {a1, a2}
    Home <- TwoOnOne
    Workers = {w1, w2}
    MaxAttempts = 2
    MaxCreates = 1
    MaxManual = 1
    MaxBlocks = 1
    MaxFaults = 1
SYMMETRY Interchangeable
INVARIANTS TypeOK RecordsAreTrue
CHECK_DEADLOCK FALSE
