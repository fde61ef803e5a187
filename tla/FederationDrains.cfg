\* One instance that runs this code, one account on it, one fault, one block and
\* one redrive by an operator.
SPECIFICATION FairSpec
CONSTANTS
    d1 = d1
    d2 = d2
    a1 = a1
    a2 = a2
    Domains = {d1}
    Zynkra = {d1}
    Actors = {a1}
    Home <- OneOnOne
    Workers = {w1, w2}
    MaxAttempts = 3
    MaxCreates = 1
    MaxManual = 1
    MaxBlocks = 1
    MaxFaults = 1
PROPERTY QueueDrains
CHECK_DEADLOCK FALSE
