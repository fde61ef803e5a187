\* One instance that runs this code and one account on it, one worker, no fault.
SPECIFICATION Spec
CONSTANTS
    d1 = d1
    d2 = d2
    a1 = a1
    a2 = a2
    Domains = {d1}
    Zynkra = {d1}
    Actors = {a1}
    Home <- OneOnOne
    Workers = {w1}
    MaxAttempts = 2
    MaxCreates = 1
    MaxManual = 0
    MaxBlocks = 0
    MaxFaults = 0
INVARIANT NoCopyOutlives
CHECK_DEADLOCK FALSE
