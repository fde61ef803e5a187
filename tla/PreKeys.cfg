\* Two devices of one user and two peers, one fault.
SPECIFICATION Spec
CONSTANTS
    d1 = d1
    d2 = d2
    h1 = h1
    h2 = h2
    Devices = {d1, d2}
    Hooks = {h1, h2}
    DeviceOf <- TwoDevices
    Peers = {q1, q2}
    BatchSize = 2
    RandomIds = {100, 101}
    LowMark = 1
    MaxInits = 3
    MaxFetches = 2
    MaxFaults = 1
SYMMETRY Interchangeable
INVARIANTS TypeOK HandedOnce KeyIdsUnique IdentityHealed BundleIsUsable
CHECK_DEADLOCK FALSE
