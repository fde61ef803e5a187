SPECIFICATION Spec
CONSTANTS
  u1 = u1
  u2 = u2
  k1 = k1
  k2 = k2
  k3 = k3
  c1 = c1
  c2 = c2
  Users = {o, u1, u2}
  Owner = o
  Channels = {}
  Proposals = {}
  Calls = {k1, k2}
  MaxCalls = 6
  MaxLocks = 0
SYMMETRY GroupSymmetry
INVARIANT DemotionsKeepAnAdmin
CHECK_DEADLOCK FALSE
