SPECIFICATION Spec
CONSTANTS
  u1 = u1
  u2 = u2
  k1 = k1
  k2 = k2
  k3 = k3
  c1 = c1
  c2 = c2
  Users = {o, u1, u2}
  Owner = o
  Channels = {c1, c2}
  Proposals = {p1, p2}
  Calls = {k1, k2, k3}
  MaxCalls = 4
  MaxLocks = 2
SYMMETRY GroupSymmetry
INVARIANTS TypeOK AdminKept RowsFollowMembers LockdownHolds VoteCounted
CHECK_DEADLOCK FALSE
