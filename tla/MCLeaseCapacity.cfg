SPECIFICATION LeaseSpec
CONSTANTS
  a1 = a1
  w1 = w1
  w2 = w2
  r1 = r1
  r2 = r2
  Account = {a1}
  Worker = {w1, w2}
  Request = {r1, r2}
  None = None
  MaxTime = 2
  MaxHolders = 1
  Grace = 1
  Ttl = 2
  MaxLease = 2
INVARIANT
  HardCeiling
