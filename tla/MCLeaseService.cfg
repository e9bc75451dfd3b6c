SPECIFICATION LeaseSpec
CONSTANTS
  a1 = a1
  a2 = a2
  w1 = w1
  w2 = w2
  r1 = r1
  r2 = r2
  Account = {a1, a2}
  Worker = {w1, w2}
  Request = {r1, r2}
  None = None
  MaxTime = 2
  MaxHolders = 1
  Grace = 1
  Ttl = 1
  MaxLease = 1
SYMMETRY Symmetry
INVARIANTS
  NoDisbeliefLoop
  LeaseInv
  BooksAgree
PROPERTY
  NeverPicksSpent
