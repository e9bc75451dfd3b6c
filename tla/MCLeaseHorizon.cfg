SPECIFICATION Spec
CONSTANTS
  a1 = a1
  w1 = w1
  w2 = w2
  f1 = f1
  f2 = f2
  Account = {a1}
  Worker = {w1, w2}
  Flight = {f1, f2}
  None = None
  MaxGen = 3
  MaxTime = 5
  Lifetimes = {5}
  Threshold = 2
  Buffer = 1
  MinRemaining = 1
  CheckInterval = 1
  Cooldown429 = 1
  MaxAttempts = 2
SYMMETRY Symmetry
PROPERTY
  LeaseNeverOutlives
