SPECIFICATION LockSpec
CONSTANTS
  p1 = p1
  p2 = p2
  p3 = p3
  Process = {p1, p2, p3}
  Mortal = {p1}
  None = None
  Ghost = Ghost
  Stale = 6
  AcquireTimeout = 4
  MaxHold = 2
INVARIANTS
  MutualExclusion
