SPECIFICATION FairPollerSpec
CONSTANTS
  a1 = a1
  Account = {a1}
  MaxTime = 5
  Horizon = 6
  Slack = 0
  MaxDelay = 6
  Reading <- MCReading
  WindowName = {"five_hour", "weekly"}
  Length <- MCLength
  Backoff = 2
INVARIANTS
  BookSound
  PollerInv
PROPERTIES
  BookSpec
  PendingResolves
